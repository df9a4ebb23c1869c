------------------------------ MODULE ThreadSrp ------------------------------
(***************************************************************************)
(* The service registrar and DNS client over Thread (src/thread.rs,         *)
(* EspMatterThreadSrp).                                                     *)
(*                                                                         *)
(* run_register hands the Matter services to OpenThread's SRP client each   *)
(* time they change; run_serve answers resolve and browse requests while    *)
(* the client has a server.  run() is started again on every netif change.  *)
(* External: Matter (wanted, signal, query), OpenThread's SRP client        *)
(* (client, msg), which sends what is pending as one update, and the SRP    *)
(* server, which merges an update into what it has or, as a border router   *)
(* may, takes it for the complete description of the host.                  *)
(***************************************************************************)
EXTENDS Naturals, FiniteSets

CONSTANTS
    Services,    \* the Matter services: one per fabric, one commissionable
    MaxChanges,  \* bound: changes of the set of services
    MaxMoves,    \* bound: servers lost or found, networks changed, reboots
    MaxFaults,   \* bound: calls that fail, updates or answers that are lost
    MaxQueries   \* bound: resolve and browse requests

ASSUME SrpAssumption ==
    /\ IsFiniteSet(Services)
    /\ MaxChanges \in Nat /\ MaxMoves \in Nat
    /\ MaxFaults \in Nat /\ MaxQueries \in Nat

VARIABLES
    wanted,     \* what matter.mdns_services() would list
    signal,     \* wait_mdns() has something to report
    run,        \* "off", "register" (top of its loop), "wait", or "failed"
    services,   \* EspMatterThreadSrp.services
    serve,      \* run_serve: "absent" (waits for a server) or "serving"
    query,      \* a request of each kind: "none", "asked" or "running"
    client,     \* each service in the SRP client
    msg,        \* the SRP update on its way
    look,       \* run_serve is to look at the server: its first look, or
                \* srp_wait_changed() has something to report
    server,     \* "none", or how the server takes updates
    published,  \* the services others can discover
    moved,      \* the netif has changed, Matter is to start run() again
    changes, moves, faults, queries   \* counters for the bounds

codeVars  == <<run, services, serve>>
otVars    == <<client, msg, look>>
worldVars == <<server, published, moved, moves>>
askVars   == <<wanted, signal, query, changes, queries>>
vars == <<codeVars, otVars, worldVars, askVars, faults>>

Kinds   == {"resolve", "browse"}
Servers == {"merging", "strict"}
NoMsg   == [adds |-> {}, removes |-> {}, handled |-> FALSE]
Fault   == faults < MaxFaults /\ faults' = faults + 1

\* The services the client keeps registered, or is about to.
Held == {s \in Services : client[s] \in {"add", "adding", "reg"}}
NoClient == [s \in Services |-> "none"]

\* The client has to send again what no server has confirmed to it.
Requeued ==
    [s \in Services |->
        CASE client[s] \in {"adding", "reg"} -> "add"
          [] client[s] = "removing" -> "remove"
          [] OTHER -> client[s]]

Unsent ==
    [s \in Services |->
        CASE client[s] = "adding" -> "add"
          [] client[s] = "removing" -> "remove"
          [] OTHER -> client[s]]

\* Mutant: the queries outlive the server they were sent to.
QueriesKept == query

\* A request in progress goes down with the future that serves it.
QueriesDropped ==
    [k \in Kinds |-> IF query[k] = "running" THEN "none" ELSE query[k]]

ServeDropped == serve' = "absent" /\ query' = QueriesDropped

Init ==
    /\ wanted \in SUBSET Services /\ signal = FALSE
    /\ run = "off" /\ services = {} /\ serve = "absent"
    /\ query = [k \in Kinds |-> "none"]
    /\ client = NoClient /\ msg = NoMsg /\ look = FALSE
    /\ server \in Servers \cup {"none"} /\ published \in {{}, Services}
    /\ moved = FALSE
    /\ changes = 0 /\ moves = 0 /\ faults = 0 /\ queries = 0

-----------------------------------------------------------------------------
(* run(): started at first, after a failure, and when the netif changes.   *)

\* Mutant: the list of a previous run is kept.
ClearedServicesKept == services

\* self.services.clear(), after srp_remove_all(true).
ClearedServices == {}

Start ==
    /\ run \in {"off", "failed"} \/ moved
    /\ moved' = FALSE /\ look' = TRUE /\ ServeDropped
    /\ \/ /\ run' = "register" /\ client' = NoClient
          /\ services' = ClearedServices /\ UNCHANGED faults
       \/ \* esp_read_mac or srp_remove_all fails
          /\ Fault /\ run' = "failed" /\ UNCHANGED <<client, services>>
       \/ \* srp_set_conf fails
          /\ Fault /\ run' = "failed" /\ client' = NoClient
          /\ services' = ClearedServices
    /\ UNCHANGED <<wanted, signal, changes, queries, msg, server, published,
                   moves>>

-----------------------------------------------------------------------------
(* run_register and update_services.                                       *)

\* Mutant: compare the sizes only.
UnchangedSize == Cardinality(wanted) = Cardinality(services)

\* The set has not changed: nothing to do.
Unchanged == wanted = services

\* Mutant: what stays is not registered again, the update is a partial one.
UpdatedPartly(s) ==
    CASE s \in wanted \ services -> "add"
      [] s \in services \ wanted -> "remove"
      [] OTHER -> client[s]

\* Everything that stays is dropped locally and registered again, what goes
\* is removed at the server.
Updated(s) ==
    CASE s \in wanted -> "add"
      [] s \in services \ wanted -> "remove"
      [] OTHER -> client[s]

\* The first loop: what stays is cleared, what goes is to be removed.
Released(done) ==
    [s \in Services |->
        CASE s \in done \cap wanted -> "none"
          [] s \in done \ wanted -> "remove"
          [] OTHER -> client[s]]

RegisterFrame == UNCHANGED <<msg, look, worldVars, wanted, signal, changes,
                             queries>>

\* An error of either future ends run(), and with it the other.
Fails == run' = "failed" /\ ServeDropped

\* OpenThread sends nothing between two calls of the loops: it waits for
\* further changes first.
Register ==
    /\ run = "register" /\ run' = "wait"
    /\ IF Unchanged THEN UNCHANGED <<client, services>>
                    ELSE /\ client' = [s \in Services |-> Updated(s)]
                         /\ services' = wanted
    /\ UNCHANGED <<serve, query, faults>> /\ RegisterFrame

\* A call of the first loop fails: `self.services` is empty already.
ReleaseFails ==
    /\ run = "register" /\ ~Unchanged /\ Fault
    /\ \E done \in SUBSET services :
          done # services /\ client' = Released(done)
    /\ services' = {} /\ Fails /\ RegisterFrame

\* A call of the second loop fails; adding a service whose removal the
\* server has not confirmed may always do so.
AddFails ==
    /\ run = "register" /\ ~Unchanged
    /\ \E added \in SUBSET wanted :
          LET base == Released(services) IN
          /\ added # wanted
          /\ \/ /\ \E s \in wanted \ added : base[s] \in {"remove", "removing"}
                /\ UNCHANGED faults
             \/ Fault
          /\ client' = [s \in Services |-> IF s \in added THEN "add" ELSE base[s]]
          /\ services' = added
    /\ Fails /\ RegisterFrame

\* matter.transport().wait_mdns()
WaitMdns ==
    /\ run = "wait" /\ signal /\ signal' = FALSE /\ run' = "register"
    /\ UNCHANGED <<services, serve, wanted, query, changes, queries, otVars,
                   worldVars, faults>>

-----------------------------------------------------------------------------
(* run_serve, run_resolve and run_browse.                                  *)

Running == run \in {"register", "wait"}

\* Mutant: the requests are served until run() ends.
ServeEndsNever == FALSE

\* The third branch of the select: the server is lost.
ServeEnds == server = "none"

ServeFrame == UNCHANGED <<services, wanted, signal, changes, client, msg,
                          worldVars>>

\* wait_srp_server looks and, if nothing is new, waits for a change; when it
\* ends, both futures of the select are dropped and the next one looks first.
WaitSrpServer ==
    /\ Running /\ look
    /\ \/ /\ serve = "absent" /\ server # "none" /\ serve' = "serving"
          /\ UNCHANGED <<look, query>>
       \/ /\ serve = "serving" /\ ServeEnds /\ ServeDropped /\ UNCHANGED look
       \/ /\ IF serve = "absent" THEN server = "none" ELSE ~ServeEnds
          /\ look' = FALSE /\ UNCHANGED <<serve, query>>
    /\ UNCHANGED <<run, queries, faults>> /\ ServeFrame

\* The server's address cannot be read.
WaitSrpServerFails ==
    /\ Running /\ look /\ Fault /\ Fails
    /\ UNCHANGED <<look, queries>> /\ ServeFrame

\* wait_resolve_request or wait_browse_request takes the request.
TakeRequest(k) ==
    /\ Running /\ serve = "serving" /\ query[k] = "asked"
    /\ query' = [query EXCEPT ![k] = "running"]
    /\ UNCHANGED <<run, serve, look, queries, faults>> /\ ServeFrame

\* The answers are deposited, or a failed query is logged.
QueryEnds(k) ==
    /\ query[k] = "running" /\ query' = [query EXCEPT ![k] = "none"]
    /\ UNCHANGED <<run, serve, look, queries, faults>> /\ ServeFrame

-----------------------------------------------------------------------------
(* Matter (external): the services change, somebody asks.                  *)

Want ==
    /\ changes < MaxChanges /\ changes' = changes + 1
    /\ wanted' \in SUBSET Services \ {wanted} /\ signal' = TRUE
    /\ UNCHANGED <<codeVars, otVars, worldVars, query, queries, faults>>

Ask(k) ==
    /\ query[k] = "none" /\ queries < MaxQueries /\ queries' = queries + 1
    /\ query' = [query EXCEPT ![k] = "asked"]
    /\ UNCHANGED <<codeVars, otVars, worldVars, wanted, signal, changes, faults>>

-----------------------------------------------------------------------------
(* OpenThread's SRP client and the server (external).                      *)

SrpFrame == UNCHANGED <<codeVars, askVars, server, moved, moves>>

\* One update at a time, with everything that is pending.
Send ==
    /\ server # "none" /\ msg = NoMsg
    /\ \E s \in Services : client[s] \in {"add", "remove"}
    /\ msg' = [adds    |-> {s \in Services : client[s] = "add"},
               removes |-> {s \in Services : client[s] = "remove"},
               handled |-> FALSE]
    /\ client' = [s \in Services |->
                    CASE client[s] = "add" -> "adding"
                      [] client[s] = "remove" -> "removing"
                      [] OTHER -> client[s]]
    /\ UNCHANGED <<look, published, faults>> /\ SrpFrame

Receive ==
    /\ msg # NoMsg /\ ~msg.handled /\ server # "none"
    /\ msg' = [msg EXCEPT !.handled = TRUE]
    /\ published' = IF server = "strict" THEN msg.adds
                    ELSE (published \cup msg.adds) \ msg.removes
    /\ UNCHANGED <<client, look, faults>> /\ SrpFrame

Ack ==
    /\ msg.handled /\ msg' = NoMsg
    /\ client' = [s \in Services |->
                    CASE client[s] = "adding" -> "reg"
                      [] client[s] = "removing" -> "none"
                      [] OTHER -> client[s]]
    /\ UNCHANGED <<look, published, faults>> /\ SrpFrame

\* The update or its answer is lost: the client sends again.
Lose ==
    /\ msg # NoMsg /\ Fault /\ msg' = NoMsg /\ client' = Unsent
    /\ UNCHANGED <<look, published>> /\ SrpFrame

\* A record nobody renews goes away.
LeaseExpires(s) ==
    /\ s \in published /\ client[s] = "none" /\ s \notin msg.adds
    /\ published' = published \ {s}
    /\ UNCHANGED <<client, msg, look, faults>> /\ SrpFrame

WorldMoves == /\ moves < MaxMoves /\ moves' = moves + 1
              /\ msg' = NoMsg /\ look' = TRUE
              /\ UNCHANGED <<wanted, signal, changes, queries, faults>>

\* The client's server goes, or the client finds one, which may have kept
\* the records.
ServerChange ==
    /\ server' \in (Servers \cup {"none"}) \ {server}
    /\ server # "none" => server' = "none"
    /\ published' \in {published, {}} /\ client' = Requeued
    /\ WorldMoves /\ UNCHANGED <<codeVars, query, moved>>

\* The device moves to another network, whose server knows nothing of it.
NetifChange ==
    /\ server' \in Servers \cup {"none"} /\ published' = {}
    /\ client' = Requeued /\ moved' = TRUE
    /\ WorldMoves /\ UNCHANGED <<codeVars, query>>

\* A power loss, or the driver's end: the server keeps what it has.
Reboot ==
    /\ run # "off" /\ run' = "off" /\ services' = {} /\ serve' = "absent"
    /\ query' = [k \in Kinds |-> "none"] /\ client' = NoClient
    /\ moved' = FALSE
    /\ WorldMoves /\ UNCHANGED <<server, published>>

-----------------------------------------------------------------------------
Next ==
    \/ Start \/ Register \/ ReleaseFails \/ AddFails \/ WaitMdns
    \/ WaitSrpServer \/ WaitSrpServerFails
    \/ \E k \in Kinds : TakeRequest(k) \/ QueryEnds(k) \/ Ask(k)
    \/ Want \/ Send \/ Receive \/ Ack \/ Lose
    \/ \E s \in Services : LeaseExpires(s)
    \/ ServerChange \/ NetifChange \/ Reboot

Spec == Init /\ [][Next]_vars

\* The executor polls run()'s futures, Matter starts it again when the netif
\* has changed, OpenThread sends, a server answers, leases and queries end.
Fairness ==
    /\ WF_vars(moved /\ Start) /\ WF_vars(Register) /\ WF_vars(WaitMdns)
    /\ WF_vars(WaitSrpServer)
    /\ \A k \in Kinds : WF_vars(TakeRequest(k)) /\ WF_vars(QueryEnds(k))
    /\ WF_vars(Send) /\ WF_vars(Receive) /\ WF_vars(Ack)
    /\ \A s \in Services : WF_vars(LeaseExpires(s))

FairSpec == Spec /\ Fairness

-----------------------------------------------------------------------------
(* Properties.                                                             *)

\* Every variable keeps its type; a request is in progress only while the
\* client has been seen to have a server, and an update adds or removes.
TypeOK ==
    /\ wanted \subseteq Services /\ services \subseteq Services
    /\ published \subseteq Services
    /\ {signal, look, moved} \subseteq BOOLEAN
    /\ run \in {"off", "register", "wait", "failed"}
    /\ serve \in {"absent", "serving"} /\ server \in Servers \cup {"none"}
    /\ query \in [Kinds -> {"none", "asked", "running"}]
    /\ client \in [Services -> {"none", "add", "adding", "reg", "remove", "removing"}]
    /\ msg.adds \subseteq Services /\ msg.removes \subseteq Services \ msg.adds
    /\ changes \in 0..MaxChanges /\ moves \in 0..MaxMoves
    /\ faults \in 0..MaxFaults /\ queries \in 0..MaxQueries
    /\ \A k \in Kinds : query[k] = "running" => serve = "serving" /\ Running

\* `services`, by which update_services decides that there is nothing to do
\* (thread.rs:981-988), is what the client holds: whatever the runs before
\* left, or the netif changes in between (thread.rs:786-787).
BeliefsAgree == Running => services = Held

\* While run() lives, a service the client reports as Registered can be
\* discovered, also at a server that takes an update for the complete
\* description of the host (thread.rs:990-999): no update leaves out what
\* is to stay.
RegisteredMeansPublished ==
    \A s \in Services : Running /\ client[s] = "reg" => s \in published

\* run_register waits for a change, the client for nothing from a server that
\* is there, and every record has a client that renews it.
NothingLeft ==
    /\ run = "wait" /\ ~signal /\ server # "none" /\ msg = NoMsg
    /\ \A s \in Services : client[s] \notin {"add", "remove"}
    /\ \A s \in published : client[s] # "none"

\* The registrar is never stuck short of its goal: when run_register waits, the
\* client has nothing left to send and no lease is left to end, exactly the
\* wanted services are published; and a run_serve that has nothing to look at
\* serves just when there is a server (thread.rs:816-868).  What Converges and
\* ServeTracks say will come, without the fairness.
SettledIsRight ==
    /\ NothingLeft => published = wanted
    /\ Running /\ ~look => (serve = "serving" <=> server # "none")

\* Once services, server and network settle, exactly the wanted services are
\* published (thread.rs:816-838): a change that races a registration, lost
\* updates, and records of earlier runs and servers included.
Converges ==
    <>[](run = "wait" /\ server # "none" => published = wanted)

\* Once the server stays, requests are served; once it is gone, nobody waits
\* for a server that cannot answer (thread.rs:840-868).
ServeTracks ==
    /\ <>[](Running => (serve = "serving" <=> server # "none"))
    /\ \A k \in Kinds :
         <>[](Running /\ server # "none" => query[k] = "none")
=============================================================================
