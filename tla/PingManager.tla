---------------------------- MODULE PingManager ----------------------------
(***************************************************************************)
(* The ping manager: every address of the list is pinged once per          *)
(* iteration while the VPN is off; failed pings are tried again, and the   *)
(* results are stored with the iteration they belong to                    *)
(* (src/client/engine/engine/ping/pingmanager.cpp, pingstorage.cpp).       *)
(*                                                                         *)
(* The time of an iteration is only ever compared with that of the current *)
(* one, so it is modelled by whether it is the current one.                *)
(***************************************************************************)
EXTENDS Naturals, FiniteSets

CONSTANTS
    Ips,             \* addresses that can be pinged
    MaxFailedInRow,  \* MAX_FAILED_PING_IN_ROW
    MaxFlights       \* bound on the pings of one address in flight

ASSUME PingAssumption == MaxFailedInRow \in Nat \ {0} /\ MaxFlights \in Nat \ {0}

VARIABLES
    pm,       \* the manager and its storage, see PingManagerType
    flights,  \* per address, pings that were not answered yet, see FlightsType
    stale,    \* 48 hours have passed or the network is another than the iteration's
    online,   \* networkDetectionManager_->isOnline()
    state     \* the published connect state

world == <<stale, online, state>>

\* "engaged" is every other state; a tunnel may be up in it.
ConnectState == {"disconnected", "engaged"}

Results == {"none", "failed", "measured"}

\* PingIpState; wait is a nextTimeForFailedPing that has not come yet.
Nodes == [current : BOOLEAN, failed : BOOLEAN, busy : BOOLEAN,
          row : 0 .. MaxFailedInRow - 1, wait : BOOLEAN]
\* PingStorage::PingData
Entries == [ping : Results, current : BOOLEAN]

PingManagerType(p) ==
    /\ DOMAIN p = {"nodes", "db", "started", "pending", "ticking"}
    /\ DOMAIN p.nodes \subseteq Ips /\ p.nodes \in [DOMAIN p.nodes -> Nodes]   \* ips_
    /\ DOMAIN p.db \subseteq Ips /\ p.db \in [DOMAIN p.db -> Entries]          \* pingDataDB_
    /\ p.started \in BOOLEAN                                  \* curIterationTime_ is not 0
    /\ p.pending \subseteq Ips                                \* pendingIps_
    /\ p.ticking \in BOOLEAN                                  \* pingTimer_ is active

\* A ping is direct when no tunnel can have been up since it was issued.
FlightsType == [Ips -> [direct : 0 .. MaxFlights, unsure : 0 .. MaxFlights]]
InFlight(ip) == flights[ip].direct + flights[ip].unsure

TypeOK ==
    /\ PingManagerType(pm)
    /\ flights \in FlightsType
    /\ stale \in BOOLEAN /\ online \in BOOLEAN /\ state \in ConnectState

\* The storage holds what an earlier run of the program has saved.
PingInit ==
    /\ \E saved \in SUBSET Ips, s \in BOOLEAN :
         \E d \in [saved -> Entries] :
            /\ ~s => \A ip \in saved : d[ip] = [ping |-> "none", current |-> TRUE]
            /\ pm = [nodes |-> [ip \in {} |-> ip], db |-> d, started |-> s,
                     pending |-> {}, ticking |-> FALSE]
    /\ flights = [ip \in Ips |-> [direct |-> 0, unsure |-> 0]]
    /\ stale \in BOOLEAN /\ online = TRUE /\ state = "disconnected"

-----------------------------------------------------------------------------
(* PingStorage                                                             *)

NoEntry(p) == [ping |-> "none", current |-> ~p.started]
Stored(p, ip) == IF ip \in DOMAIN p.db THEN p.db[ip] ELSE NoEntry(p)
GetPing(p, ip) == Stored(p, ip).ping

SetPing(p, ip, result) ==
    [p EXCEPT !.db = [i \in DOMAIN p.db \cup {ip} |->
        IF i = ip THEN [ping |-> result, current |-> TRUE] ELSE p.db[i]]]

\* isAllNodesHaveCurIteration()
AllNodesHaveCurIteration(p) == \A ip \in DOMAIN p.db : p.db[ip].current

-----------------------------------------------------------------------------
(* The list of addresses                                                   *)

NewNode(entry) ==
    [current |-> entry.current, failed |-> entry.ping = "failed",
     busy |-> FALSE, row |-> 0, wait |-> FALSE]

\* processLocationUpdate(): known addresses keep their state, the others go
\* from the list and from the storage.
ProcessLocationUpdate(p, ips) ==
    [p EXCEPT !.ticking = TRUE,
        !.nodes = [ip \in ips |->
            IF ip \in DOMAIN p.nodes THEN p.nodes[ip] ELSE NewNode(Stored(p, ip))],
        !.db = [ip \in {i \in ips : i \in DOMAIN p.db \/ i \notin DOMAIN p.nodes} |->
            Stored(p, ip)]]

ApplyPending(p) ==
    IF p.pending = {} THEN p
    ELSE [ProcessLocationUpdate(p, p.pending) EXCEPT !.pending = {}]

-----------------------------------------------------------------------------
(* The timer                                                               *)

ResetNode == [current |-> FALSE, failed |-> FALSE, busy |-> FALSE, row |-> 0, wait |-> FALSE]

\* Mutant: the nodes keep their state when an iteration begins.
NewIterationOfStorage(p) ==
    [p EXCEPT !.started = TRUE,
        !.db = [ip \in DOMAIN p.db |-> [p.db[ip] EXCEPT !.current = FALSE]]]

\* setCurrentIterationData() and resetState() of every node.
NewIteration(p) ==
    [p EXCEPT !.started = TRUE,
        !.nodes = [ip \in DOMAIN p.nodes |-> ResetNode],
        !.db = [ip \in DOMAIN p.db |-> [p.db[ip] EXCEPT !.current = FALSE]]]

\* The nodes onPingTimer() pings: failed ones when their time has come, and
\* the others once per iteration.
Due(p) == {ip \in DOMAIN p.nodes :
    LET n == p.nodes[ip]
    IN  ~n.busy /\ IF n.failed THEN ~n.wait ELSE ~n.current}

MayPing == online /\ state = "disconnected"
BeginsIteration(p) == DOMAIN p.nodes # {} /\ (~p.started \/ stale)

\* What onPingTimer() makes of the manager p, and what it does besides: it
\* takes the pending list first and returns when there is nothing to ping.
Begun(p) == IF BeginsIteration(p) THEN NewIteration(p) ELSE p
Timed(p) ==
    IF ~MayPing THEN p
    ELSE LET q == Begun(ApplyPending(p))
         IN  [q EXCEPT !.nodes = [ip \in DOMAIN q.nodes |->
                [q.nodes[ip] EXCEPT !.busy = @ \/ ip \in Due(q)]]]
Issues(p) ==
    LET q == ApplyPending(p)
        issued == IF MayPing THEN Due(Begun(q)) ELSE {}
    IN  /\ \A ip \in issued : InFlight(ip) < MaxFlights
        /\ flights' = [ip \in Ips |-> IF ip \in issued
              THEN [flights[ip] EXCEPT !.direct = @ + 1] ELSE flights[ip]]
        /\ stale' = (stale /\ ~(MayPing /\ BeginsIteration(q)))

Tick ==
    /\ pm.ticking /\ MayPing
    /\ pm' = Timed(pm) /\ Issues(pm) /\ UNCHANGED <<online, state>>

\* updateIps(): deferred unless the VPN is off; the manager after it, and what
\* it does besides.
Updated(p, ips) ==
    IF state = "disconnected" THEN Timed(ProcessLocationUpdate(p, ips))
    ELSE [p EXCEPT !.pending = ips]
UpdateIssues(p, ips) ==
    IF state = "disconnected" THEN Issues(ProcessLocationUpdate(p, ips))
    ELSE UNCHANGED <<flights, stale>>

UpdateIps(ips) ==
    pm' = Updated(pm, ips) /\ UpdateIssues(pm, ips) /\ UNCHANGED <<online, state>>

DelayPasses(ip) ==
    /\ ip \in DOMAIN pm.nodes /\ pm.nodes[ip].wait
    /\ pm' = [pm EXCEPT !.nodes[ip].wait = FALSE] /\ UNCHANGED <<flights, world>>

-----------------------------------------------------------------------------
(* Answers                                                                 *)

\* Mutant: the node of a discarded answer stays marked as being pinged.
SucceededKeepingBusy(p, ip, direct) ==
    IF direct
      THEN [SetPing(p, ip, "measured") EXCEPT !.nodes[ip] =
               [@ EXCEPT !.busy = FALSE, !.failed = FALSE, !.row = 0, !.wait = FALSE, !.current = TRUE]]
      ELSE [p EXCEPT !.nodes[ip] = [@ EXCEPT !.failed = FALSE, !.row = 0, !.wait = FALSE]]

\* A success through a tunnel is discarded.
Succeeded(p, ip, direct) ==
    LET node == [p.nodes[ip] EXCEPT !.busy = FALSE, !.failed = FALSE, !.row = 0, !.wait = FALSE]
    IN  IF direct
          THEN [SetPing(p, ip, "measured") EXCEPT !.nodes[ip] = [node EXCEPT !.current = TRUE]]
          ELSE [p EXCEPT !.nodes[ip] = node]

\* Mutant: a failure too many is waited for.
FailedLate(p, ip) ==
    LET n == p.nodes[ip]
        node == [n EXCEPT !.busy = FALSE, !.failed = TRUE, !.wait = TRUE]
    IN  IF n.row + 1 > MaxFailedInRow
          THEN [SetPing(p, ip, "failed") EXCEPT
                  !.nodes[ip] = [node EXCEPT !.row = 0, !.current = TRUE]]
          ELSE [p EXCEPT !.nodes[ip] = [node EXCEPT !.row = n.row + 1]]

\* The last of MaxFailedInRow failures in a row is the result, in whatever
\* state of the VPN it happened.
Failed(p, ip) ==
    LET n == p.nodes[ip]
        node == [n EXCEPT !.busy = FALSE, !.failed = TRUE, !.wait = TRUE]
    IN  IF n.row + 1 >= MaxFailedInRow
          THEN [SetPing(p, ip, "failed") EXCEPT
                  !.nodes[ip] = [node EXCEPT !.row = 0, !.current = TRUE]]
          ELSE [p EXCEPT !.nodes[ip] = [node EXCEPT !.row = n.row + 1]]

\* The answers that are a result, which pingInfoChanged() tells of: a direct
\* success, and the last of the failures in a row.
Informs(p, ip, success, direct) ==
    /\ ip \in DOMAIN p.nodes
    /\ IF success THEN direct ELSE p.nodes[ip].row + 1 >= MaxFailedInRow

\* onPingFinished(): the answer for an address that is gone is ignored.
OnPingFinished(p, ip, success, direct) ==
    CASE ip \notin DOMAIN p.nodes -> p
      [] ip \in DOMAIN p.nodes /\ success -> Succeeded(p, ip, direct)
      [] OTHER -> Failed(p, ip)

\* wsnet answers every ping; kind is whether the ping is known to be direct.
Landed(ip, kind) ==
    /\ flights[ip][kind] > 0
    /\ flights' = [flights EXCEPT ![ip][kind] = @ - 1]

Answer(ip, kind, success, direct) ==
    /\ Landed(ip, kind) /\ (kind = "direct" => direct)
    /\ pm' = OnPingFinished(pm, ip, success, direct)
    /\ UNCHANGED world
Answered(ip) ==
    \E kind \in {"direct", "unsure"}, success, direct \in BOOLEAN :
        Answer(ip, kind, success, direct)

-----------------------------------------------------------------------------
(* The surroundings                                                        *)

\* Pings that have not been executed when a tunnel comes up may go through it,
\* or may have been executed before.
StateChanges(s) ==
    /\ s # state /\ state' = s /\ UNCHANGED <<pm, online, stale>>
    /\ flights' = IF s = "disconnected" THEN flights
                  ELSE [ip \in Ips |-> [direct |-> 0, unsure |-> InFlight(ip)]]

OnlineChanges == online' = ~online /\ UNCHANGED <<pm, flights, stale, state>>

\* The period ends, or the network changes, or it changes back.
StalenessChanges == stale' = ~stale /\ UNCHANGED <<pm, flights, online, state>>

QuietStep ==
    \/ Tick \/ OnlineChanges \/ StalenessChanges
    \/ \E s \in ConnectState : StateChanges(s)
    \/ \E ip \in Ips : DelayPasses(ip)

\* The manager on its own: whatever list it is given, and whatever result is
\* stored for an address from outside.
PingNext ==
    \/ QuietStep
    \/ \E ip \in Ips : Answered(ip)
    \/ \E ips \in SUBSET Ips : UpdateIps(ips)
    \/ \E ip \in Ips, result \in Results :
         pm' = SetPing(pm, ip, result) /\ UNCHANGED <<flights, world>>

PingSpec == PingInit /\ [][PingNext]_<<pm, flights, world>>

-----------------------------------------------------------------------------
(* Safety                                                                  *)

\* Every pinged address has its entry in the storage, and a node that counts
\* as done in this iteration has an entry of this iteration there, with a
\* result or, where the locations model stored the entry, without one: the
\* code keeps both, and changes them in five places.
NodesAreStored ==
    /\ DOMAIN pm.nodes \subseteq DOMAIN pm.db
    /\ \A ip \in DOMAIN pm.nodes : pm.nodes[ip].current => pm.db[ip].current

\* The pinging of a listed address never stops for good: the timer runs, and a
\* node marked as being pinged, which the timer passes over, has a ping in
\* flight, however often lists and iterations have changed in between.
PingsGoOn ==
    \A ip \in DOMAIN pm.nodes : pm.ticking /\ (pm.nodes[ip].busy => InFlight(ip) > 0)
=============================================================================
