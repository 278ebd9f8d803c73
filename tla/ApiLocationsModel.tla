------------------------- MODULE ApiLocationsModel -------------------------
(***************************************************************************)
(* The model of the API's locations, as far as it feeds the ping manager:  *)
(* a new list of locations replaces the pinged addresses, and a city whose *)
(* address has no result is stored with that of its former address         *)
(* (src/client/engine/engine/locationsmodel/apilocationsmodel.cpp).        *)
(***************************************************************************)
EXTENDS PingManager, FiniteSetsExt

CONSTANTS
    Groups,     \* the cities of the lists, by their id
    Lists       \* the lists the API may answer

\* A list has the address of each of its cities, and the addresses that are
\* pinged: those of the cities with a ping host and a valid address, and those
\* of the static IPs.
ASSUME ListsAssumption ==
    /\ IsFiniteSet(Groups)
    /\ \A l \in Lists : /\ DOMAIN l.cities \subseteq Groups
                        /\ l.cities \in [DOMAIN l.cities -> Ips]
                        /\ l.pinged \subseteq Ips

VARIABLES
    locations,  \* locations_ and staticIps_
    answered,   \* history: the addresses whose entry of this iteration is an answer
    unlisted    \* history: those whose entry was stored while nobody pinged them

vars == <<pm, flights, world, locations, answered, unlisted>>

NoLocations == [cities |-> [g \in {} |-> g], pinged |-> {}]

\* What the locations model keeps of the pings.
LocationsType ==
    /\ locations \in Lists \cup {NoLocations}
    /\ answered \subseteq Ips /\ unlisted \subseteq Ips

\* The addresses with an entry of the current iteration.
Fresh(p) == {ip \in DOMAIN p.db : p.db[ip].current}

\* The entries that were saved are what the earlier run was answered.
Init ==
    /\ PingInit /\ locations = NoLocations
    /\ answered = Fresh(pm) /\ unlisted = {}

\* getPrevPing(): the result of the city's address in the former list.
PrevPing(p, former, g) ==
    IF g \in DOMAIN former.cities THEN GetPing(p, former.cities[g]) ELSE "none"

\* The loop of generateLocationsUpdated() over the cities of the new list, those
\* that are not pinged included: an address without a result is stored as of
\* this iteration, with the former address's result or with none.
CarryPings(p, former, l) ==
    FoldSet(LAMBDA g, q : IF GetPing(q, l.cities[g]) # "none" THEN q
                          ELSE SetPing(q, l.cities[g], PrevPing(q, former, g)),
            p, DOMAIN l.cities)
Stamped(p, l) == {l.cities[g] : g \in {h \in DOMAIN l.cities : GetPing(p, l.cities[h]) = "none"}}

\* What is known of the entries when the manager has become p, and then the
\* addresses ips have been stored.
Remembers(p, ips) ==
    /\ answered' = answered \cap Fresh(p)
    /\ unlisted' = (unlisted \cap Fresh(p)) \cup (ips \ DOMAIN pm'.nodes)

\* Mutant: the addresses are stored before the ping manager has the list.
SetLocationsStoringFirst(l) ==
    LET stored == CarryPings(pm, locations, l)
    IN  /\ l # locations /\ locations' = l
        /\ pm' = Updated(stored, l.pinged) /\ UpdateIssues(stored, l.pinged)
        /\ Remembers(pm', Stamped(pm, l))
        /\ UNCHANGED <<online, state>>

\* setLocations()
SetLocations(l) ==
    LET updated == Updated(pm, l.pinged)
    IN  /\ l # locations /\ locations' = l
        /\ pm' = CarryPings(updated, locations, l) /\ UpdateIssues(pm, l.pinged)
        /\ Remembers(updated, Stamped(updated, l))
        /\ UNCHANGED <<online, state>>

\* clear(), at a log-out: before the end of the session is published.
Clear == locations' = NoLocations /\ UpdateIps({}) /\ Remembers(pm', {})

\* An answer, which onPingInfoChanged() learns of when it is a result.
GetsAnswer(ip, kind, success, direct) ==
    /\ Answer(ip, kind, success, direct)
    /\ answered' = IF Informs(pm, ip, success, direct) THEN answered \cup {ip} ELSE answered
    /\ unlisted' = IF Informs(pm, ip, success, direct) THEN unlisted \ {ip} ELSE unlisted
    /\ UNCHANGED locations

Keeps(A) == A /\ Remembers(pm', {}) /\ UNCHANGED locations

-----------------------------------------------------------------------------
Next ==
    \/ Keeps(QuietStep)
    \/ \E ip \in Ips, kind \in {"direct", "unsure"}, success, direct \in BOOLEAN :
         GetsAnswer(ip, kind, success, direct)
    \/ Clear
    \/ \E l \in Lists : SetLocations(l)

Spec == Init /\ [][Next]_vars

-----------------------------------------------------------------------------
TypeInvariant == TypeOK /\ LocationsType

\* The timer passes over an address that counts as done in this iteration.  One
\* that was on the pinged list when the locations model stored an entry for it
\* counts only once it has answered: the list reaches the ping manager before
\* the entries are stored, and a node is never caught up by its entry.
PingedOnceListed ==
    pm.started => \A ip \in DOMAIN pm.nodes :
        pm.nodes[ip].current => ip \in answered \cup unlisted
=============================================================================
