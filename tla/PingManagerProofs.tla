-------------------------- MODULE PingManagerProofs --------------------------
(***************************************************************************)
(* The ping manager, for every set of addresses, whatever lists it is given *)
(* and whatever is stored for an address from outside: its two books agree, *)
(* and the pinging of a listed address never stops for good.  And together  *)
(* with the locations model, for every set of lists: what that stores for an *)
(* address the manager is pinging never makes it pass over the address.     *)
(***************************************************************************)
EXTENDS ApiLocationsModel, TLAPS, FiniteSetTheorems

\* The nodes agree with the storage, and there are none without the timer.
Sound(p) ==
    /\ PingManagerType(p)
    /\ DOMAIN p.nodes \subseteq DOMAIN p.db
    /\ \A ip \in DOMAIN p.nodes : p.nodes[ip].current => p.db[ip].current
    /\ DOMAIN p.nodes # {} => p.ticking

\* No node of q is marked as being pinged that was not so in p.
BusyFrom(p, q) ==
    \A ip \in DOMAIN q.nodes : q.nodes[ip].busy => ip \in DOMAIN p.nodes /\ p.nodes[ip].busy

\* The addresses that count as done in this iteration, or that would if they
\* were listed now; that q has none that p had not.
Credited(p) == {ip \in DOMAIN p.db :
    p.started /\ p.db[ip].current /\ (ip \in DOMAIN p.nodes => p.nodes[ip].current)}
CreditedFrom(p, q) == Credited(q) \subseteq Credited(p)

-----------------------------------------------------------------------------
(* Changes of the manager's record                                          *)

LEMMA NodesChange ==
    ASSUME NEW p, DOMAIN p = {"nodes", "db", "started", "pending", "ticking"}, NEW n
    PROVE  LET q == [p EXCEPT !.nodes = n]
           IN  /\ DOMAIN q = DOMAIN p /\ q.nodes = n /\ q.db = p.db /\ q.started = p.started
               /\ q.pending = p.pending /\ q.ticking = p.ticking
OBVIOUS

LEMMA DbChange ==
    ASSUME NEW p, DOMAIN p = {"nodes", "db", "started", "pending", "ticking"}, NEW d
    PROVE  LET q == [p EXCEPT !.db = d]
           IN  /\ DOMAIN q = DOMAIN p /\ q.nodes = p.nodes /\ q.db = d /\ q.started = p.started
               /\ q.pending = p.pending /\ q.ticking = p.ticking
OBVIOUS

LEMMA SetPingSound ==
    ASSUME NEW p, Sound(p), NEW ip \in Ips, NEW result \in Results
    PROVE  LET q == SetPing(p, ip, result)
           IN  /\ Sound(q) /\ q.nodes = p.nodes /\ q.ticking = p.ticking
               /\ DOMAIN q.db = DOMAIN p.db \cup {ip} /\ q.db[ip].current
               /\ \A i \in DOMAIN p.db : i # ip => q.db[i] = p.db[i]
               /\ q.started = p.started
<1> DEFINE d == [i \in DOMAIN p.db \cup {ip} |->
                   IF i = ip THEN [ping |-> result, current |-> TRUE] ELSE p.db[i]]
           q == [p EXCEPT !.db = d]
<1>0. SetPing(p, ip, result) = q
  BY DEF SetPing
<1>1. /\ DOMAIN p = {"nodes", "db", "started", "pending", "ticking"}
      /\ DOMAIN p.db \subseteq Ips /\ p.db \in [DOMAIN p.db -> Entries]
  BY DEF Sound, PingManagerType
<1>2. [ping |-> result, current |-> TRUE] \in Entries
  BY DEF Entries
<1>3. DOMAIN d = DOMAIN p.db \cup {ip} /\ d \in [DOMAIN d -> Entries] /\ DOMAIN d \subseteq Ips
  BY <1>1, <1>2
<1>4. /\ d[ip].current /\ \A i \in DOMAIN p.db : p.db[i].current => d[i].current
      /\ \A i \in DOMAIN p.db : i # ip => d[i] = p.db[i]
  OBVIOUS
<1> HIDE DEF d
<1>5. /\ DOMAIN q = DOMAIN p /\ q.nodes = p.nodes /\ q.db = d /\ q.started = p.started
      /\ q.pending = p.pending /\ q.ticking = p.ticking
  BY <1>1
<1> HIDE DEF q
<1>6. PingManagerType(q)
  BY <1>3, <1>5 DEF Sound, PingManagerType
<1>7. Sound(q)
  BY <1>3, <1>4, <1>5, <1>6 DEF Sound
<1> QED BY <1>0, <1>3, <1>4, <1>5, <1>7

LEMMA StoredTyped ==
    ASSUME NEW p, Sound(p), NEW ip
    PROVE  Stored(p, ip) \in Entries /\ (ip \in DOMAIN p.db => Stored(p, ip) = p.db[ip])
<1>1. p.db \in [DOMAIN p.db -> Entries] /\ p.started \in BOOLEAN
  BY DEF Sound, PingManagerType
<1>2. NoEntry(p) \in Entries
  BY <1>1 DEF NoEntry, Entries, Results
<1> QED BY <1>1, <1>2 DEF Stored

LEMMA FreshNodes ==
    ASSUME NEW e \in Entries
    PROVE  /\ NewNode(e) \in Nodes /\ NewNode(e).current = e.current /\ ~NewNode(e).busy
           /\ ResetNode \in Nodes /\ ~ResetNode.current /\ ~ResetNode.busy
BY PingAssumption DEF NewNode, ResetNode, Nodes, Entries

LEMMA LocationUpdateSound ==
    ASSUME NEW p, Sound(p), NEW ips \in SUBSET Ips
    PROVE  LET q == ProcessLocationUpdate(p, ips)
           IN  Sound(q) /\ BusyFrom(p, q) /\ CreditedFrom(p, q) /\ q.ticking
<1> DEFINE n == [ip \in ips |->
                   IF ip \in DOMAIN p.nodes THEN p.nodes[ip] ELSE NewNode(Stored(p, ip))]
           d == [ip \in {i \in ips : i \in DOMAIN p.db \/ i \notin DOMAIN p.nodes} |->
                   Stored(p, ip)]
           q == [p EXCEPT !.ticking = TRUE, !.nodes = n, !.db = d]
<1>0. ProcessLocationUpdate(p, ips) = q
  BY DEF ProcessLocationUpdate
<1>1. /\ DOMAIN p = {"nodes", "db", "started", "pending", "ticking"}
      /\ DOMAIN p.nodes \subseteq Ips /\ p.nodes \in [DOMAIN p.nodes -> Nodes]
      /\ DOMAIN p.nodes \subseteq DOMAIN p.db
      /\ \A ip \in DOMAIN p.nodes : p.nodes[ip].current => p.db[ip].current
  BY DEF Sound, PingManagerType
<1>2. \A ip : Stored(p, ip) \in Entries /\ (ip \in DOMAIN p.db => Stored(p, ip) = p.db[ip])
  BY StoredTyped
<1>3. \A ip : /\ NewNode(Stored(p, ip)) \in Nodes /\ ~NewNode(Stored(p, ip)).busy
              /\ NewNode(Stored(p, ip)).current = Stored(p, ip).current
  BY <1>2, FreshNodes
<1>4. DOMAIN n = ips /\ n \in [ips -> Nodes]
  BY <1>1, <1>3
<1>5. DOMAIN d = ips
  BY <1>1
<1>6. d \in [ips -> Entries] /\ \A ip \in ips : d[ip] = Stored(p, ip)
  BY <1>1, <1>2
<1>7. \A ip \in ips : n[ip].current => d[ip].current
  BY <1>1, <1>2, <1>3, <1>6
<1>8. \A ip \in ips : n[ip].busy => ip \in DOMAIN p.nodes /\ p.nodes[ip].busy
  BY <1>3
<1>a. ASSUME NEW ip \in ips, p.started, d[ip].current, n[ip].current
      PROVE  ip \in Credited(p)
  <2>1. CASE ip \in DOMAIN p.nodes
    BY <1>1, <1>a, <2>1 DEF Credited
  <2>2. CASE ip \notin DOMAIN p.nodes
    BY <1>6, <1>a, <2>2 DEF Stored, NoEntry, Credited
  <2> QED BY <2>1, <2>2
<1> HIDE DEF n, d
<1>9. /\ DOMAIN q = DOMAIN p /\ q.nodes = n /\ q.db = d /\ q.started = p.started
      /\ q.pending = p.pending /\ q.ticking = TRUE
  BY <1>1
<1> HIDE DEF q
<1>10. PingManagerType(q)
  BY <1>1, <1>4, <1>5, <1>6, <1>9 DEF Sound, PingManagerType
<1>11. Sound(q) /\ BusyFrom(p, q) /\ q.ticking
  BY <1>4, <1>5, <1>7, <1>8, <1>9, <1>10 DEF Sound, BusyFrom
<1>12. CreditedFrom(p, q)
  <2>1. ASSUME NEW ip \in Credited(q) PROVE ip \in Credited(p)
    BY <1>4, <1>5, <1>9, <1>a, <2>1 DEF Credited
  <2> QED BY <2>1 DEF CreditedFrom
<1> QED BY <1>0, <1>11, <1>12

LEMMA PendingSound ==
    ASSUME NEW p, Sound(p)
    PROVE  LET q == ApplyPending(p)
           IN  Sound(q) /\ BusyFrom(p, q) /\ CreditedFrom(p, q)
<1>1. CASE p.pending = {}
  BY <1>1 DEF ApplyPending, BusyFrom, CreditedFrom
<1>2. CASE p.pending # {}
  <2> DEFINE r == ProcessLocationUpdate(p, p.pending)
             q == [r EXCEPT !.pending = {}]
  <2>1. ApplyPending(p) = q
    BY <1>2 DEF ApplyPending
  <2>2. p.pending \in SUBSET Ips
    BY DEF Sound, PingManagerType
  <2>3. Sound(r) /\ BusyFrom(p, r) /\ CreditedFrom(p, r)
    BY <2>2, LocationUpdateSound
  <2> HIDE DEF r
  <2>4. DOMAIN r = {"nodes", "db", "started", "pending", "ticking"}
    BY <2>3 DEF Sound, PingManagerType
  <2>5. /\ DOMAIN q = DOMAIN r /\ q.nodes = r.nodes /\ q.db = r.db /\ q.started = r.started
        /\ q.pending = {} /\ q.ticking = r.ticking
    BY <2>4
  <2> HIDE DEF q
  <2>6. Sound(q) /\ BusyFrom(p, q)
    BY <2>3, <2>5 DEF Sound, PingManagerType, BusyFrom
  <2>7. CreditedFrom(p, q)
    BY <2>3, <2>5 DEF CreditedFrom, Credited
  <2> QED BY <2>1, <2>6, <2>7
<1> QED BY <1>1, <1>2

LEMMA BegunSound ==
    ASSUME NEW p, Sound(p)
    PROVE  Sound(Begun(p)) /\ BusyFrom(p, Begun(p)) /\ CreditedFrom(p, Begun(p))
<1>1. CASE ~BeginsIteration(p)
  BY <1>1 DEF Begun, BusyFrom, CreditedFrom
<1>2. CASE BeginsIteration(p)
  <2> DEFINE n == [ip \in DOMAIN p.nodes |-> ResetNode]
             d == [ip \in DOMAIN p.db |-> [p.db[ip] EXCEPT !.current = FALSE]]
             q == [p EXCEPT !.started = TRUE, !.nodes = n, !.db = d]
  <2>0. Begun(p) = q
    BY <1>2 DEF Begun, NewIteration
  <2>1. /\ DOMAIN p = {"nodes", "db", "started", "pending", "ticking"}
        /\ p.db \in [DOMAIN p.db -> Entries]
        /\ DOMAIN p.nodes \subseteq DOMAIN p.db
    BY DEF Sound, PingManagerType
  <2>2. ResetNode \in Nodes /\ ~ResetNode.current /\ ~ResetNode.busy
    BY PingAssumption DEF ResetNode, Nodes
  <2>3. DOMAIN n = DOMAIN p.nodes /\ n \in [DOMAIN n -> Nodes]
        /\ \A ip \in DOMAIN n : ~n[ip].current /\ ~n[ip].busy
    BY <2>2
  <2>4. \A ip \in DOMAIN p.db : [p.db[ip] EXCEPT !.current = FALSE] \in Entries
    BY <2>1 DEF Entries
  <2>5. /\ DOMAIN d = DOMAIN p.db /\ d \in [DOMAIN d -> Entries]
        /\ \A ip \in DOMAIN p.db : ~d[ip].current
    BY <2>1, <2>4 DEF Entries
  <2> HIDE DEF n, d
  <2>6. /\ DOMAIN q = DOMAIN p /\ q.nodes = n /\ q.db = d /\ q.started = TRUE
        /\ q.pending = p.pending /\ q.ticking = p.ticking
    BY <2>1
  <2> HIDE DEF q
  <2>7. Sound(q) /\ BusyFrom(p, q)
    BY <2>1, <2>3, <2>5, <2>6 DEF Sound, PingManagerType, BusyFrom
  <2>8. Credited(q) = {}
    BY <2>1, <2>3, <2>5, <2>6 DEF Credited
  <2> QED BY <2>0, <2>7, <2>8 DEF CreditedFrom
<1> QED BY <1>1, <1>2

\* The timer marks the nodes that are due, and no others.
LEMMA TimedSound ==
    ASSUME NEW p, Sound(p)
    PROVE  LET q == Begun(ApplyPending(p))
           IN  /\ Sound(Timed(p)) /\ CreditedFrom(p, Timed(p))
               /\ ~MayPing => Timed(p) = p
               /\ MayPing => \A ip \in DOMAIN Timed(p).nodes :
                     Timed(p).nodes[ip].busy =>
                       ip \in Due(q) \/ (ip \in DOMAIN p.nodes /\ p.nodes[ip].busy)
<1>1. CASE ~MayPing
  BY <1>1 DEF Timed, CreditedFrom
<1>2. CASE MayPing
  <2> DEFINE q == Begun(ApplyPending(p))
             n == [ip \in DOMAIN q.nodes |-> [q.nodes[ip] EXCEPT !.busy = @ \/ ip \in Due(q)]]
             t == [q EXCEPT !.nodes = n]
  <2>1. Timed(p) = t
    BY <1>2 DEF Timed
  <2>2. Sound(q) /\ BusyFrom(p, q) /\ CreditedFrom(p, q)
    <3>1. LET r == ApplyPending(p)
          IN  Sound(r) /\ BusyFrom(p, r) /\ CreditedFrom(p, r)
      BY PendingSound
    <3>2. Sound(q) /\ BusyFrom(ApplyPending(p), q) /\ CreditedFrom(ApplyPending(p), q)
      BY <3>1, BegunSound
    <3> QED BY <3>1, <3>2 DEF BusyFrom, CreditedFrom
  <2> HIDE DEF q
  <2>3. /\ DOMAIN q = {"nodes", "db", "started", "pending", "ticking"}
        /\ q.nodes \in [DOMAIN q.nodes -> Nodes]
    BY <2>2 DEF Sound, PingManagerType
  <2>4. ASSUME NEW ip \in DOMAIN q.nodes
        PROVE  /\ n[ip] \in Nodes /\ n[ip].current = q.nodes[ip].current
               /\ n[ip].busy => q.nodes[ip].busy \/ ip \in Due(q)
    <3>1. q.nodes[ip] \in Nodes
      BY <2>3
    <3>2. n[ip] = [q.nodes[ip] EXCEPT !.busy = q.nodes[ip].busy \/ ip \in Due(q)]
      OBVIOUS
    <3>3. (q.nodes[ip].busy \/ ip \in Due(q)) \in BOOLEAN
      OBVIOUS
    <3> HIDE DEF n
    <3> QED BY <3>1, <3>2, <3>3 DEF Nodes
  <2>5. DOMAIN n = DOMAIN q.nodes /\ n \in [DOMAIN n -> Nodes]
    BY <2>4
  <2> HIDE DEF n
  <2>6. /\ DOMAIN t = DOMAIN q /\ t.nodes = n /\ t.db = q.db /\ t.started = q.started
        /\ t.pending = q.pending /\ t.ticking = q.ticking
    BY <2>3
  <2> HIDE DEF t
  <2>7. Sound(t)
    BY <2>2, <2>4, <2>5, <2>6 DEF Sound, PingManagerType
  <2>8. \A ip \in DOMAIN t.nodes : t.nodes[ip].busy =>
          ip \in Due(q) \/ (ip \in DOMAIN p.nodes /\ p.nodes[ip].busy)
    BY <2>2, <2>4, <2>5, <2>6 DEF BusyFrom
  <2>9. CreditedFrom(p, t)
    BY <2>2, <2>4, <2>5, <2>6 DEF CreditedFrom, Credited
  <2> QED BY <1>2, <2>1, <2>7, <2>8, <2>9 DEF q
<1> QED BY <1>1, <1>2

LEMMA UpdatedSound ==
    ASSUME NEW p, Sound(p), NEW ips \in SUBSET Ips
    PROVE  Sound(Updated(p, ips)) /\ CreditedFrom(p, Updated(p, ips))
<1>1. CASE state = "disconnected"
  <2> DEFINE r == ProcessLocationUpdate(p, ips)
  <2>1. Sound(r) /\ CreditedFrom(p, r)
    BY LocationUpdateSound
  <2>2. Updated(p, ips) = Timed(r)
    BY <1>1 DEF Updated
  <2> HIDE DEF r
  <2>3. Sound(Timed(r)) /\ CreditedFrom(r, Timed(r))
    BY <2>1, TimedSound
  <2> QED BY <2>1, <2>2, <2>3 DEF CreditedFrom
<1>2. CASE state # "disconnected"
  <2> DEFINE q == [p EXCEPT !.pending = ips]
  <2>1. Updated(p, ips) = q
    BY <1>2 DEF Updated
  <2>2. /\ DOMAIN q = DOMAIN p /\ q.nodes = p.nodes /\ q.db = p.db
        /\ q.started = p.started /\ q.pending = ips /\ q.ticking = p.ticking
    BY DEF Sound, PingManagerType
  <2> HIDE DEF q
  <2> QED BY <2>1, <2>2 DEF Sound, PingManagerType, CreditedFrom, Credited
<1> QED BY <1>1, <1>2

\* One node changes: the books agree if it is not ahead of its entry.
LEMMA NodeSound ==
    ASSUME NEW p, Sound(p), NEW ip \in DOMAIN p.nodes, NEW node \in Nodes,
           node.current => p.db[ip].current
    PROVE  LET q == [p EXCEPT !.nodes[ip] = node]
           IN  /\ Sound(q) /\ DOMAIN q.nodes = DOMAIN p.nodes /\ q.nodes[ip] = node
               /\ q.db = p.db /\ q.started = p.started
               /\ \A i \in DOMAIN p.nodes : i # ip => q.nodes[i] = p.nodes[i]
<1> DEFINE n == [p.nodes EXCEPT ![ip] = node]
           q == [p EXCEPT !.nodes = n]
<1>1. /\ DOMAIN p = {"nodes", "db", "started", "pending", "ticking"}
      /\ p.nodes \in [DOMAIN p.nodes -> Nodes]
  BY DEF Sound, PingManagerType
<1>2. [p EXCEPT !.nodes[ip] = node] = q
  OBVIOUS
<1>3. /\ DOMAIN n = DOMAIN p.nodes /\ n \in [DOMAIN n -> Nodes] /\ n[ip] = node
      /\ \A i \in DOMAIN p.nodes : i # ip => n[i] = p.nodes[i]
  BY <1>1
<1> HIDE DEF n
<1>4. /\ DOMAIN q = DOMAIN p /\ q.nodes = n /\ q.db = p.db /\ q.started = p.started
      /\ q.pending = p.pending /\ q.ticking = p.ticking
  BY <1>1
<1> HIDE DEF q
<1>5. Sound(q)
  BY <1>3, <1>4 DEF Sound, PingManagerType
<1> QED BY <1>2, <1>3, <1>4, <1>5

\* The changes an answer makes to its node.
LEMMA NodeEdits ==
    ASSUME NEW n \in Nodes, NEW row \in 0 .. MaxFailedInRow - 1, NEW failed \in BOOLEAN
    PROVE  /\ n.row \in 0 .. MaxFailedInRow - 1
           /\ LET m == [n EXCEPT !.busy = FALSE, !.failed = failed, !.wait = failed]
              IN  m \in Nodes /\ ~m.busy /\ m.current = n.current /\ m.row = n.row
           /\ LET m == [n EXCEPT !.row = row]
              IN  m \in Nodes /\ m.busy = n.busy /\ m.current = n.current
           /\ LET m == [n EXCEPT !.row = row, !.current = TRUE]
              IN  m \in Nodes /\ m.busy = n.busy
           /\ LET m == [n EXCEPT !.busy = FALSE, !.failed = failed, !.row = row, !.wait = failed]
              IN  m \in Nodes /\ ~m.busy /\ m.current = n.current
<1> DEFINE Rows == 0 .. MaxFailedInRow - 1
           S == [current : BOOLEAN, failed : BOOLEAN, busy : BOOLEAN, row : Rows, wait : BOOLEAN]
<1>1. n \in S /\ row \in Rows /\ Nodes = S
  BY DEF Nodes
<1> HIDE DEF Rows
<1>2. n.row \in Rows
  BY <1>1
<1>3. LET m == [n EXCEPT !.busy = FALSE, !.failed = failed, !.wait = failed]
      IN  m \in S /\ ~m.busy /\ m.current = n.current /\ m.row = n.row
  BY <1>1
<1>4. LET m == [n EXCEPT !.row = row]
      IN  m \in S /\ m.busy = n.busy /\ m.current = n.current
  BY <1>1
<1>5. LET m == [n EXCEPT !.row = row, !.current = TRUE]
      IN  m \in S /\ m.busy = n.busy
  BY <1>1
<1>6. LET m == [n EXCEPT !.busy = FALSE, !.failed = failed, !.row = row, !.wait = failed]
      IN  m \in S /\ ~m.busy /\ m.current = n.current
  BY <1>1
<1> HIDE DEF S
<1> QED BY <1>1, <1>2, <1>3, <1>4, <1>5, <1>6 DEF Rows

\* An answer keeps the books, and leaves its node unmarked; if it is a result,
\* its address may be done.
Answering(p, q, ip, informs) ==
    /\ Sound(q) /\ BusyFrom(p, q) /\ (ip \in DOMAIN q.nodes => ~q.nodes[ip].busy)
    /\ Credited(q) \subseteq Credited(p) \cup (IF informs THEN {ip} ELSE {})

\* The node of ip becomes the given one, after r stored a result or r is p.
LEMMA NodeAnswered ==
    ASSUME NEW p, Sound(p), NEW ip \in DOMAIN p.nodes, NEW node \in Nodes, ~node.busy,
           NEW r, Sound(r), r.nodes = p.nodes, r.started = p.started,
           DOMAIN r.db = DOMAIN p.db, \A i \in DOMAIN p.db : i # ip => r.db[i] = p.db[i],
           node.current => r.db[ip].current,
           NEW informs \in BOOLEAN,
           ~informs => r = p /\ node.current = p.nodes[ip].current
    PROVE  Answering(p, [r EXCEPT !.nodes[ip] = node], ip, informs)
<1> DEFINE q == [r EXCEPT !.nodes[ip] = node]
<1>1. /\ Sound(q) /\ DOMAIN q.nodes = DOMAIN r.nodes /\ q.nodes[ip] = node
      /\ q.db = r.db /\ q.started = r.started
      /\ \A i \in DOMAIN r.nodes : i # ip => q.nodes[i] = r.nodes[i]
  BY NodeSound
<1> HIDE DEF q
<1>2. BusyFrom(p, q) /\ ~q.nodes[ip].busy
  BY <1>1 DEF BusyFrom
<1>3. ASSUME NEW i \in Credited(q) PROVE i \in Credited(p) \cup (IF informs THEN {ip} ELSE {})
  <2>1. CASE i # ip
    BY <1>1, <1>3, <2>1 DEF Credited
  <2>2. CASE i = ip /\ ~informs
    BY <1>1, <1>3, <2>2 DEF Credited
  <2>3. CASE i = ip /\ informs
    BY <2>3
  <2> QED BY <2>1, <2>2, <2>3
<1> QED BY <1>1, <1>2, <1>3 DEF Answering, q

LEMMA SucceededSound ==
    ASSUME NEW p, Sound(p), NEW ip \in DOMAIN p.nodes, NEW direct \in BOOLEAN
    PROVE  Answering(p, Succeeded(p, ip, direct), ip, direct)
<1> DEFINE node == [p.nodes[ip] EXCEPT !.busy = FALSE, !.failed = FALSE, !.row = 0, !.wait = FALSE]
           last == [node EXCEPT !.current = TRUE]
           r == SetPing(p, ip, "measured")
<1>1. p.nodes[ip] \in Nodes /\ ip \in Ips
  BY DEF Sound, PingManagerType
<1>2. node \in Nodes /\ ~node.busy /\ node.current = p.nodes[ip].current
  <2>1. 0 \in 0 .. MaxFailedInRow - 1
    BY PingAssumption
  <2> QED BY <1>1, <2>1, NodeEdits
<1> HIDE DEF node
<1>3. last \in Nodes /\ ~last.busy /\ last.current
  BY <1>2 DEF Nodes
<1> HIDE DEF last
<1>4. /\ Sound(r) /\ r.nodes = p.nodes /\ r.db[ip].current /\ r.started = p.started
      /\ DOMAIN r.db = DOMAIN p.db /\ \A i \in DOMAIN p.db : i # ip => r.db[i] = p.db[i]
  <2>1. "measured" \in Results /\ "failed" \in Results
    BY DEF Results
  <2>2. ip \in DOMAIN p.db
    BY DEF Sound
  <2>3. /\ Sound(r) /\ r.nodes = p.nodes /\ r.db[ip].current /\ r.started = p.started
        /\ DOMAIN r.db = DOMAIN p.db \cup {ip}
        /\ \A i \in DOMAIN p.db : i # ip => r.db[i] = p.db[i]
    BY <1>1, <2>1, SetPingSound
  <2> HIDE DEF r
  <2> QED BY <2>2, <2>3
<1> HIDE DEF r
<1>5. CASE direct
  <2>1. Succeeded(p, ip, direct) = [r EXCEPT !.nodes[ip] = last]
    BY <1>5 DEF Succeeded, node, last, r
  <2>2. Answering(p, [r EXCEPT !.nodes[ip] = last], ip, TRUE)
    BY <1>3, <1>4, NodeAnswered
  <2> QED BY <1>5, <2>1, <2>2
<1>6. CASE ~direct
  <2>1. Succeeded(p, ip, direct) = [p EXCEPT !.nodes[ip] = node]
    BY <1>6 DEF Succeeded, node
  <2>2. node.current => p.db[ip].current
    BY <1>2 DEF Sound
  <2> QED BY <1>2, <1>6, <2>1, <2>2, NodeAnswered
<1> QED BY <1>5, <1>6

LEMMA FailedSound ==
    ASSUME NEW p, Sound(p), NEW ip \in DOMAIN p.nodes
    PROVE  Answering(p, Failed(p, ip), ip, p.nodes[ip].row + 1 >= MaxFailedInRow)
<1> DEFINE row == p.nodes[ip].row
           node == [p.nodes[ip] EXCEPT !.busy = FALSE, !.failed = TRUE, !.wait = TRUE]
           last == [node EXCEPT !.row = 0, !.current = TRUE]
           next == [node EXCEPT !.row = row + 1]
           r == SetPing(p, ip, "failed")
<1>1. p.nodes[ip] \in Nodes /\ ip \in Ips
  BY DEF Sound, PingManagerType
<1>0. 0 \in 0 .. MaxFailedInRow - 1
  BY PingAssumption
<1>2. node \in Nodes /\ ~node.busy /\ node.current = p.nodes[ip].current
      /\ row \in 0 .. MaxFailedInRow - 1
  BY <1>0, <1>1, NodeEdits
<1> HIDE DEF node, row
<1>3. last \in Nodes /\ ~last.busy /\ last.current
  <2>1. last \in Nodes /\ ~last.busy
    BY <1>0, <1>2, NodeEdits
  <2>2. last.current
    BY <1>2 DEF Nodes
  <2> QED BY <2>1, <2>2
<1> HIDE DEF last
<1>4. /\ Sound(r) /\ r.nodes = p.nodes /\ r.db[ip].current /\ r.started = p.started
      /\ DOMAIN r.db = DOMAIN p.db /\ \A i \in DOMAIN p.db : i # ip => r.db[i] = p.db[i]
  <2>1. "measured" \in Results /\ "failed" \in Results
    BY DEF Results
  <2>2. ip \in DOMAIN p.db
    BY DEF Sound
  <2>3. /\ Sound(r) /\ r.nodes = p.nodes /\ r.db[ip].current /\ r.started = p.started
        /\ DOMAIN r.db = DOMAIN p.db \cup {ip}
        /\ \A i \in DOMAIN p.db : i # ip => r.db[i] = p.db[i]
    BY <1>1, <2>1, SetPingSound
  <2> HIDE DEF r
  <2> QED BY <2>2, <2>3
<1> HIDE DEF r
<1>5. CASE row + 1 >= MaxFailedInRow
  <2>1. Failed(p, ip) = [r EXCEPT !.nodes[ip] = last]
    BY <1>5 DEF Failed, node, last, r, row
  <2>2. Answering(p, [r EXCEPT !.nodes[ip] = last], ip, TRUE)
    BY <1>3, <1>4, NodeAnswered
  <2>3. (p.nodes[ip].row + 1 >= MaxFailedInRow) = TRUE
    BY <1>5 DEF row
  <2> QED BY <2>1, <2>2, <2>3
<1>6. CASE ~(row + 1 >= MaxFailedInRow)
  <2>1. Failed(p, ip) = [p EXCEPT !.nodes[ip] = next]
    BY <1>6 DEF Failed, node, row
  <2>2. next \in Nodes /\ ~next.busy /\ next.current = node.current
    <3>1. row + 1 \in 0 .. MaxFailedInRow - 1
      BY <1>2, <1>6, PingAssumption
    <3> QED BY <1>2, <3>1, NodeEdits
  <2>3. next.current => p.db[ip].current
    BY <1>2, <2>2 DEF Sound
  <2> HIDE DEF next
  <2>4. Answering(p, [p EXCEPT !.nodes[ip] = next], ip, FALSE)
    BY <1>2, <2>2, <2>3, NodeAnswered
  <2>5. (p.nodes[ip].row + 1 >= MaxFailedInRow) = FALSE
    BY <1>6 DEF row
  <2> QED BY <2>1, <2>4, <2>5
<1> QED BY <1>5, <1>6

-----------------------------------------------------------------------------
(* The invariant                                                            *)

World == stale \in BOOLEAN /\ online \in BOOLEAN /\ state \in ConnectState
Flying == flights \in FlightsType /\ \A ip \in Ips : InFlight(ip) <= MaxFlights
Marked == \A ip \in DOMAIN pm.nodes : pm.nodes[ip].busy => InFlight(ip) > 0
PInv == Sound(pm) /\ World /\ Flying /\ Marked

\* The pings the timer issues are those of the nodes that are due.
LEMMA IssuesCounted ==
    ASSUME NEW p, Sound(p), World, Flying, Issues(p)
    PROVE  /\ Flying' /\ stale' \in BOOLEAN
           /\ \A ip \in Ips : InFlight(ip)' >= InFlight(ip)
           /\ MayPing => \A ip \in Due(Begun(ApplyPending(p))) : ip \in Ips => InFlight(ip)' > 0
<1> DEFINE q == ApplyPending(p)
           issued == IF MayPing THEN Due(Begun(q)) ELSE {}
           one(ip) == [flights[ip] EXCEPT !.direct = @ + 1]
<1>1. /\ \A ip \in issued : InFlight(ip) < MaxFlights
      /\ flights' = [ip \in Ips |-> IF ip \in issued THEN one(ip) ELSE flights[ip]]
      /\ stale' \in BOOLEAN
  BY DEF Issues
<1> HIDE DEF issued
<1>2. ASSUME NEW ip \in Ips
      PROVE  /\ flights[ip].direct \in Nat /\ flights[ip].unsure \in Nat
             /\ InFlight(ip) = flights[ip].direct + flights[ip].unsure
             /\ one(ip).direct = flights[ip].direct + 1 /\ one(ip).unsure = flights[ip].unsure
             /\ InFlight(ip) <= MaxFlights
  BY DEF Flying, FlightsType, InFlight
<1>3. ASSUME NEW ip \in Ips, InFlight(ip) < MaxFlights
      PROVE  one(ip) \in [direct : 0 .. MaxFlights, unsure : 0 .. MaxFlights]
  BY <1>2, <1>3, PingAssumption DEF Flying, FlightsType
<1>4. flights' \in FlightsType
  BY <1>1, <1>3 DEF Flying, FlightsType
<1>5. ASSUME NEW ip \in Ips
      PROVE  /\ InFlight(ip)' <= MaxFlights /\ InFlight(ip)' >= InFlight(ip)
             /\ ip \in issued => InFlight(ip)' > 0
  <2>1. InFlight(ip)' = flights'[ip].direct + flights'[ip].unsure
    BY DEF InFlight
  <2>2. CASE ip \in issued
    <3>1. flights'[ip] = one(ip)
      BY <1>1, <2>2
    <3>2. flights'[ip].direct = flights[ip].direct + 1 /\ flights'[ip].unsure = flights[ip].unsure
      BY <1>2, <3>1
    <3>3. InFlight(ip) < MaxFlights /\ InFlight(ip)' = InFlight(ip) + 1 /\ InFlight(ip) \in Nat
      BY <1>1, <1>2, <2>1, <2>2, <3>2
    <3> QED BY <3>3, PingAssumption
  <2>3. CASE ip \notin issued
    <3>1. flights'[ip] = flights[ip]
      BY <1>1, <2>3
    <3> QED BY <1>2, <2>1, <2>3, <3>1
  <2> QED BY <2>2, <2>3
<1> QED BY <1>1, <1>4, <1>5 DEF Flying, issued

\* What the timer does keeps the invariant, from any list of the manager's and
\* whatever is stored right after it.
LEMMA TimerKeepsPInv ==
    ASSUME NEW p, Sound(p), PInv, BusyFrom(pm, p),
           Sound(pm'), pm'.nodes = Timed(p).nodes, Issues(p), UNCHANGED <<online, state>>
    PROVE  PInv'
<1>1. Flying' /\ World' /\ \A ip \in Ips : InFlight(ip)' >= InFlight(ip)
  BY IssuesCounted DEF PInv, World
<1>3. \A ip \in DOMAIN pm.nodes : pm.nodes[ip].busy => ip \in Ips /\ InFlight(ip) > 0
  BY DEF PInv, Marked, Sound, PingManagerType
<1>4. \A ip \in Ips : InFlight(ip) \in Nat /\ InFlight(ip)' \in Nat
  BY <1>1 DEF PInv, Flying, FlightsType, InFlight
<1>5. ASSUME NEW ip \in DOMAIN pm'.nodes, pm'.nodes[ip].busy
      PROVE  InFlight(ip)' > 0
  <2>0. ip \in Ips
    BY DEF Sound, PingManagerType
  <2>1. CASE ip \in DOMAIN p.nodes /\ p.nodes[ip].busy
    BY <1>1, <1>3, <1>4, <2>0, <2>1 DEF BusyFrom
  <2>2. CASE MayPing /\ ip \in Due(Begun(ApplyPending(p)))
    BY <2>0, <2>2, IssuesCounted DEF PInv
  <2> QED BY <1>5, <2>1, <2>2, TimedSound
<1> QED BY <1>1, <1>5 DEF PInv, Marked

\* So does a new list, whatever is stored right after it.
LEMMA UpdateKeepsPInv ==
    ASSUME PInv, NEW ips \in SUBSET Ips, Sound(pm'), pm'.nodes = Updated(pm, ips).nodes,
           UpdateIssues(pm, ips), UNCHANGED <<online, state>>
    PROVE  PInv'
<1>0. Sound(pm)
  BY DEF PInv
<1>1. CASE state = "disconnected"
  <2> DEFINE p == ProcessLocationUpdate(pm, ips)
  <2>1. Sound(p) /\ BusyFrom(pm, p)
    BY <1>0, LocationUpdateSound
  <2>2. pm'.nodes = Timed(p).nodes /\ Issues(p)
    BY <1>1 DEF Updated, UpdateIssues
  <2> HIDE DEF p
  <2> QED BY <2>1, <2>2, TimerKeepsPInv
<1>2. CASE state # "disconnected"
  <2>1. pm'.nodes = pm.nodes /\ UNCHANGED <<flights, stale>>
    <3>1. Updated(pm, ips) = [pm EXCEPT !.pending = ips]
      BY <1>2 DEF Updated
    <3>2. [pm EXCEPT !.pending = ips].nodes = pm.nodes
      BY <1>0 DEF Sound, PingManagerType
    <3> QED BY <1>2, <3>1, <3>2 DEF UpdateIssues
  <2> QED BY <2>1 DEF PInv, World, Flying, Marked, InFlight
<1> QED BY <1>1, <1>2

LEMMA AnswerKeepsPInv ==
    ASSUME PInv, NEW ip \in Ips, Answered(ip)
    PROVE  PInv'
<1>1. PICK kind \in {"direct", "unsure"}, success \in BOOLEAN, direct \in BOOLEAN :
        Answer(ip, kind, success, direct)
  BY DEF Answered
<1> DEFINE q == OnPingFinished(pm, ip, success, direct)
<1>2. /\ pm' = q /\ UNCHANGED world /\ flights[ip][kind] > 0
      /\ flights' = [flights EXCEPT ![ip][kind] = @ - 1]
  BY <1>1 DEF Answer, Landed
<1>3. Sound(q) /\ BusyFrom(pm, q) /\ (ip \in DOMAIN q.nodes => ~q.nodes[ip].busy)
  <2>1. CASE ip \notin DOMAIN pm.nodes
    BY <2>1 DEF OnPingFinished, PInv, BusyFrom
  <2>2. CASE ip \in DOMAIN pm.nodes /\ success
    <3>1. q = Succeeded(pm, ip, direct)
      BY <2>2 DEF OnPingFinished
    <3>2. Answering(pm, Succeeded(pm, ip, direct), ip, direct)
      BY <2>2, SucceededSound DEF PInv
    <3> QED BY <3>1, <3>2 DEF Answering
  <2>3. CASE ip \in DOMAIN pm.nodes /\ ~success
    <3>1. q = Failed(pm, ip)
      BY <2>3 DEF OnPingFinished
    <3> QED BY <2>3, <3>1, FailedSound DEF PInv, Answering
  <2> QED BY <2>1, <2>2, <2>3
<1> HIDE DEF q
<1>4. flights \in FlightsType /\ flights[ip][kind] \in 1 .. MaxFlights
  BY <1>1, <1>2, PingAssumption DEF PInv, Flying, FlightsType
<1>5. flights' \in FlightsType /\ \A i \in Ips : i # ip => flights'[i] = flights[i]
  <2>1. flights[ip][kind] - 1 \in 0 .. MaxFlights
    BY <1>4, PingAssumption
  <2> QED BY <1>1, <1>2, <1>4, <2>1 DEF FlightsType
<1>6. InFlight(ip)' <= MaxFlights
  <2>1. /\ flights[ip].direct \in Nat /\ flights[ip].unsure \in Nat
        /\ flights[ip].direct + flights[ip].unsure <= MaxFlights
    BY DEF PInv, Flying, FlightsType, InFlight
  <2>2. \/ /\ flights'[ip].direct = flights[ip].direct - 1
           /\ flights'[ip].unsure = flights[ip].unsure
        \/ /\ flights'[ip].unsure = flights[ip].unsure - 1
           /\ flights'[ip].direct = flights[ip].direct
    BY <1>1, <1>2, <1>4 DEF FlightsType
  <2> QED BY <2>1, <2>2, PingAssumption DEF InFlight
<1>7. Flying'
  BY <1>5, <1>6 DEF PInv, Flying, InFlight
<1>8. Marked'
  BY <1>2, <1>3, <1>5 DEF PInv, Marked, BusyFrom, InFlight, Sound, PingManagerType
<1> QED BY <1>2, <1>3, <1>7, <1>8 DEF PInv, World, world

LEMMA StepKeepsPInv == PInv /\ [PingNext]_<<pm, flights, world>> => PInv'
<1> SUFFICES ASSUME PInv, [PingNext]_<<pm, flights, world>> PROVE PInv'
  OBVIOUS
<1>0. Sound(pm) /\ BusyFrom(pm, pm)
  BY DEF PInv, BusyFrom
\* The surroundings see the same pings in flight.
<1>a. ASSUME Sound(pm'), BusyFrom(pm, pm'), World', UNCHANGED flights PROVE PInv'
  BY <1>a DEF PInv, Flying, Marked, BusyFrom, InFlight
<1>1. CASE Tick
  <2>1. pm' = Timed(pm) /\ Issues(pm) /\ UNCHANGED <<online, state>>
    BY <1>1 DEF Tick
  <2> QED BY <1>0, <2>1, TimerKeepsPInv, TimedSound
<1>2. ASSUME NEW ips \in SUBSET Ips, UpdateIps(ips) PROVE PInv'
  <2>1. /\ pm' = Updated(pm, ips) /\ UpdateIssues(pm, ips)
        /\ UNCHANGED <<online, state>>
    BY <1>2 DEF UpdateIps
  <2>2. Sound(pm')
    BY <1>0, <2>1, UpdatedSound
  <2> QED BY <2>1, <2>2, UpdateKeepsPInv
<1>3. ASSUME NEW ip \in Ips, NEW result \in Results, pm' = SetPing(pm, ip, result),
             UNCHANGED <<flights, world>>
      PROVE  PInv'
  <2>1. Sound(pm') /\ pm'.nodes = pm.nodes
    BY <1>0, <1>3, SetPingSound
  <2> QED BY <1>0, <1>3, <1>a, <2>1 DEF BusyFrom, PInv, World, world
<1>4. ASSUME NEW ip \in Ips, DelayPasses(ip) PROVE PInv'
  <2> DEFINE node == [pm.nodes[ip] EXCEPT !.wait = FALSE]
  <2>1. ip \in DOMAIN pm.nodes /\ pm' = [pm EXCEPT !.nodes[ip] = node]
    BY <1>0, <1>4 DEF DelayPasses, Sound, PingManagerType
  <2>2. pm.nodes[ip] \in Nodes /\ (pm.nodes[ip].current => pm.db[ip].current)
    BY <1>0, <2>1 DEF Sound, PingManagerType
  <2>3. node \in Nodes /\ node.busy = pm.nodes[ip].busy /\ node.current = pm.nodes[ip].current
    BY <2>2 DEF Nodes
  <2> HIDE DEF node
  <2>4. Sound(pm') /\ BusyFrom(pm, pm')
    BY <1>0, <2>1, <2>2, <2>3, NodeSound DEF BusyFrom
  <2> QED BY <1>4, <1>a, <2>4 DEF DelayPasses, PInv, World, world
<1>5. ASSUME NEW s \in ConnectState, StateChanges(s) PROVE PInv'
  <2>1. pm' = pm /\ World'
    BY <1>5 DEF StateChanges, PInv, World
  <2>2. CASE s = "disconnected"
    BY <1>0, <1>5, <1>a, <2>1, <2>2 DEF StateChanges
  <2>3. CASE s # "disconnected"
    <3>1. flights' = [ip \in Ips |-> [direct |-> 0, unsure |-> InFlight(ip)]]
      BY <1>5, <2>3 DEF StateChanges
    <3>2. \A ip \in Ips : InFlight(ip) \in Nat /\ InFlight(ip) <= MaxFlights
      BY DEF PInv, Flying, FlightsType, InFlight
    <3>3. \A ip \in Ips : InFlight(ip)' = InFlight(ip)
      BY <3>1, <3>2 DEF InFlight
    <3>4. \A ip \in Ips : InFlight(ip) \in 0 .. MaxFlights
      BY <3>2, PingAssumption
    <3>5. flights' \in FlightsType
      BY <3>1, <3>4, PingAssumption DEF FlightsType
    <3> QED BY <1>0, <2>1, <3>2, <3>3, <3>5 DEF PInv, Flying, Marked, Sound, PingManagerType
  <2> QED BY <2>2, <2>3
<1>6. CASE OnlineChanges \/ StalenessChanges
  BY <1>0, <1>6, <1>a DEF OnlineChanges, StalenessChanges, PInv, World
<1>7. ASSUME NEW ip \in Ips, Answered(ip) PROVE PInv'
  BY <1>7, AnswerKeepsPInv
<1>8. CASE UNCHANGED <<pm, flights, world>>
  BY <1>0, <1>8, <1>a DEF PInv, World, world
<1> QED BY <1>1, <1>2, <1>3, <1>4, <1>5, <1>6, <1>7, <1>8 DEF PingNext, QuietStep

LEMMA PingStarts == PingInit => PInv
<1> SUFFICES ASSUME PingInit PROVE PInv
  OBVIOUS
<1>1. PICK saved \in SUBSET Ips, s \in BOOLEAN : \E d \in [saved -> Entries] :
        pm = [nodes |-> [ip \in {} |-> ip], db |-> d, started |-> s,
              pending |-> {}, ticking |-> FALSE]
  BY DEF PingInit
<1>2. PICK d \in [saved -> Entries] :
        pm = [nodes |-> [ip \in {} |-> ip], db |-> d, started |-> s,
              pending |-> {}, ticking |-> FALSE]
  BY <1>1
<1>3. /\ DOMAIN pm = {"nodes", "db", "started", "pending", "ticking"}
      /\ pm.db = d /\ pm.started = s /\ pm.pending = {} /\ pm.ticking = FALSE
      /\ pm.nodes = [ip \in {} |-> ip]
  BY <1>2
<1>4. DOMAIN pm.nodes = {} /\ pm.nodes \in [DOMAIN pm.nodes -> Nodes]
  BY <1>3
<1>5. Sound(pm)
  BY <1>3, <1>4 DEF Sound, PingManagerType
<1>6. flights = [ip \in Ips |-> [direct |-> 0, unsure |-> 0]]
  BY DEF PingInit
<1>7. Flying
  <2>1. \A ip \in Ips : InFlight(ip) = 0
    BY <1>6 DEF InFlight
  <2> QED BY <1>6, <2>1, PingAssumption DEF Flying, FlightsType
<1>8. World
  BY DEF PingInit, World, ConnectState
<1> QED BY <1>4, <1>5, <1>7, <1>8 DEF PInv, Marked

\* The manager, its storage and the pings in flight keep their types.
THEOREM PingTyped == PingSpec => []TypeOK
<1>1. PInv => TypeOK
  BY DEF PInv, Sound, World, Flying, TypeOK
<1> QED BY <1>1, PingStarts, StepKeepsPInv, PTL DEF PingSpec

\* Every pinged address has its entry, and a node that counts as done has a
\* result of this iteration, whatever lists and answers came in between.
THEOREM BooksAgree == PingSpec => []NodesAreStored
<1>1. PInv => NodesAreStored
  BY DEF PInv, Sound, NodesAreStored
<1> QED BY <1>1, PingStarts, StepKeepsPInv, PTL DEF PingSpec

\* The pinging of a listed address never stops for good.
THEOREM PingingGoesOn == PingSpec => []PingsGoOn
<1>1. PInv => PingsGoOn
  BY DEF PInv, Sound, Marked, PingsGoOn
<1> QED BY <1>1, PingStarts, StepKeepsPInv, PTL DEF PingSpec

-----------------------------------------------------------------------------
(* The loop over the cities, by induction on their number                   *)

\* The order of the natural numbers, as a relation.
Below == {mn \in Nat \X Nat : mn[1] < mn[2]}

LEMMA LeastNatural ==
    ASSUME NEW T, T \subseteq Nat, T # {}
    PROVE  \E n \in T : \A m \in T : n <= m
<1>1. IsWellFoundedOn(Below, Nat)
  BY NatLessThanWellFounded DEF OpToRel, Below
<1>2. PICK n \in T : \A m \in T : <<m, n>> \notin Below
  BY <1>1, WFMin
<1>3. ASSUME NEW m \in T, m < n PROVE FALSE
  BY <1>2, <1>3 DEF Below
<1> QED BY <1>2, <1>3

\* A set of numbers that holds 0 and the successor of each holds them all.
LEMMA InductionOnNumbers ==
    ASSUME NEW T, 0 \in T, \A n \in Nat : n \in T => n + 1 \in T
    PROVE  Nat \subseteq T
<1> SUFFICES ASSUME Nat \ T # {} PROVE FALSE
  OBVIOUS
<1>1. PICK n \in Nat \ T : \A m \in Nat \ T : n <= m
  BY LeastNatural
<1>2. n - 1 \in Nat /\ n - 1 \notin Nat \ T
  BY <1>1
<1> QED BY <1>1, <1>2

\* What CarryPings does with one city, the last of the cities s, and the
\* manager it makes of p along the way.
CarryPing(q, former, l, g) ==
    IF GetPing(q, l.cities[g]) # "none" THEN q
    ELSE SetPing(q, l.cities[g], PrevPing(q, former, g))
Last(s) == CHOOSE g \in s : TRUE
Carrying(p, former, l, D, f) ==
    f = [s \in D |-> IF s = {} THEN p ELSE CarryPing(f[s \ {Last(s)}], former, l, Last(s))]

\* The sets of at most n of the cities of l.
Few(l, n) == {s \in SUBSET DOMAIN l.cities : Cardinality(s) <= n}

LEMMA FewMore ==
    ASSUME NEW l, IsFiniteSet(DOMAIN l.cities), NEW n \in Nat
    PROVE  /\ Few(l, 0) = {{}} /\ Few(l, n) \subseteq Few(l, n + 1) /\ {} \in Few(l, n)
           /\ Few(l, Cardinality(DOMAIN l.cities)) = SUBSET DOMAIN l.cities
           /\ Cardinality(DOMAIN l.cities) \in Nat
           /\ \A s \in Few(l, n + 1) : s # {} => Last(s) \in s /\ s \ {Last(s)} \in Few(l, n)
<1>1. /\ Cardinality({}) = 0 /\ Cardinality(DOMAIN l.cities) \in Nat
      /\ \A s \in SUBSET DOMAIN l.cities :
           /\ IsFiniteSet(s) /\ Cardinality(s) \in Nat
           /\ Cardinality(s) <= Cardinality(DOMAIN l.cities)
           /\ Cardinality(s) = 0 => s = {}
  BY FS_Subset, FS_CardinalityType, FS_EmptySet
<1>2. ASSUME NEW s \in Few(l, n + 1), s # {}
      PROVE  Last(s) \in s /\ s \ {Last(s)} \in Few(l, n)
  <2>1. Last(s) \in s
    BY <1>2 DEF Last
  <2>2. Cardinality(s \ {Last(s)}) = Cardinality(s) - 1
    BY <1>1, <2>1, FS_RemoveElement DEF Few
  <2> QED BY <1>1, <2>1, <2>2 DEF Few
<1> QED BY <1>1, <1>2 DEF Few

LEMMA CarriesCityByCity ==
    ASSUME NEW p, NEW former, NEW l, IsFiniteSet(DOMAIN l.cities)
    PROVE  \E f : /\ Carrying(p, former, l, SUBSET DOMAIN l.cities, f)
                  /\ CarryPings(p, former, l) = f[DOMAIN l.cities]
<1> DEFINE T == {n \in Nat : \E f : Carrying(p, former, l, Few(l, n), f)}
<1>1. 0 \in T
  <2>1. Carrying(p, former, l, {{}}, [s \in {{}} |-> p])
    BY DEF Carrying
  <2>2. Few(l, 0) = {{}}
    BY FewMore
  <2>3. \E f : Carrying(p, former, l, Few(l, 0), f)
    BY <2>1, <2>2, Zenon
  <2> QED BY <2>3
<1>2. ASSUME NEW n \in Nat, n \in T PROVE n + 1 \in T
  <2>1. PICK f : Carrying(p, former, l, Few(l, n), f)
    BY <1>2
  <2> DEFINE g == [s \in Few(l, n + 1) |->
                     IF s = {} THEN p ELSE CarryPing(f[s \ {Last(s)}], former, l, Last(s))]
  <2>2. \A s \in Few(l, n) : g[s] = f[s]
    BY <2>1, FewMore DEF Carrying
  <2>3. \A s \in Few(l, n + 1) : s # {} => g[s \ {Last(s)}] = f[s \ {Last(s)}]
    BY <2>2, FewMore
  <2>4. g = [s \in Few(l, n + 1) |->
               IF s = {} THEN p ELSE CarryPing(g[s \ {Last(s)}], former, l, Last(s))]
    BY <2>3
  <2> HIDE DEF g
  <2>5. Carrying(p, former, l, Few(l, n + 1), g)
    BY <2>4 DEF Carrying
  <2> QED BY <2>5
<1>3. Cardinality(DOMAIN l.cities) \in T
  <2> HIDE DEF T
  <2> QED BY <1>1, <1>2, InductionOnNumbers, FewMore
<1>4. \E f : Carrying(p, former, l, SUBSET DOMAIN l.cities, f)
  <2>1. \E f : Carrying(p, former, l, Few(l, Cardinality(DOMAIN l.cities)), f)
    BY <1>3
  <2>2. Few(l, Cardinality(DOMAIN l.cities)) = SUBSET DOMAIN l.cities
    BY FewMore
  <2> QED BY <2>1, <2>2
<1> DEFINE it == CHOOSE f : Carrying(p, former, l, SUBSET DOMAIN l.cities, f)
<1>5. Carrying(p, former, l, SUBSET DOMAIN l.cities, it)
  BY <1>4
<1>6. CarryPings(p, former, l) = it[DOMAIN l.cities]
  BY DEF CarryPings, FoldSet, MapThenFoldSet, Carrying, CarryPing, Last
<1> HIDE DEF it
<1> QED BY <1>5, <1>6

\* What the loop makes of p: it stores results for addresses without one, and
\* changes nothing else.
CarriedOver(p, q, l) ==
    /\ Sound(q) /\ q.nodes = p.nodes /\ q.started = p.started
    /\ DOMAIN p.db \subseteq DOMAIN q.db
    /\ \A ip \in DOMAIN q.db \ Stamped(p, l) : ip \in DOMAIN p.db /\ q.db[ip] = p.db[ip]

LEMMA CarryPingSound ==
    ASSUME NEW p, NEW q, NEW former, NEW l, l.cities \in [DOMAIN l.cities -> Ips], NEW g \in DOMAIN l.cities,
           CarriedOver(p, q, l)
    PROVE  CarriedOver(p, CarryPing(q, former, l, g), l)
<1> DEFINE ip == l.cities[g]
           r == SetPing(q, ip, PrevPing(q, former, g))
<1>1. CASE GetPing(q, ip) # "none"
  BY <1>1 DEF CarryPing
<1>2. CASE GetPing(q, ip) = "none"
  <2>1. ip \in Ips /\ Sound(q)
    BY DEF CarriedOver
  <2>2. PrevPing(q, former, g) \in Results
    <3>1. GetPing(q, former.cities[g]) \in Results
      BY <2>1, StoredTyped DEF GetPing, Entries
    <3> QED BY <3>1 DEF PrevPing, Results
  <2>3. ip \in Stamped(p, l)
    <3>1. GetPing(p, ip) = "none" => ip \in Stamped(p, l)
      BY DEF Stamped
    <3>2. GetPing(p, ip) = "none"
      BY <1>2, <3>1, <2>1 DEF GetPing, Stored, NoEntry, CarriedOver, Stamped
    <3> QED BY <3>1, <3>2
  <2>4. /\ Sound(r) /\ r.nodes = q.nodes /\ r.started = q.started
        /\ DOMAIN r.db = DOMAIN q.db \cup {ip}
        /\ \A i \in DOMAIN q.db : i # ip => r.db[i] = q.db[i]
    BY <2>1, <2>2, SetPingSound
  <2>5. CarryPing(q, former, l, g) = r
    BY <1>2 DEF CarryPing
  <2> HIDE DEF r, ip
  <2> QED BY <2>3, <2>4, <2>5 DEF CarriedOver
<1> QED BY <1>1, <1>2

LEMMA CarryPingsSound ==
    ASSUME NEW p, Sound(p), NEW former, NEW l, l.cities \in [DOMAIN l.cities -> Ips], IsFiniteSet(DOMAIN l.cities)
    PROVE  CarriedOver(p, CarryPings(p, former, l), l)
<1>1. PICK f : /\ Carrying(p, former, l, SUBSET DOMAIN l.cities, f)
               /\ CarryPings(p, former, l) = f[DOMAIN l.cities]
  BY CarriesCityByCity
<1> DEFINE T == {n \in Nat : \A s \in Few(l, n) : CarriedOver(p, f[s], l)}
<1>2. CarriedOver(p, p, l)
  BY DEF CarriedOver
<1>3. ASSUME NEW s \in SUBSET DOMAIN l.cities
      PROVE  f[s] = IF s = {} THEN p ELSE CarryPing(f[s \ {Last(s)}], former, l, Last(s))
  BY <1>1 DEF Carrying
<1>4. 0 \in T
  <2>1. Few(l, 0) = {{}} /\ f[{}] = p
    BY <1>3, FewMore
  <2> QED BY <1>2, <2>1
<1>5. ASSUME NEW n \in Nat, n \in T PROVE n + 1 \in T
  <2>1. ASSUME NEW s \in Few(l, n + 1) PROVE CarriedOver(p, f[s], l)
    <3>1. s \in SUBSET DOMAIN l.cities
      BY DEF Few
    <3>2. CASE s = {}
      BY <1>2, <1>3, <3>1, <3>2
    <3>3. CASE s # {}
      <4>1. Last(s) \in DOMAIN l.cities /\ s \ {Last(s)} \in Few(l, n)
        BY <3>1, <3>3, FewMore
      <4>2. CarriedOver(p, f[s \ {Last(s)}], l)
        BY <1>5, <4>1
      <4>3. f[s] = CarryPing(f[s \ {Last(s)}], former, l, Last(s))
        BY <1>3, <3>1, <3>3
      <4> QED BY <4>1, <4>2, <4>3, CarryPingSound
    <3> QED BY <3>2, <3>3
  <2> QED BY <2>1
<1>6. Cardinality(DOMAIN l.cities) \in T
  <2> HIDE DEF T
  <2> QED BY <1>4, <1>5, InductionOnNumbers, FewMore
<1>7. Few(l, Cardinality(DOMAIN l.cities)) = SUBSET DOMAIN l.cities
  BY FewMore
<1> QED BY <1>1, <1>6, <1>7

-----------------------------------------------------------------------------
(* The ping manager and the locations model                                 *)

\* What is done in this iteration was answered in it, or stored while the
\* address was not pinged.
LInv == PInv /\ LocationsType /\ Credited(pm) \subseteq answered \cup unlisted

\* The addresses that are done are remembered as long as they are.
LEMMA CreditIsRemembered ==
    ASSUME NEW p, Sound(p), NEW ips \in SUBSET Ips, LocationsType, Remembers(p, ips),
           Credited(p) \subseteq answered \cup unlisted
    PROVE  /\ answered' \subseteq Ips /\ unlisted' \subseteq Ips
           /\ Credited(p) \cup (ips \ DOMAIN pm'.nodes) \subseteq answered' \cup unlisted'
BY DEF Remembers, Credited, Fresh, LocationsType, Sound, PingManagerType

\* Without an answer, no address of the ping manager's gets done.
LEMMA QuietCredited ==
    ASSUME PInv, QuietStep
    PROVE  CreditedFrom(pm, pm')
<1>0. Sound(pm) /\ CreditedFrom(pm, pm)
  BY DEF PInv, CreditedFrom
<1>1. CASE Tick
  BY <1>0, <1>1, TimedSound DEF Tick
<1>2. CASE OnlineChanges \/ StalenessChanges \/ \E s \in ConnectState : StateChanges(s)
  BY <1>0, <1>2 DEF OnlineChanges, StalenessChanges, StateChanges
<1>3. ASSUME NEW ip \in Ips, DelayPasses(ip) PROVE CreditedFrom(pm, pm')
  <2> DEFINE node == [pm.nodes[ip] EXCEPT !.wait = FALSE]
  <2>1. ip \in DOMAIN pm.nodes /\ pm' = [pm EXCEPT !.nodes[ip] = node]
    BY <1>0, <1>3 DEF DelayPasses, Sound, PingManagerType
  <2>2. pm.nodes[ip] \in Nodes /\ (pm.nodes[ip].current => pm.db[ip].current)
    BY <1>0, <2>1 DEF Sound, PingManagerType
  <2>3. node \in Nodes /\ node.current = pm.nodes[ip].current
    BY <2>2 DEF Nodes
  <2> HIDE DEF node
  <2>4. /\ DOMAIN pm'.nodes = DOMAIN pm.nodes /\ pm'.nodes[ip] = node
        /\ pm'.db = pm.db /\ pm'.started = pm.started
        /\ \A i \in DOMAIN pm.nodes : i # ip => pm'.nodes[i] = pm.nodes[i]
    BY <1>0, <2>1, <2>2, <2>3, NodeSound
  <2>5. ASSUME NEW i \in Credited(pm') PROVE i \in Credited(pm)
    BY <2>3, <2>4, <2>5 DEF Credited
  <2> QED BY <2>5 DEF CreditedFrom
<1> QED BY <1>1, <1>2, <1>3 DEF QuietStep

\* An answer gets its own address done, and only if it is a result.
LEMMA AnswerCredited ==
    ASSUME PInv, NEW ip \in Ips, NEW success \in BOOLEAN, NEW direct \in BOOLEAN,
           pm' = OnPingFinished(pm, ip, success, direct)
    PROVE  Credited(pm') \subseteq
             Credited(pm) \cup (IF Informs(pm, ip, success, direct) THEN {ip} ELSE {})
<1>0. Sound(pm)
  BY DEF PInv
<1>1. CASE ip \notin DOMAIN pm.nodes
  BY <1>1 DEF OnPingFinished
<1>2. CASE ip \in DOMAIN pm.nodes /\ success
  <2>1. pm' = Succeeded(pm, ip, direct) /\ (Informs(pm, ip, success, direct) <=> direct)
    BY <1>2 DEF OnPingFinished, Informs
  <2> QED BY <1>0, <1>2, <2>1, SucceededSound DEF Answering
<1>3. CASE ip \in DOMAIN pm.nodes /\ ~success
  <2>1. /\ pm' = Failed(pm, ip)
        /\ Informs(pm, ip, success, direct) <=> pm.nodes[ip].row + 1 >= MaxFailedInRow
    BY <1>3 DEF OnPingFinished, Informs
  <2> QED BY <1>0, <1>3, <2>1, FailedSound DEF Answering
<1> QED BY <1>1, <1>2, <1>3

LEMMA StepKeepsLInv == LInv /\ [Next]_vars => LInv'
<1> SUFFICES ASSUME LInv, [Next]_vars PROVE LInv'
  OBVIOUS
<1>0. /\ PInv /\ Sound(pm) /\ Credited(pm) \subseteq answered \cup unlisted
      /\ LocationsType /\ locations \in Lists \cup {NoLocations}
  BY DEF LInv, PInv, LocationsType
<1>1. CASE Keeps(QuietStep)
  <2>1. QuietStep /\ UNCHANGED locations /\ Remembers(pm', {})
    BY <1>1 DEF Keeps
  <2>2. PInv' /\ Sound(pm')
    BY <1>0, <2>1, StepKeepsPInv DEF PingNext, PInv
  <2>3. Credited(pm') \subseteq answered \cup unlisted
    BY <1>0, <2>1, QuietCredited DEF CreditedFrom
  <2>4. /\ answered' \subseteq Ips /\ unlisted' \subseteq Ips
        /\ Credited(pm') \subseteq answered' \cup unlisted'
    BY <1>0, <2>1, <2>2, <2>3, CreditIsRemembered
  <2> QED BY <1>0, <2>1, <2>2, <2>4 DEF LInv, LocationsType
<1>2. ASSUME NEW ip \in Ips, NEW kind \in {"direct", "unsure"}, NEW success \in BOOLEAN,
             NEW direct \in BOOLEAN, GetsAnswer(ip, kind, success, direct)
      PROVE  LInv'
  <2>1. /\ Answer(ip, kind, success, direct) /\ UNCHANGED locations
        /\ answered' = IF Informs(pm, ip, success, direct) THEN answered \cup {ip} ELSE answered
        /\ unlisted' = IF Informs(pm, ip, success, direct) THEN unlisted \ {ip} ELSE unlisted
    BY <1>2 DEF GetsAnswer
  <2>2. PInv'
    BY <1>0, <2>1, AnswerKeepsPInv DEF Answered
  <2>3. Credited(pm') \subseteq
          Credited(pm) \cup (IF Informs(pm, ip, success, direct) THEN {ip} ELSE {})
    BY <1>0, <2>1, AnswerCredited DEF Answer
  <2>4. Credited(pm') \subseteq answered' \cup unlisted'
    BY <1>0, <2>1, <2>3
  <2> QED BY <1>0, <2>1, <2>2, <2>4 DEF LInv, LocationsType
<1>3. CASE Clear
  <2>1. /\ locations' = NoLocations /\ UpdateIps({})
        /\ Remembers(pm', {}) /\ pm' = Updated(pm, {})
    BY <1>3 DEF Clear, UpdateIps
  <2>2. PInv' /\ Sound(pm')
    BY <1>0, <2>1, StepKeepsPInv DEF PingNext, PInv
  <2>3. Credited(pm') \subseteq answered \cup unlisted
    BY <1>0, <2>1, UpdatedSound DEF CreditedFrom
  <2>4. /\ answered' \subseteq Ips /\ unlisted' \subseteq Ips
        /\ Credited(pm') \subseteq answered' \cup unlisted'
    BY <1>0, <2>1, <2>2, <2>3, CreditIsRemembered
  <2> QED BY <2>1, <2>2, <2>4 DEF LInv, LocationsType
<1>4. ASSUME NEW l \in Lists, SetLocations(l) PROVE LInv'
  <2> DEFINE u == Updated(pm, l.pinged)
             stamped == Stamped(u, l)
  <2>1. /\ locations' = l /\ pm' = CarryPings(u, locations, l)
        /\ UpdateIssues(pm, l.pinged) /\ UNCHANGED <<online, state>>
        /\ Remembers(u, stamped)
    BY <1>4 DEF SetLocations
  <2>2. /\ l.cities \in [DOMAIN l.cities -> Ips] /\ IsFiniteSet(DOMAIN l.cities)
        /\ l.pinged \in SUBSET Ips
    BY ListsAssumption, FS_Subset
  <2>3. stamped \in SUBSET Ips
    BY <2>2 DEF Stamped
  <2>4. Sound(u) /\ Credited(u) \subseteq answered \cup unlisted
    BY <1>0, <2>2, UpdatedSound DEF CreditedFrom
  <2>5. CarriedOver(u, pm', l)
    BY <2>1, <2>2, <2>4, CarryPingsSound
  <2>6. PInv'
    BY <1>0, <2>1, <2>2, <2>5, UpdateKeepsPInv DEF CarriedOver
  <2> HIDE DEF u
  <2>7. Credited(pm') \subseteq Credited(u) \cup (stamped \ DOMAIN pm'.nodes)
    <3>1. ASSUME NEW i \in Credited(pm'), i \notin Credited(u), i \in DOMAIN pm'.nodes
          PROVE  FALSE
      BY <2>4, <2>5, <3>1 DEF Credited, CarriedOver, Sound
    <3>2. ASSUME NEW i \in Credited(pm'), i \notin Credited(u), i \notin stamped
          PROVE  FALSE
      BY <2>5, <3>2 DEF Credited, CarriedOver
    <3> QED BY <3>1, <3>2
  <2> HIDE DEF stamped
  <2>8. /\ answered' \subseteq Ips /\ unlisted' \subseteq Ips
        /\ Credited(u) \cup (stamped \ DOMAIN pm'.nodes) \subseteq answered' \cup unlisted'
    BY <1>0, <2>1, <2>3, <2>4, CreditIsRemembered
  <2> QED BY <2>1, <2>6, <2>7, <2>8 DEF LInv, LocationsType
<1>5. CASE UNCHANGED vars
  <2>1. UNCHANGED <<pm, flights, world, locations, answered, unlisted>>
    BY <1>5 DEF vars
  <2>2. PInv'
    BY <1>0, <2>1, StepKeepsPInv
  <2> QED BY <2>1, <2>2 DEF LInv, LocationsType, Credited
<1> QED BY <1>1, <1>2, <1>3, <1>4, <1>5 DEF Next

LEMMA LocationsStart == Init => LInv
<1> SUFFICES ASSUME Init PROVE LInv
  OBVIOUS
<1>1. PInv /\ Sound(pm)
  BY PingStarts DEF Init, PInv
<1>2. Credited(pm) \subseteq Fresh(pm) /\ Fresh(pm) \subseteq Ips
  BY <1>1 DEF Credited, Fresh, Sound, PingManagerType
<1> QED BY <1>1, <1>2 DEF Init, LInv, LocationsType

\* The ping manager and the locations model keep their types, for every set of
\* lists the API may answer.
THEOREM LocationsTyped == Spec => []TypeInvariant
<1>1. LInv => TypeInvariant
  BY DEF LInv, PInv, Sound, World, Flying, TypeOK, TypeInvariant
<1> QED BY <1>1, LocationsStart, StepKeepsLInv, PTL DEF Spec

\* What the locations model stores for an address on the pinged list never
\* makes the timer pass over it: it counts as done once it has answered in this
\* iteration, for every set of lists and of skipped cities.
THEOREM ListedArePinged == Spec => []PingedOnceListed
<1>1. LInv => PingedOnceListed
  BY DEF LInv, PInv, Sound, Credited, PingedOnceListed
<1> QED BY <1>1, LocationsStart, StepKeepsLInv, PTL DEF Spec

\* The two books of the ping manager agree under the locations model, too.
THEOREM BooksAgreeWithLocations == Spec => []NodesAreStored
<1>1. LInv => NodesAreStored
  BY DEF LInv, PInv, Sound, NodesAreStored
<1> QED BY <1>1, LocationsStart, StepKeepsLInv, PTL DEF Spec

\* Nor does the pinging of a listed address stop under it.
THEOREM PingingGoesOnWithLocations == Spec => []PingsGoOn
<1>1. LInv => PingsGoOn
  BY DEF LInv, PInv, Sound, Marked, PingsGoOn
<1> QED BY <1>1, LocationsStart, StepKeepsLInv, PTL DEF Spec
=============================================================================
