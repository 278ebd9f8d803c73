------------------------- MODULE GetWireGuardConfig -------------------------
(***************************************************************************)
(* How a WireGuard connector gets its configuration: from the settings or   *)
(* from the server API, which registers the client's public key.  The       *)
(* settings outlive the client; the statics and the request do not          *)
(* (.../engine/wireguardconfig/getwireguardconfig.cpp and the fetch in      *)
(* .../connectors/wireguard/wireguardconnectionbase.cpp).                   *)
(***************************************************************************)
EXTENDS Naturals

CONSTANT MaxKeys    \* bound on the key pairs the client generates

ASSUME KeysAssumption == MaxKeys \in Nat

VARIABLES
    stored,     \* the settings: the key pair (0: none) and whether all else is there
    fetch,      \* the GetWireGuardConfig object of the attempt
    force,      \* forceReinitOnNextCall_
    called,     \* isInitConfigWasCallAtleastOnce_
    keys,       \* key pairs generated so far
    granted,    \* history: keys the server has answered for
    mine        \* history: keys registered since the settings were last cleared

gvars == <<stored, fetch, force, called, keys, granted, mine>>

Keys == 1..MaxKeys
Waiting == {"asked", "reached"}     \* request_ is set; the server has seen it
Served == {"cached", "granted"}     \* prepared() was emitted

FetchType ==
    [state : {"none", "failed", "limit"} \cup Waiting \cup Served,
     key : {0} \cup Keys, retried : BOOLEAN]

NothingStored == [key |-> 0, complete |-> FALSE]

\* The settings at start are empty; a crash brings any later content back.
FetchInit ==
    /\ stored = NothingStored
    /\ fetch = [state |-> "none", key |-> 0, retried |-> FALSE]
    /\ force = FALSE /\ called = FALSE
    /\ keys = 0 /\ granted = {} /\ mine = {}

Answer(outcome) == fetch' = [fetch EXCEPT !.state = outcome]

-----------------------------------------------------------------------------
\* Mutant: the new key pair is written only with the finished configuration.
SubmitUnstored(key) ==
    /\ fetch' = [state |-> "asked", key |-> key, retried |-> FALSE]
    /\ UNCHANGED stored

\* submitWireGuardInitRequest(): a new key pair is stored before it is sent.
Submit(key) ==
    /\ fetch' = [state |-> "asked", key |-> key, retried |-> FALSE]
    /\ stored' = [stored EXCEPT !.key = key]

\* generateKeyPair(), at most MaxKeys times.
NewKey ==
    /\ keys < MaxKeys
    /\ keys' = keys + 1
    /\ Submit(keys + 1)

\* Mutant: a user who gave up the oldest key gets a new key pair.
GetRekeying ==
    /\ force' = FALSE
    /\ IF fetch.state = "limit" \/ stored.key = 0 THEN NewKey
       ELSE Submit(stored.key) /\ UNCHANGED keys

\* getWireGuardConfig() without useCachedConfigOnly
Get ==
    /\ force' = FALSE
    /\ IF ~force /\ called /\ stored.complete
       THEN Answer("cached") /\ UNCHANGED <<stored, keys>>
       ELSE IF stored.key # 0 THEN Submit(stored.key) /\ UNCHANGED keys
       ELSE \/ NewKey
            \/ Answer("failed") /\ UNCHANGED <<stored, keys>>  \* generateKeyPair() fails

\* prepareImpl() of a new connector
FetchConfig ==
    /\ fetch.state \notin Waiting \cup {"limit"}
    /\ Get
    /\ UNCHANGED <<called, granted, mine>>

\* The connector of an Always On+ session serves what is stored.
FetchCachedOnly ==
    /\ fetch.state \notin Waiting \cup {"limit"}
    /\ Answer(IF stored.complete THEN "cached" ELSE "failed")
    /\ UNCHANGED <<stored, force, called, keys, granted, mine>>

\* The user gives up the oldest key: the same call by a fresh object.
KeyLimitConsent ==
    /\ fetch.state = "limit"
    /\ Get
    /\ UNCHANGED <<called, granted, mine>>

-----------------------------------------------------------------------------
(* The server, and its answers; any request or answer may be lost.          *)

\* External: the server registers the key of a request.
ServerRegisters ==
    /\ fetch.state = "asked"
    /\ Answer("reached")
    /\ granted' = granted \cup {fetch.key} /\ mine' = mine \cup {fetch.key}
    /\ UNCHANGED <<stored, force, called, keys>>

\* The API is out of reach, refuses, or sends no usable address.
AnswerFails ==
    /\ fetch.state \in Waiting
    /\ Answer("failed")
    /\ UNCHANGED <<stored, force, called, keys, granted, mine>>

\* Code 1310: no preshared key; asked once more, then the attempt fails.
AnswerNoPresharedKey ==
    /\ fetch.state = "asked"
    /\ fetch' = IF fetch.retried THEN [fetch EXCEPT !.state = "failed"]
                ELSE [fetch EXCEPT !.retried = TRUE]
    /\ UNCHANGED <<stored, force, called, keys, granted, mine>>

\* Code 1313: the user is asked to give up the oldest key.
AnswerKeyLimit ==
    /\ fetch.state = "asked"
    /\ Answer("limit")
    /\ UNCHANGED <<stored, force, called, keys, granted, mine>>

AnswerGranted ==
    /\ fetch.state = "reached"
    /\ Answer("granted")
    /\ stored' = [key |-> fetch.key, complete |-> TRUE]
    /\ called' = TRUE
    /\ UNCHANGED <<force, keys, granted, mine>>

-----------------------------------------------------------------------------
\* teardown(): the object is deleted and its request cancelled.
Teardown ==
    /\ fetch.state # "none"
    /\ Answer("none")
    /\ UNCHANGED <<stored, force, called, keys, granted, mine>>

\* updateSessionStatus(): the premium plan ended.
ForceReinitOnNextCall ==
    /\ force' = TRUE
    /\ UNCHANGED <<stored, fetch, called, keys, granted, mine>>

\* Log-out, or cached attempts exhausted: no request is in flight then.
RemoveWireGuardSettings ==
    /\ fetch.state \notin Waiting \cup {"limit"}
    /\ stored' = NothingStored /\ mine' = {}
    /\ UNCHANGED <<fetch, force, called, keys, granted>>

\* The client dies and starts again: only the settings survive.
Restart ==
    /\ fetch' = [state |-> "none", key |-> 0, retried |-> FALSE]
    /\ force' = FALSE /\ called' = FALSE
    /\ UNCHANGED <<stored, keys, granted, mine>>

\* What may happen while the connector of one attempt prepares.
FetchStep ==
    \/ FetchConfig \/ FetchCachedOnly \/ KeyLimitConsent
    \/ ServerRegisters
    \/ AnswerFails \/ AnswerNoPresharedKey \/ AnswerKeyLimit \/ AnswerGranted
    \/ Teardown \/ ForceReinitOnNextCall

FetchNext == FetchStep \/ RemoveWireGuardSettings \/ Restart

FetchSpec == FetchInit /\ [][FetchNext]_gvars

-----------------------------------------------------------------------------
\* Every variable keeps its type; a request always names a key.
FetchTypeOK ==
    /\ stored \in [key : {0} \cup Keys, complete : BOOLEAN]
    /\ fetch \in FetchType
    /\ fetch.state \in Waiting \cup {"limit"} => fetch.key # 0
    /\ force \in BOOLEAN /\ called \in BOOLEAN
    /\ keys \in 0..MaxKeys
    /\ granted \subseteq Keys /\ mine \subseteq Keys

\* No crash, lost answer or cancelled request costs the user a key slot: a key
\* the server has registered is the one the settings hold, so that the next
\* request registers the same key again.
RegisteredKeyIsStored == mine \subseteq {stored.key}

\* A complete stored configuration belongs to the key the server answered for,
\* whatever calls, consents and crashes came between.
StoredWasGranted == stored.complete => stored.key \in granted

\* The user's consent to give up the oldest key is asked of the server; the
\* stored configuration is not served in its place.
ConsentIsAsked == [][fetch.state = "limit" => fetch'.state # "cached"]_gvars
=============================================================================
