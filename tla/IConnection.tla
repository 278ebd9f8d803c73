---------------------------- MODULE IConnection ----------------------------
(***************************************************************************)
(* What ConnectionManager is promised by a connector: one object per        *)
(* attempt, dialled once.  A stop that is asked for while the connector is  *)
(* not settled is answered, and the worker thread behind the connector      *)
(* ends, so that the wait() in the connector's destructor returns.          *)
(***************************************************************************)

VARIABLES
    life,       \* the worker thread: "fresh", "running", "over"
    settled,    \* isDisconnected()
    stopping    \* startDisconnect() was accepted

vars == <<life, settled, stopping>>

Init == life = "fresh" /\ settled = TRUE /\ stopping = FALSE

Start ==
    /\ life = "fresh"
    /\ life' = "running" /\ settled' = FALSE
    /\ UNCHANGED stopping

AskStop ==
    /\ life # "fresh" /\ ~settled
    /\ stopping' = TRUE
    /\ UNCHANGED <<life, settled>>

\* disconnected() or a final error(); a connector that fails on its own may
\* stop its worker in the same step.
Settle ==
    /\ life # "fresh" /\ ~settled
    /\ settled' = TRUE
    /\ stopping' \in {stopping, TRUE}
    /\ UNCHANGED life

\* The daemon's failure stops the worker before anything is signalled.
Fail ==
    /\ life = "running" /\ ~settled
    /\ stopping' = TRUE
    /\ UNCHANGED <<life, settled>>

\* A late event of the worker may undo what the engine thread settled.
Reappear ==
    /\ life = "running" /\ settled
    /\ settled' = FALSE
    /\ UNCHANGED <<life, stopping>>

\* The worker ends when it was stopped or has settled the attempt, at the latest
\* with its end.
End ==
    /\ life = "running"
    /\ life' = "over"
    /\ settled' \in {settled, TRUE}
    /\ stopping \/ settled'
    /\ UNCHANGED stopping

Next == Start \/ AskStop \/ Settle \/ Fail \/ Reappear \/ End

Spec ==
    /\ Init /\ [][Next]_vars
    /\ WF_vars(stopping /\ Settle)
    /\ WF_vars((stopping \/ settled) /\ End)
=============================================================================
