----------------------------- MODULE VpnSession -----------------------------
(***************************************************************************)
(* What the connection manager promises the engine about one VPN session,  *)
(* whatever connectors, strategies and timers do behind it: a request is   *)
(* answered by exactly one outcome, a session that is being ended ends, by *)
(* the outcome that was decided unless the user stops it as well, and a    *)
(* session that waits for the network or sleeps tries again before it is   *)
(* up.  (signals of                                                        *)
(* src/client/engine/engine/connectionmanager/connectionmanager.h)         *)
(***************************************************************************)
EXTENDS Naturals, Sequences

CONSTANT Outcomes   \* how a session may end; "user" is the user's own stop

VARIABLES
    phase,      \* off, trying, up, parked (no network), asleep, ending
    decided,    \* the outcome an ending session is going to report
    told,       \* what has been reported since the last request
    question    \* the session stopped to ask for other credentials

svars == <<phase, decided, told, question>>

Nothing == "nothing"
Asking == "authError"
Phases == {"off", "trying", "up", "parked", "asleep", "ending"}
Running == {"trying", "up", "parked", "asleep"}

TypeInvariant ==
    /\ phase \in Phases
    /\ decided \in Outcomes \cup {Asking, Nothing}
    /\ told \in Seq(Outcomes)
    /\ question \in BOOLEAN

SessionInit == phase = "off" /\ decided = Nothing /\ told = <<>> /\ question = FALSE

\* A request to connect, or the answer to the question, starts a session; it
\* may fail at once.
Begin ==
    /\ phase = "off" /\ question' = FALSE /\ decided' = Nothing
    /\ \/ phase' = "trying" /\ told' = <<>>
       \/ phase' = "off" /\ \E o \in Outcomes \ {"user"} : told' = <<o>>

\* The session loses and regains its tunnel, the network, or the machine.
Continue ==
    /\ phase \in Running /\ phase' \in Running
    /\ phase' = "up" => phase \in {"trying", "up"}
    /\ UNCHANGED <<decided, told, question>>

\* The end is decided; a connector is still running.
Decide ==
    /\ phase \in Running /\ phase' = "ending"
    /\ decided' \in Outcomes \cup {Asking}
    /\ UNCHANGED <<told, question>>

\* The user's stop replaces an outcome that has not been reported yet, and
\* may clean up after a session that is over.
StopByUser ==
    /\ phase \in {"ending", "off"} /\ phase' = "ending"
    /\ decided' = "user" /\ told' = <<>> /\ question' = FALSE

ReportOutcome ==
    /\ phase = "ending" /\ phase' = "off" /\ decided' = Nothing
    /\ IF decided = Asking THEN question' = TRUE /\ told' = <<>>
                           ELSE question' = FALSE /\ told' = <<decided>>

\* Without a connector there is nothing to wait for.
EndAtOnce ==
    /\ phase \in Running \cup {"off"} /\ phase' = "off"
    /\ \E o \in Outcomes : told' = <<o>> /\ (phase = "off" => o = "user")
    /\ question' = FALSE /\ UNCHANGED decided

SessionNext == Begin \/ Continue \/ Decide \/ StopByUser \/ ReportOutcome \/ EndAtOnce
SessionSpec == SessionInit /\ [][SessionNext]_svars

\* A session that is not over has reported nothing; one that is over and asks
\* nothing was answered once, or never began.
AnsweredOnce ==
    /\ phase # "off" => told = <<>>
    /\ question => told = <<>> /\ phase = "off"
    /\ Len(told) <= 1
=============================================================================
