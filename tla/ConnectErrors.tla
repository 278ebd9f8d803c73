--------------------------- MODULE ConnectErrors ---------------------------
(***************************************************************************)
(* The errors a connector reports and how the connection manager routes    *)
(* them: a retry, an error at once, or an error once the connector has     *)
(* confirmed that it stopped.                                              *)
(* (src/client/engine/engine/connectionmanager/classifyconnecterror.cpp)   *)
(***************************************************************************)

\* Errors that end an attempt while the strategy may still walk on.
LocalErrors == {"kLocalProcessNotResponding", "kAdapterNotInstalled",
                "kLocalProcessLaunchFailure", "kAdapterSetupFailure"}

\* Errors of an operating system service the connector depends on.
ServiceErrors == {"kVpnServiceSetupFailure", "kHostsFileNotWritable", "kOSServiceUnavailable"}

RuntimeErrors == LocalErrors \cup ServiceErrors \cup
    {"kAuthFailure", "kTunnelEstablishmentFailure", "kPrivKeyPasswordFailure",
     "kTransientTunnelFailure"}

\* Errors that reach the manager from prepare() or from the manager itself.
OtherErrors == {"kNoError", "kLocationUnavailable", "kAccountBlocked", "kCustomConfigInvalid",
                "kConfigFetchFailure", "kLocalConfigGenerationFailure",
                "kDnsServiceStartFailure", "kBlockedByOsPolicy", "kLocalDnsServerNotAvailable"}

ConnectError == RuntimeErrors \cup OtherErrors

\* Mutant: an authentication failure is reported before the connector stopped.
ClassifyAuthFailureAsImmediate(err, automatic, emitAuthError, retryOnAttemptFailure) ==
    IF err = "kAuthFailure" THEN "ErrorImmediately" ELSE "ErrorAfterDisconnect"

ClassifyConnectError(err, automatic, emitAuthError, retryOnAttemptFailure) ==
    CASE err = "kAuthFailure" ->
           IF emitAuthError THEN "ErrorAfterDisconnect" ELSE "Retry"
      [] err \in LocalErrors /\ retryOnAttemptFailure -> "Retry"
      [] err \in {"kLocalProcessNotResponding", "kAdapterNotInstalled"} /\ ~retryOnAttemptFailure ->
           "ErrorAfterDisconnect"
      [] err = "kLocalProcessLaunchFailure" /\ ~retryOnAttemptFailure -> "ErrorImmediately"
      [] \/ err = "kTunnelEstablishmentFailure"
         \/ err = "kAdapterSetupFailure" /\ ~retryOnAttemptFailure ->
           IF automatic THEN "Retry" ELSE "ErrorAfterDisconnect"
      [] err = "kPrivKeyPasswordFailure" -> "ErrorAfterDisconnect"
      [] err \in ServiceErrors -> IF automatic THEN "Retry" ELSE "ErrorImmediately"
      [] err = "kTransientTunnelFailure" -> "Retry"
      [] OTHER -> "Unknown"

ClassifyPrepareError(err, automatic) ==
    IF \/ err = "kLocalConfigGenerationFailure"
       \/ err = "kConfigFetchFailure" /\ automatic
    THEN "Failover" ELSE "HardStop"
=============================================================================
