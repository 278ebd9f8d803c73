SPECIFICATION Spec
CONSTANTS
    PortMap <- MCPortMap
    ManualProtocol = "wireguard"
    CustomProtocol = "openvpn_udp"
    LockdownMode = FALSE
    ProxyEnabled = FALSE
    Ikev2Supported = TRUE
    SessionKinds = {"manual", "custom", "emergency"}
    Platform = "windows"
    HasSleepEvents = TRUE
    EmitAuthError = FALSE
    StartErrors = {"kLocalProcessLaunchFailure", "kVpnServiceSetupFailure"}
    LiveErrors = {"kAuthFailure", "kPrivKeyPasswordFailure"}
    PrepareErrors = {"kConfigFetchFailure", "kLocalConfigGenerationFailure"}
    DnsOutcomes = {TRUE, FALSE}
    AdapterOutcomes = {TRUE}
    MaxEndpoints = 2
    MaxQueue = 2
    SilentSettle = FALSE
    MayToggleAlwaysOn = FALSE
INVARIANTS
    TypeOK
    TimersQuiet
    StopCompletes
    RedialSparesTunnel
    AttemptHasDriver
    ConnectedHasTunnel
    DisconnectedMeansSettled
PROPERTIES
    SessionKept
