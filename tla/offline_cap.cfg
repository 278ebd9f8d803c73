SPECIFICATION Spec
CONSTANTS
    PortMap <- MCPortMap
    ManualProtocol = "openvpn_udp"
    CustomProtocol = "openvpn_udp"
    LockdownMode = FALSE
    ProxyEnabled = FALSE
    Ikev2Supported = TRUE
    SessionKinds = {"manual"}
    Platform = "macos"
    HasSleepEvents = TRUE
    EmitAuthError = FALSE
    StartErrors = {"kLocalProcessLaunchFailure"}
    LiveErrors = {"kAuthFailure"}
    PrepareErrors = {"kLocalConfigGenerationFailure"}
    DnsOutcomes = {TRUE}
    AdapterOutcomes = {TRUE}
    MaxEndpoints = 2
    MaxQueue = 2
    SilentSettle = TRUE
    MayToggleAlwaysOn = FALSE
INVARIANT CapIdleBeforePark
