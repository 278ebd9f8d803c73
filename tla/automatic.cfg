SPECIFICATION Spec
CONSTANTS
    PortMap <- MCPortMap
    ManualProtocol = "wireguard"
    CustomProtocol = "openvpn_udp"
    LockdownMode = FALSE
    ProxyEnabled = FALSE
    Ikev2Supported = TRUE
    SessionKinds = {"auto"}
    Platform = "windows"
    HasSleepEvents = TRUE
    EmitAuthError = TRUE
    StartErrors = {"kAdapterSetupFailure"}
    LiveErrors = {"kAuthFailure", "kTunnelEstablishmentFailure"}
    PrepareErrors = {"kConfigFetchFailure"}
    DnsOutcomes = {TRUE}
    AdapterOutcomes = {TRUE}
    MaxEndpoints = 2
    MaxQueue = 2
    SilentSettle = FALSE
    MayToggleAlwaysOn = TRUE
INVARIANTS
    FailuresHaveConnector
PROPERTIES
    SessionKept
    KeepsFreshConfig
