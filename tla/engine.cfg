SPECIFICATION Spec
CONSTANTS
    Outcomes = {"user","itself","error"}
    Addresses = {"none", "server"}
    AllowLists = {"open", "strict"}
    Interfaces = {"none", "tun"}
    Locations = {"api","custom"}
    Modes = {"before","after","plus"}
    HelperAnswers = {"done", "refused", "half"}
    LogoutExclusive = TRUE
    MaxCalls = 1
INVARIANTS
    TypeOK
    PublishedStateCatchesUp
    ConnectedIsUp
    FirewallFollowsTunnel
    FirewallReopens
    LatchIsTrue
    MarkIsForThisStop
    LogoutIsKept
PROPERTIES
    StartsOnlyWanted
    FirewallLiftedOnPurpose
