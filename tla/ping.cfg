SPECIFICATION Spec
CONSTANTS
    Ips = {"a", "b"}
    MaxFailedInRow = 2
    MaxFlights = 2
    Groups = {"g1", "g2"}
    Lists <- MCLists
INVARIANTS
    TypeInvariant
    NodesAreStored
    PingsGoOn
    
