SPECIFICATION RegistrySpec
CONSTANTS
    Windows = {1, 2, 3}
    Workspaces = {dev}
    NoWindow = NoWindow
    NoWorkspace = NoWorkspace
    Keep = Keep
    TTL = 1
    MaxWindows = 2
    Hosts = {1}
    MaxTime = 3
INVARIANT OneOwner
PROPERTIES BeatingKeepsItsClaim PrimaryIsStable
