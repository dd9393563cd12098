SPECIFICATION DiscoveryFairSpec
CONSTANTS
    top = top
    app = app
    lib = lib
    vendor = vendor
    Dirs = {top, app, lib, vendor}
    RootDirs = {top, app}
    Mounts = {top}
    DockerRoots = {top}
    SkipDirs = {vendor}
    Parent <- MCParent
    Trees <- MCTrees
    Lists <- MCLists
    Contents <- MCContents
    Modes <- MCModes
    MountStates = {"up", "gone"}
    MaxChanges = 2
    Overlap = FALSE
    Steady = TRUE
    None = None
INVARIANTS
    RefreshAgrees
PROPERTIES
    OnDiskIsKept
    RosterConverges
