SPECIFICATION DaemonSpec
CONSTANTS
    g1 = g1
    g2 = g2
    d1 = d1
    here = here
    p1 = p1
    r1 = r1
    None = None
    Bare = Bare
    Dirs = {d1}
    Formats = {}
    Users = {}
    Hosts = {here}
    Ports = {p1}
    Remotes = {r1}
    Plugins <- MCPlugins
    Modules <- MCModules
    ListsOf <- MCListsOf
    MaxArgs = 1
    Pipelines = {g1, g2}
    MaxSongs = 2
    MaxNest = 2
    MaxQuits = 2
    QuitStays = {TRUE, FALSE}
INVARIANTS
    NothingOrphaned
    StoppedIsSilent
PROPERTIES
    MessagesHarmless
    CueReturns
    SigtermEnds
\* The process ends, exits or crashes.
CHECK_DEADLOCK FALSE
