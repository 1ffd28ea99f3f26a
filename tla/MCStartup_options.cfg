SPECIFICATION Spec
CONSTANTS
    d1 = d1
    d2 = d2
    mp3 = mp3
    u1 = u1
    u2 = u2
    here = here
    there = there
    p1 = p1
    p2 = p2
    r1 = r1
    r2 = r2
    Bare = Bare
    None = None
    Dirs = {d1, d2}
    Formats = {mp3}
    Users = {u1, u2}
    Hosts = {here, there}
    Ports = {p1, p2}
    Remotes = {r1, r2}
    Plugins <- MCPlugins
    Modules <- MCModules
    ListsOf <- MCListsOf
    MaxArgs = 2
INVARIANTS
    AskedFor
PROPERTIES
    RemoteSide
\* The process ends, or waits in its main loop.
CHECK_DEADLOCK FALSE
