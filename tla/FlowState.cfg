CONSTANTS
    Threads = {loop, pool, dryrun}
    Locked = {pool}
    Snapshots = {s1, s2}
    Inodes = {i1, i2, i3, i4}
    NoFile = NoFile
    Partial = Partial
    Torn = Torn
    Unknown = Unknown
SPECIFICATION FileSpec
INVARIANT LastSaveKept
