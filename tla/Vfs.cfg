\* Two pids with two streams each, a few paths and a disk of eight clusters.
CONSTANTS
    p1 = p1
    p2 = p2
    out = out
    err = err
    dev = dev
    kbd = kbd
    proc = proc
    bin = bin
    sh = sh
    Shell = Shell
    readme = readme
    piece = piece
    ghost = ghost
    tool = tool
    longtool = longtool
    nosuch = nosuch
    x = x
    NoName = NoName
    Name = {p1, p2, out, err, dev, kbd, proc, bin, sh, Shell, readme, piece, ghost, tool, longtool, nosuch, x}
    NextCluster <- MCNext
    Entries <- MCEntries
    Content <- MCContent
    RootCluster = 1
    ClusterSize = 2
    Pid = {1, 2}
    Stream = {out, err}
    StreamOrder <- MCStreamOrder
    Cap = 1
    Proc = proc
    Dev = dev
    PidName <- MCPidName
    Devices <- MCDevices
    Paths <- MCPaths
    Searches <- MCSearches
    Links <- MCLinks
    Pipes <- MCPipes
    Execs <- MCExecs
    ReadSizes = {1, 3}
    MaxNodes = 10
SPECIFICATION Spec
INVARIANTS TreeSound LookupExact ReadsExact
PROPERTIES CreatedIsFound OutputKept IsProcStreams
