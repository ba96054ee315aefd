CONSTANTS
    Procs = {p1, p2, p3, p4, p5}
    Main = p1
    Started = {2, 4}
    Lines <- MCLines
    AllLines <- MCAllLines
    MaxLines = 1
    NFILE = 6
    NOFILE = 5
    Pages = {1, 2}
    PIPESIZE = 2
    UINT = 4
    MaxKills = 1
    MAXARGS = 3
SPECIFICATION FairSpec
INVARIANTS FilesInv NoLostPipeWakeup ForegroundDone
PROPERTIES StdRedirected ParserCorrect CommandEnds
CHECK_DEADLOCK FALSE
