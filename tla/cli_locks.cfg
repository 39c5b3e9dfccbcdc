CONSTANTS
    c1 = c1 c2 = c2 o1 = o1 f1 = f1 f2 = f2
    Process = {c1, c2, o1}
    Cli = {c1, c2}
    File = {f1}
    MaxFiles = 1
    Retries = 1
    MaxChanges = 2
    MaxRuns = 1
    MaxGen = 2
    MaxSegs = 1
SPECIFICATION CliSpec
CHECK_DEADLOCK FALSE
INVARIANTS WrittenIsOpened PROPERTIES CommandsEnd
