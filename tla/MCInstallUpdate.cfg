\* Two configurations; no password, a given one and the refused one; three runs
\* of panel-install with one fault.  Two runtime files, a schema file and two
\* releases for panel-updater.
CONSTANTS
    Confs = {c1, c2}
    Passwords = {0, 1, 2}
    KnownPassword = 2
    MaxRuns = 3
    MaxFaults = 1
    Runtime = {"api", "worker"}
    Schema = {"schema"}
    MaxRelease = 2
SYMMETRY Symmetry
SPECIFICATION ProgramSpec
INVARIANTS
    ProgramTypeOK
    InstalledOnSuccess
    
    
    
    RollbackMaterialKept
    ServicesRunInstalled
