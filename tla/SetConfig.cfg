SPECIFICATION Spec
CONSTANTS
    Name = {n1, n2}
    Rate = {1, 2}
    Subsystem <- MCSubsystem
    MaxEntries = 2
    Kind = {"full", "patch", "reload"}
    PatchDeletesUsed = FALSE
    MaxFailures = 1
INVARIANTS
    KernelMatchesConfig  
SYMMETRY Symmetry
