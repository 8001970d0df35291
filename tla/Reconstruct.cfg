SPECIFICATION Spec
CONSTANTS
    Tasks <- TwoTasks
    Functions = {f}
    Mappings = {m}
    CPUs = {c}
    None = None
    MaxTime = 2
    MaxRecords = 3
INVARIANTS SpansConserved TimesAreSane NamesAreUnique
PROPERTY GapsCut
