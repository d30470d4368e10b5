\* Two reloads among edits of the rules and of the file, and evaluations.
SPECIFICATION Spec
CONSTANTS
    Files <- MCFiles
    Edits <- MCEdits
    DefaultRules <- MCDefault
    Payments <- MCPayments
    Reloads = {l1, l2}
    MaxChanges = 3
    Broken = Broken
    Fallback = Fallback
INVARIANTS
    TypeOK
    ChangesLast
PROPERTIES
    PriorityDecides
