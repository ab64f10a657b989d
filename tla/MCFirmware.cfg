CONSTANTS
    Images = {A, B}
    Shipped = A
    Fetchers = {"console"}
    Tries = 2
SPECIFICATION Spec
INVARIANTS ComesBack GoesBack TrialHonoured TrialTimed
