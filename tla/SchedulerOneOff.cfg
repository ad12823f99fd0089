SPECIFICATION Spec
CONSTANTS
    r1 = r1
    r2 = r2
    ann = ann
    bob = bob
    NULL = NULL
    Reminders = {r1, r2}
    Users = {ann, bob}
    Forms <- MixedForms
    MinutesPerDay = 2
    DaysPerWeek = 2
    MaxClock = 2
    MaxCrashes = 0
PROPERTY
    DoneIsNotRepeated
