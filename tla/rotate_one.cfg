CONSTANTS
    r1 = r1
    r2 = r2
    alice = alice
    bob = bob
    legacy = legacy
    q1 = q1
    q2 = q2
    None = None
    Rotators <- OneRotator
    Owner <- AliceRotates
    Slots <- AllSlots
    Recorded <- RecordedSlots
    Pushes <- TwoPushes
    PushedBy <- EachPushes
    Killable <- OutsideSwitch
    Flaky = FALSE
    Prefixed = TRUE
    MaxRuns = 3
    MaxRounds = 3
SPECIFICATION Spec
INVARIANTS TypeOK ActiveIsKept MembersCanRead LostOnlyIfLate RerunSucceeds OldKeysAreUseless
CHECK_DEADLOCK FALSE
