CONSTANTS
    r1 = r1
    r2 = r2
    alice = alice
    bob = bob
    legacy = legacy
    q1 = q1
    q2 = q2
    None = None
    Rotators <- OneRotator
    Owner <- AliceRotates
    Slots <- AllSlots
    Recorded <- RecordedSlots
    Pushes <- OnePush
    PushedBy <- BobPushes
    Killable <- Nowhere
    Flaky = FALSE
    Prefixed = TRUE
    MaxRuns = 1
    MaxRounds = 3
SPECIFICATION Spec
INVARIANT AckedIsVisible
CHECK_DEADLOCK FALSE
