CONSTANTS
    ann = ann
    bob = bob
    annSlot = annSlot
    bobSlot = bobSlot
    recoverySlot = recoverySlot
    annKey = annKey
    bobKey = bobKey
    oldPaper = oldPaper
    newPaper = newPaper
    Founder = Founder
    None = None
    Actors <- MCActors
    Labels <- MCLabels
    Recovery <- recoverySlot
    Recipients <- MCRecipients
    Secrets <- MCSecrets
    Tasks <- AllTasks
    Foundings <- FreshOrShared
    Conditional = TRUE
    Flaky = {ann, bob}
SPECIFICATION Spec
INVARIANTS TypeOK OneKey CleanIsSealed
PROPERTY IsAccessList
CHECK_DEADLOCK FALSE
