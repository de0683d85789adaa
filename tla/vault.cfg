CONSTANTS
    ann = ann
    bob = bob
    annSlot = annSlot
    recoverySlot = recoverySlot
    annKey = annKey
    oldPaper = oldPaper
    newPaper = newPaper
    Founder = Founder
    None = None
    Actors <- MCActors
    Labels <- MCLabels
    Recovery <- recoverySlot
    Recipients <- MCRecipients
    Secrets <- MCSecrets
    Tasks <- Commands
    Foundings <- Shared
    Conditional = TRUE
    Flaky = {ann}
    Rotator <- ann
SPECIFICATION VaultSpec
INVARIANTS VaultTypeOK KeptByRotation AsRecorded CleanIsCovered
PROPERTY SameAccess
CHECK_DEADLOCK FALSE
