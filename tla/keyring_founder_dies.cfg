CONSTANTS
    ann = ann
    bob = bob
    annSlot = annSlot
    bobSlot = bobSlot
    recoverySlot = recoverySlot
    annKey = annKey
    bobKey = bobKey
    oldPaper = oldPaper
    newPaper = newPaper
    Founder = Founder
    None = None
    Actors <- MCActors
    Labels <- MCLabels
    Recovery <- recoverySlot
    Recipients <- MCRecipients
    Secrets <- MCSecrets
    Tasks <- OnlyFound
    Foundings <- Fresh
    Conditional = TRUE
    Flaky = {}
SPECIFICATION Spec
INVARIANT FoundedIsUsable
CHECK_DEADLOCK FALSE
