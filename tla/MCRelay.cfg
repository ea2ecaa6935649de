CONSTANTS
    Intents = {1, 2, 3}
    Relays = {"c1", "c2"}
    Batch = 1
SPECIFICATION FairSpec
CHECK_DEADLOCK FALSE
INVARIANTS
    MarkedOnTopic
PROPERTIES
    EveryIntentPublished
