SPECIFICATION FairQueueSpec
CONSTANTS
    Writers = {w1, w2, w3}
    MaxPuts = 2
INVARIANTS NoLostWakeup FirstInFirstOut
PROPERTIES AllTaken
