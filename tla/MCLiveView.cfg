SPECIFICATION FairSpec
CONSTANTS
    Texts = {NoText, t1}
    NoText = NoText
CHECK_DEADLOCK FALSE
INVARIANTS
    ViewSound
    ResourcesOutliveUsers
PROPERTIES
    NewestShown
    StatusErased
    PhotoTaken
