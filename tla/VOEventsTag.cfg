\* One VOEvent of an event and one of a superevent, and the removal of a tag.
CONSTANTS
    Workers = {w1}
    MaxVOEvents = 2
    MaxUntags = 1
    MaxFaults = 0
    None = None
SPECIFICATION Spec
PROPERTY DeletedTagsAreEmpty
CHECK_DEADLOCK FALSE
