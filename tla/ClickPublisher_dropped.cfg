\* The Dropped counter against what is lost at Close.
SPECIFICATION Spec
CONSTANTS
    BufferSize = 2
    MaxClicks = 3
    MaxOutages = 1
CHECK_DEADLOCK FALSE
PROPERTY
    DroppedReportsLost
