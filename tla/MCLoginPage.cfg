\* Four ceremonies and four deeds of the user.
SPECIFICATION PageSpec
CONSTANTS
    MaxBegins = 4
    MaxDeeds = 4
INVARIANT Orderly
PROPERTIES GestureIsFresh ProgressEnds
\* The user may do nothing more.
CHECK_DEADLOCK FALSE
