\* The end timestamp is not the maximum: the early continue after a new
\* minimum skips the maximum check.
CONSTANTS
    Times = {1, 2, 3}
    MaxLen = 4
SPECIFICATION Spec
INVARIANT EndIsLatest
