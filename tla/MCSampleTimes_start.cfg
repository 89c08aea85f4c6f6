\* The start timestamp is the minimum over every visiting order of up to
\* four timestamps drawn from three distinct values.
CONSTANTS
    Times = {1, 2, 3}
    MaxLen = 4
SPECIFICATION Spec
INVARIANT StartIsEarliest
