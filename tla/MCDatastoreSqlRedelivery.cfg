SPECIFICATION Spec
CONSTANTS
    None = None
    a = a
    b = b
    q1 = q1
    q2 = q2
    Readers = {"sql"}
    Names = {a, b}
    PageSize = 2
    MaxRows = 2
    MaxId = 3
    MaxChanges = 2
    Queries = {q1, q2}
CHECK_DEADLOCK FALSE
INVARIANT OneThreadAtATime
