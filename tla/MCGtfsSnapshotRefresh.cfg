SPECIFICATION Spec
CONSTANTS
    w1 = w1
    w2 = w2
    b1 = b1
    c1 = c1
    c2 = c2
    c3 = c3
    None = None
    Workers = {w1, w2}
    Calls = {c1}
    Warmups = {}
    WorkerOf <- MCWorkerOf
    Tables = {"stops", "stop_times"}
    Meta = "meta"
    MaxId = 2
PROPERTY FailedRefreshKeepsSnapshot
