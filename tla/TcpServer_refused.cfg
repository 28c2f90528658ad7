SPECIFICATION Spec
CONSTANTS
    Wnd = 3
    SndBuf = 2
    Apps = {"http", "echo"}
    Pages = {1, 3}
    MaxSent = 3
INVARIANT RefusedIsAlive
CHECK_DEADLOCK FALSE
