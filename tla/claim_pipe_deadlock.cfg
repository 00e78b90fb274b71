CONSTANTS
    Payload = 2
    StdinRoom = 1
    PipeRoom = 1
    MaxOutput = 2
    Cap = 1
    None = None
SPECIFICATION Spec
INVARIANT OutputNeverDeadlocks
