SPECIFICATION Spec
CONSTANTS
    a = a
    b = b
    c = c
    d = d
    e = e
    f = f
    g = g
    Payloads <- MCPayloads
    NumberOf <- MCNumberOf
    SizeOf <- MCSizeOf
    MaxSize = 6
INVARIANTS
    SizeAccounted
PROPERTY PushLeavesHead
