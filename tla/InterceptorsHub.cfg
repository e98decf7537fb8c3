CONSTANTS
    x1 = x1
    x2 = x2
    x3 = x3
    s1 = s1
    s2 = s2
    s3 = s3
    t1 = t1
    t2 = t2
    Calls <- MCCalls
    Spans <- MCSpans
    Traces <- MCTraces
    TraceOf <- MCTraceOf
    NoSpan = NoSpan
    NoTrace = NoTrace
SPECIFICATION Spec
SYMMETRY Symmetry
INVARIANTS
    SharedHubIsLeftAlone
