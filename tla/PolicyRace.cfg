\* Two clients on one policy.
CONSTANTS
    PolClients = {c1, c2}
    CustomNames = {"dev"}
    PolTexts = {"t1"}
SPECIFICATION PolicySpec
INVARIANT DeletedOutOfForce
CHECK_DEADLOCK FALSE
