\* Two calls on every client of the instance.
SPECIFICATION Spec
CONSTANTS
    Clients <- MCClients
    Boundaries = {"b1", "b2"}
    MaxCalls = 2
INVARIANTS
    FormArrives
    BodyArrives
