\* Payloads that look like framing, in any chunks, coded and cut.
SPECIFICATION Spec
CONSTANTS
    DataBytes = {"CR", "LF", "1"}
    CodingLists <- MCCodingLists
    MaxPayload = 2
    MaxParts = 2
INVARIANTS
    WholeBodyDecoded
    NeverShortened
