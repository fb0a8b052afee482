\* Any head of up to two lines.
SPECIFICATION Spec
CONSTANTS
    Codes <- MCCodes
    Letters <- MCLetters
    Reasons <- MCReasons
    Lines <- MCLines
    MaxLines = 2
    Width = 256
INVARIANTS
    HeadIsRead
