\* The arguments declared as in the documentation's example.
SPECIFICATION Spec
CONSTANTS
    OptionDefs <- MCOptionDefs
    ArgDefs <- MCDocArgDefs
    Words <- MCWords
    IntOf <- MCIntOf
    Keys = {"port"}
    MaxTokens = 2
    MaxRuns = 1
INVARIANTS
    DeclaredArgsSuffice
