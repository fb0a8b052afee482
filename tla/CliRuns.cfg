\* Two runs of one command, any command line of up to four tokens.
SPECIFICATION Spec
CONSTANTS
    OptionDefs <- MCOptionDefs
    ArgDefs <- MCArgDefs
    Words <- MCWords
    IntOf <- MCIntOf
    Keys = {"port", "verbose"}
    MaxTokens = 4
    MaxRuns = 2
INVARIANTS
    OptionsAreThisRuns
    ArgsAreThisRuns
