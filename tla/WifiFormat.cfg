SPECIFICATION Spec
CONSTANTS
    Installed <- MCInstalled
    Names <- MCNames
    Phrases <- MCPhrases
    Writes = 3
INVARIANTS TypeOK ReadsAsWritten
PROPERTIES HeaderSettles CellsSuffice
