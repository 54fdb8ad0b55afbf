CONSTANTS
    CoreKey <- EditorCore
    SubKey <- EditorSub
    Declarations <- EditorDeclarations
SPECIFICATION OrderSpec
INVARIANTS ValidMeansOrdered
