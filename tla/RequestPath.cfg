CONSTANTS
    A = a
    B = b
    Callers = {a, b}
    Scenes <- MCScenes

SPECIFICATION Spec

INVARIANTS
    TypeOK
    FilesWrittenWhole
    DecodersAgree

PROPERTIES
    ImplementsDevice
