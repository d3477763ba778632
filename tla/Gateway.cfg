CONSTANTS
    A = a
    B = b
    Clients = {a, b}
    Routes <- MCRoutes
    Scenes <- MCScenes
    Replies <- MCReplies

SPECIFICATION Spec

INVARIANTS
    TypeOK
    OwnAnswersInOrder
    HeardAtMostOnce

PROPERTIES
    EveryRequestAnswered
