\* Two queries in a round, one of them with an event; a query every two ticks
\* that looks back three; two targets.
SPECIFICATION FairSpec
CONSTANTS
    comment = comment
    comments = comments
    Events = {comment}
    Kinds = {comments, log}
    KindOf <- KindOfEvents
    Ignored = {}
    NoEvent = NoEvent
    Targets = {t1, t2}
    QueueCap = 1
    Interval = 2
    Window = 3
INVARIANTS
    TypeOK
    NothingBetweenAnswers
    CopiesBounded
    RoundIsComplete
PROPERTIES
    AnsweredIsDelivered
