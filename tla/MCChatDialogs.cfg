SPECIFICATION FairSpec
CONSTANTS
    Member = {1, 2, 3}
    Fixed = {1}
    Request = {1, 2}
    PageSize = 2
    RequestPageSize = 1
    QueueCapacity = 1
    Dialogs = {{"requests", "members"}, {"room", "text"}, {"requests", "rotate"}}
CHECK_DEADLOCK FALSE
INVARIANTS CursorInList ListsAreTrue
PROPERTIES AnswersFit Recovers
