SPECIFICATION FairSpec
CONSTANTS
    None = None
    Message = {m1, own, sent}
    Own = {own}
    Large = {m1}
    Sent = {sent}
    Assistant = {p}
    Window = 2
    MaxLog = 2
    MaxBreaks = 2
    MaxChanges = 1
CHECK_DEADLOCK FALSE
INVARIANTS NothingSkipped ReadersServed
PROPERTIES ImplementsInbox NoEchoAnswered MessagesArrive
