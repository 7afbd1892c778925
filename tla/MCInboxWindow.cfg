\* The window at its limit: rows and queue of one, two prompts, nothing fails.
CONSTANTS
    sa = sa sb = sb ia = ia ib = ib
    Inboxes = {sa}
    Inputs = {ia, ib}
    Home <- OneHome
    Attached = {}
    Clients = {u}
    Nothing = Nothing
    QueueLimit = 1
    Window = 1
    InboxLives = 0
SPECIFICATION InboxSpec
PROPERTIES InputIsDispatched
CHECK_DEADLOCK FALSE
