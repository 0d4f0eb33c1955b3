CONSTANTS
    c1 = c1
    c2 = c2
    Clients = {c1, c2}
    Fds = {1, 2}
    NoConn = NoConn
    Requests <- RequestsOf
    ReadSize = 3
    SocketSize = 3
SPECIFICATION FairSpec
INVARIANTS TypeOK AssertsHold ResponsesInOrder
PROPERTIES AnswersBeforeClose Answered ConnectionsEnd
