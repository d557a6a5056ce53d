\* One client that moves between two addresses, two conversations, failing epoll_ctl.
\* It falls silent at time 1; everything must be given back.
SPECIFICATION FairSpec
CONSTANTS
    a1 = a1  a2 = a2  a3 = a3  k1 = k1  k2 = k2  k3 = k3  v1 = v1  v2 = v2
    p1 = p1  p2 = p2  p3 = p3
    Addr = {a1, a2}
    ConstId = {k1}
    ConvId = {v1, v2}
    Conn = {p1, p2}
    Fd = {1, 2, 3}
    NoConn = NoConn  NoConst = NoConst  NoFd = NoFd  NoAddr = NoAddr
    max_handshake_conn_num = 2
    max_ready_conn_num = 1
    max_conv_num = 2
    server_handshake_timeout = 0
    conv_timeout = 1
    server_conn_timeout = 2
    hb_mode = 0
    EpollAddMayFail = TRUE
    MaxFd64 = 4
    MaxTime = 4
    QuietTime = 1
CHECK_DEADLOCK FALSE
INVARIANTS
    FdsOwned
PROPERTIES
    ConvsSurviveRecovery
    Reclaimed
