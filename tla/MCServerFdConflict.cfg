\* epoll_ctl may fail for the socket of a new conversation.
SPECIFICATION Spec
CONSTANTS
    a1 = a1  a2 = a2  a3 = a3  k1 = k1  k2 = k2  k3 = k3  v1 = v1  v2 = v2
    p1 = p1  p2 = p2  p3 = p3
    Addr = {a1}
    ConstId = {k1}
    ConvId = {v1}
    Conn = {p1}
    Fd = {1, 2}
    NoConn = NoConn  NoConst = NoConst  NoFd = NoFd  NoAddr = NoAddr
    max_handshake_conn_num = 1
    max_ready_conn_num = 1
    max_conv_num = 1
    server_handshake_timeout = 1
    conv_timeout = 2
    server_conn_timeout = 3
    hb_mode = 1
    EpollAddMayFail = TRUE
    MaxFd64 = 4
    MaxTime = 1
    QuietTime = 1
CHECK_DEADLOCK FALSE
INVARIANT
    NoFdConflict
