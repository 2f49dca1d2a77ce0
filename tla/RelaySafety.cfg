CONSTANTS
    Addrs = {a1, a2}
    Fwds = {f1, f2}
    TcpConns = {t1}
    WsConns = {w1}
SPECIFICATION RelaySpec
INVARIANTS RelayTypeOK NothingStray
PROPERTIES BridgesComeDown
CHECK_DEADLOCK FALSE
