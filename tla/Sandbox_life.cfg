SPECIFICATION SandboxSpec
CONSTANTS
    v1 = v1
    v2 = v2
    v3 = v3
    Visitors = {v1, v2, v3}
    Watched = v1
    Ips = {ip1, ip2}
    MaxSessions = 2
    MaxPerIp = 1
    MaxTotal = 3
    Scenes <- MCScenes
    Second = 2
    SendTimeout = 2
    Life = 3
    MaxCommands = 2
    MaxSpeed = 2
    Sky <- MCSky
CHECK_DEADLOCK FALSE
PROPERTIES
    SessionEnds
