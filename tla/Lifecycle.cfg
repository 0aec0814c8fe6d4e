SPECIFICATION LifeSpec
CONSTANTS
    Devs = {"eth0", "eth1"}
    Configs <- MCConfigs
    Commands = {"load", "unload", "reload", "start", "stop", "restart",
                "start_mgr", "stop_mgr", "restart_mgr",
                "start_logger", "stop_logger", "restart_logger"}
    MaxCommands = 3
    MaxFaults = 2
INVARIANTS
    OneInstance PinsTellTheMode UnloadIsComplete 
CHECK_DEADLOCK FALSE
