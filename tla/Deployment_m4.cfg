SPECIFICATION FairSpec
CONSTANTS
    Plans = {"m4"}
    UseDefaultDvns = FALSE
    Permit2 = TRUE
    PresetReceiver = 1
    Unplanned = {"deploySui", "deployEvm", "deployEvmEscrow", "wire", "setDvn",
                 "setEvmReceiveUln", "setExecutorConfig", "setLzRelayer", "setPeer"}
    MaxUnplanned = 0
    MaxDeaths = 0
PROPERTIES
    LaneComesUp
CHECK_DEADLOCK FALSE
