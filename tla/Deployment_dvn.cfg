SPECIFICATION Spec
CONSTANTS
    Plans = {"first", "escrow", "solana"}
    UseDefaultDvns = FALSE
    Permit2 = TRUE
    PresetReceiver = 1
    Unplanned = {"deploySui", "deployEvm", "deployEvmEscrow", "wire", "setDvn",
                 "setEvmReceiveUln", "setExecutorConfig", "setLzRelayer", "setPeer"}
    MaxUnplanned = 1
    MaxDeaths = 0
INVARIANTS
    DvnsAgree
CHECK_DEADLOCK FALSE
