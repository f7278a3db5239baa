CONSTANTS
    e1 = e1
    e2 = e2
    q1 = q1
    None = None
    Emitters <- MC_Emitters1
    Pollers <- MC_Pollers1
    ProbeReplies <- MC_Honest
    MaxDown = 2
SPECIFICATION Spec
PROPERTIES UpgradeCompletes
CHECK_DEADLOCK FALSE
