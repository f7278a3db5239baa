CONSTANTS
    e1 = e1
    e2 = e2
    q1 = q1
    None = None
    Emitters <- MC_Emitters2
    Pollers <- MC_Pollers1
    ProbeReplies <- MC_AnyReply
    MaxDown = 2
SPECIFICATION Spec
INVARIANTS TypeOK PongNeverPolled
PROPERTIES ChannelRefined UpgradeCompletesOnceLocked EmitCompletes
CHECK_DEADLOCK FALSE
