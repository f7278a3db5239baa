---------------------------- MODULE MC_EngineSocket ----------------------------
EXTENDS EngineSocket, TLC

CONSTANTS u1, u2, onOpen, onData

MC_OneUser == {u1}
MC_TwoUsers == {u1, u2}
MC_Callbacks == {onOpen, onData}

\* The user threads are interchangeable clones of one socket.
symmUsers == Permutations(MC_TwoUsers)

====
