------------------------ MODULE MC_WebsocketTransport ------------------------
EXTENDS WebsocketTransport

CONSTANTS e1, e2, q1

MC_Emitters2 == {e1, e2}
MC_Emitters1 == {e1}
MC_Pollers1 == {q1}
MC_Honest == {Pong}
MC_AnyReply == {Pong, Other}

====
