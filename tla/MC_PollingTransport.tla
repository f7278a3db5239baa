-------------------------- MODULE MC_PollingTransport --------------------------
EXTENDS PollingTransport

MC_AllCallbacks == {"open", "packet", "data"}
MC_HandledKinds == {"Message", "Noop"}
MC_PingKinds == {"Message", "Ping"}
MC_Message == {"Message"}
MC_GoodBodies == {"open", "garbage"}
MC_AllBodies == {"empty", "open", "garbage"}

====
