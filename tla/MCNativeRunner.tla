--------------------------- MODULE MCNativeRunner ---------------------------
\* One PID answered with the identifier 0x7E8 and one DBC message, 0x110,
\* with two signals.  Unasked, the bus carries that message, an answer to a
\* PID of another tool, a message of no interest, and an extended frame whose
\* low bits are those of the DBC message (0x18DAF110).
EXTENDS NativeRunner

MCRequests == <<"speed">>
MCSignals == {"speed", "fuel", "gear"}
MCInterval == [n \in MCSignals |-> 0]
MCResponseHeader == [n \in {"speed"} |-> 2024]
MCPid == [n \in {"speed"} |-> 13]
MCDbc == [h \in {272} |-> <<"fuel", "gear">>]
MCBroadcasts ==
    {Frame(272, "standard", 0), Frame(2024, "standard", 12),
     Frame(100, "standard", 0), Frame(416936208, "extended", 0)}
=============================================================================
