---------------------------- MODULE MCCanDecoding ----------------------------
EXTENDS CanDecoding

\* A formula over whole bytes that changes nothing, and two that do.
Plain(n)    == [start |-> 31, bits |-> 8 * n, scale |-> 1000, offset |-> 0, min |-> 0, max |-> 65535000]
Coolant     == [start |-> 31, bits |-> 8, scale |-> 1000, offset |-> -40000, min |-> -40000, max |-> 100000]
Odometer    == [start |-> 31, bits |-> 24, scale |-> 100, offset |-> 0, min |-> 0, max |-> 1000000000]
At(b, n)    == [start |-> 8 * b + 7, bits |-> 8 * n, scale |-> 16, offset |-> -1000, min |-> -500, max |-> 100000]

Req(name, header, mode, pid, pair, formula) ==
    [name |-> name, header |-> header, mode |-> mode, pid |-> pid, pair |-> pair, formula |-> formula]
Engine      == <<0, 2016>>             \* 0x7e0
Body29      == <<6362, 4337>>          \* 0x18da10f1
Other29     == <<6362, 61712>>         \* 0x18daf110

MCPids == {
    <<Req("coolant", Functional11, 1, 5, NoId, Coolant),
      Req("rpm", Functional11, 1, 12, NoId, Plain(2)),
      Req("mode", Functional11, 1, 65, NoId, Plain(1))>>,
    <<Req("air", Engine, 34, 56581, NoId, Plain(1)),
      Req("rpm", Functional11, 1, 12, NoId, Plain(2)),
      Req("soh", Engine, 34, 3145, NoId, Plain(2)),
      Req("low", Engine, 34, 66, NoId, Plain(1))>>,
    <<Req("coolant", Functional29, 1, 5, NoId, Coolant),
      Req("throttle", Body29, 1, 17, NoId, Plain(1)),
      Req("odometer", Functional29, 1, 166, Other29, Odometer),
      Req("bad", Body29, 1, 4, BadId, Plain(1))>> }

BO(h) == [word |-> "BO_", gives |-> h]
SG(name, formula) == [word |-> "SG_", gives |-> [name |-> name, formula |-> formula]]
Torn == [word |-> "SG_", gives |-> <<>>]
Note == [word |-> "CM_", gives |-> <<>>]
Gears == <<0, 288>>
Tires == <<1280, 1322>>
Tagged == <<38912, 500>>               \* bit 31 set, as DBC files mark 29 bits

FileLines == {BO(Gears), BO(Tires), BO(BadId), SG("a", At(0, 2)), SG("b", At(2, 1)), Torn, Note}
LongFile == <<BO(Gears), SG("a", At(0, 2)), SG("b", At(2, 1)), BO(Tires), SG("a", At(1, 1))>>
Files == (FileLines \X FileLines) \cup {<<l>> : l \in FileLines}
            \cup {<<BO(Gears), k, l>> : k \in FileLines, l \in FileLines}
            \cup {LongFile, <<BO(Tagged), SG("a", At(0, 2))>>}

\* Every template of requests, and every file without requests.
MCSetups ==
    {[pids |-> p, file |-> <<>>] : p \in MCPids}
        \cup {[pids |-> <<Req("coolant", Functional11, 1, 5, NoId, Coolant)>>, file |-> LongFile]}
        \cup {[pids |-> <<>>, file |-> f] : f \in Files}

MCPads == {-1, 0, 85}

MCBytes == {0, 5, 65, 255}
MCData == [1 .. 1 -> MCBytes] \cup [1 .. 2 -> MCBytes] \cup [1 .. 3 -> {65, 166}]

MCBroadcasts ==
    {[id |-> i, data |-> d] : i \in {Gears, Tires, <<0, 1322>>, <<0, 2024>>, <<5120, 288>>, <<6144, 500>>, <<0, 77>>},
                              d \in {<<>>, <<1, 5>>, <<255, 255, 4>>, <<0, 70, 90, 1, 2, 3, 4, 5>>}}

\* "1FTEW1CP3NKE68593" and "WAURGB8R2LN006222".
MCVINs == {<<49, 70, 84, 69, 87, 49, 67, 80, 51, 78, 75, 69, 54, 56, 53, 57, 51>>,
           <<87, 65, 85, 82, 71, 66, 56, 82, 50, 76, 78, 48, 48, 54, 50, 50, 50>>}

MCVinQueries == {[header |-> h, mode |-> m] : h \in {Functional11, Engine, Functional29}, m \in {9, 34}}
=============================================================================
