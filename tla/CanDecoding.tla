----------------------------- MODULE CanDecoding -----------------------------
(***************************************************************************)
(* From a request of the template to a number, byte by byte, on the two    *)
(* ways the device has: the frames it sends and reads itself               *)
(* (SendCANQuery, StartScanning and matchPID of                            *)
(* internal/loggers/dbc_passive_logger.go), and the lines of digits the    *)
(* AutoPi answers with (queryOBDWithAP of internal/worker_runner.go); with *)
(* the frames a vehicle broadcasts, decoded by the DBC file of the         *)
(* template, and the VIN taken from the lines of a VIN query.  One         *)
(* exchange with the vehicle follows another: how the goroutines           *)
(* interleave is the matter of NativeRunner and WorkerRunner.              *)
(*                                                                         *)
(* An identifier is its upper and its lower 16 bits; a request is named by *)
(* its place in the template.                                              *)
(***************************************************************************)
EXTENDS VinExtraction, FiniteSets

CONSTANTS
    Setups,      \* templates: requests (pids) and lines of the DBC file (file)
    Data,        \* the data a control unit may answer with: sequences of bytes
    Pads,        \* what it fills a frame up with: a byte, or -1 for nothing
    Broadcasts,  \* frames the vehicle may send unasked
    VINs,        \* VINs a vehicle may have: sequences of 17 bytes
    VinQueries   \* getVinCommandParts: header, mode and pid of each

Words == {n \in Nat : n < 65536}
Ids == Words \X Words
NoId == <<>>         \* no identifier given
BadId == <<-1>>      \* one that is not a number

Bytes == {n \in Nat : n < 256}

\* Identifiers on the bus have at most 29 bits, those of a template 32.
ASSUME DecodingAssumption ==
    /\ \A s \in Setups : \A i \in DOMAIN s.pids :
           /\ s.pids[i].header \in Ids /\ s.pids[i].pair \in Ids \cup {NoId, BadId}
           /\ s.pids[i].mode \in Bytes /\ s.pids[i].pid \in Words
           /\ s.pids[i].formula.bits \in Nat
    /\ \A s \in Setups :
           /\ Len(s.pids) \in Nat /\ DOMAIN s.pids = 1 .. Len(s.pids)
           /\ Len(s.file) \in Nat /\ DOMAIN s.file = 1 .. Len(s.file)
           /\ \A k \in DOMAIN s.file :
                  /\ s.file[k].word = "BO_" => s.file[k].gives \in Ids \cup {BadId}
                  /\ s.file[k].word = "SG_" /\ s.file[k].gives # <<>> =>
                         /\ s.file[k].gives.formula.start \in Nat
                         /\ s.file[k].gives.formula.bits \in Nat
    /\ Data \subseteq Seq(Bytes) /\ Pads \subseteq Bytes \cup {-1}
    /\ \A b \in Broadcasts :
           b.id \in Ids /\ b.id[1] < 8192 /\ b.data \in Seq(Bytes) /\ Len(b.data) <= 8
    /\ \A v \in VINs : v \in Seq(Bytes) /\ Len(v) = 17
    /\ \A q \in VinQueries : q.header \in Ids /\ q.mode \in Bytes

\* ISO 3779: a VIN has digits and upper-case letters only, and its last four
\* characters are digits.
ASSUME VINAssumption ==
    \A v \in VINs :
        /\ \A i \in DOMAIN v : v[i] \in (48 .. 57) \cup (65 .. 90)
        /\ \E i \in DOMAIN v : v[i] \in 48 .. 57

VARIABLES
    setup,     \* the template in use
    phase,     \* "idle", "asked", "onBus", "autopi", "vin", "number"
    asked,     \* the request asked last, 0 for none
    query,     \* the data of the frame that asked it
    answer,    \* the data of the answer after its PID, <<>> for a refusal or a broadcast
    frames,    \* frames on the bus the listener has not read; lines of the AutoPi
    read,      \* history: the frame the listener read last
    pushed,    \* signals the listener pushed in this exchange
    result     \* outcome of the AutoPi query, of the VIN query, or of the listener

decodingVars == <<setup, phase, asked, query, answer, frames, read, pushed, result>>

-----------------------------------------------------------------------------
\* The DBC file: a line is a word and what the line gives, a header or a
\* signal [name, formula]; <<>> stands for a signal without exactly one colon.

addPrevFilter(p) ==
    IF p.header = NoId \/ p.signals = <<>> THEN p
    ELSE IF p.header = BadId THEN [p EXCEPT !.failed = TRUE]
    ELSE [p EXCEPT !.filters = Append(@, [header |-> p.header, signals |-> p.signals])]

parseLine(p, line) ==
    IF p.failed THEN p
    ELSE CASE line.word = "BO_" ->
                [addPrevFilter(p) EXCEPT !.header = line.gives, !.signals = <<>>]
           [] line.word = "SG_" ->
                IF line.gives = <<>> THEN [p EXCEPT !.failed = TRUE]
                ELSE [p EXCEPT !.signals = Append(@, line.gives)]
           [] OTHER -> p

NothingParsed == [header |-> NoId, signals |-> <<>>, filters |-> <<>>, failed |-> FALSE]

ParsedLines(file) ==
    LET parsed[n \in 0 .. Len(file)] ==
            IF n = 0 THEN NothingParsed ELSE parseLine(parsed[n - 1], file[n])
    IN  parsed[Len(file)]

\* The signals left after the last line not drained, a variant.
parseDBCHeadersUndrained(file) ==
    LET p == ParsedLines(file) IN IF p.failed THEN <<>> ELSE p.filters

parseDBCHeaders(file) ==
    LET p == addPrevFilter(ParsedLines(file)) IN IF p.failed THEN <<>> ELSE p.filters

\* StartScanning goes on with a file it could read, or without a file.
Scans(s) == s.file = <<>> \/ parseDBCHeaders(s.file) # <<>>

-----------------------------------------------------------------------------
\* Headers: the identifier a request is expected to be answered with.

Extended(id) == id[1] > 0 \/ id[2] > 4095

ForceFirstTwoBytesAndSwapLast(id) == <<6362, (id[2] % 256) * 256 + (id[2] \div 256)>>

Functional11 == <<0, 2015>>        \* 0x7df
Functional29 == <<6363, 13297>>    \* 0x18db33f1

\* can_flow_control_id_pair comes first; BadId stands for one that gives 0.
ResponseHeader(request) ==
    CASE request.pair = BadId -> <<0, 0>>
      [] request.pair \notin {NoId, BadId} -> request.pair
      [] OTHER ->
           IF request.header = Functional11 THEN <<0, 2024>>
           ELSE IF request.header[1] = 0 /\ request.header[2] < 4095
                THEN <<0, request.header[2] + 8>>
           ELSE IF request.header = Functional29 THEN <<6362, 61747>>
           ELSE ForceFirstTwoBytesAndSwapLast(request.header)

RespHeaders(s) == {ResponseHeader(s.pids[i]) : i \in DOMAIN s.pids}

\* The filters of the socket; an identifier of 11 bits is compared by 11 bits.
MaskedBy11(id, header) == <<0, id[2] % 2048>>   \* a variant

Masked(id, header) ==
    IF Extended(header) THEN <<id[1] % 8192, id[2]>> ELSE <<0, id[2] % 2048>>

Filters(s) ==
    {parseDBCHeaders(s.file)[k].header : k \in DOMAIN parseDBCHeaders(s.file)}
        \cup RespHeaders(s)

Received(s, id) == \E h \in Filters(s) : Masked(id, h) = Masked(h, h)

\* findFilter, which compares the whole identifier: 0 for none.
findFilter(s, id) ==
    SelectInSeq(parseDBCHeaders(s.file), LAMBDA f : f.header = id)

(***************************************************************************)
(* The request a frame answers: the first of the template that claims it,  *)
(* 0 for none, -1 for a panic.  A PID of one byte is looked for in the     *)
(* third byte, which the code takes to be there; another in every pair of  *)
(* bytes but the last.                                                     *)
(***************************************************************************)
Standard(request) == request.pid > 0 /\ request.pid < 255

Claims(request, frame) ==
    /\ ResponseHeader(request) = frame.id
    /\ IF Standard(request)
       THEN Len(frame.data) < 3 \/ frame.data[3] = request.pid
       ELSE \E i \in 1 .. Len(frame.data) - 2 :
                BigEndian(SubSeq(frame.data, i, i + 1), 256) = request.pid

matchPID(s, frame) ==
    LET i == SelectInSeq(s.pids, LAMBDA r : Claims(r, frame))
    IN  IF i = 0 THEN 0
        ELSE IF Standard(s.pids[i]) /\ Len(frame.data) < 3 THEN -1 ELSE i

-----------------------------------------------------------------------------
\* Queries and answers.

\* util.UintToHexStr, as bytes.
UintToHex(n) == IF n > 255 THEN <<n \div 256, n % 256>> ELSE <<n>>

Filled(bytes, pad) ==
    IF pad = -1 THEN bytes ELSE bytes \o [i \in 1 .. 8 - Len(bytes) |-> pad]

SendCANQuery(request) ==
    Filled(<<IF request.pid > 255 THEN 3 ELSE 2, request.mode>> \o UintToHex(request.pid), 0)

(***************************************************************************)
(* The control unit.  It takes the mode and the PID from as many bytes as  *)
(* the first byte of the query says, and answers with mode + 64, the PID   *)
(* and data, or with a refusal.  The service 34 has identifiers of two     *)
(* bytes and refuses one of a single byte.                                 *)
(***************************************************************************)
PidOf(sent) == SubSeq(sent, 3, sent[1] + 1)

Positive(sent, d) ==
    <<sent[1] + Len(d), sent[2] + 64>> \o PidOf(sent) \o d

Refusal(sent) == <<3, 127, sent[2], 17>>

\* A positive answer has data, a refusal none.
AnswerData(sent, d, pad) ==
    Filled(IF d = <<>> THEN Refusal(sent) ELSE Positive(sent, d), pad)

Understood(sent) == sent[2] = 34 => Len(PidOf(sent)) = 2

\* The identifiers control units answer with.
AnswerIds(header) ==
    IF header = Functional11 THEN {<<0, 2024>>}
    ELSE IF header = Functional29 THEN {<<6362, 61712>>}       \* 0x18daf110
    ELSE IF Extended(header) THEN {ForceFirstTwoBytesAndSwapLast(header)}
    ELSE {<<0, header[2] + 8>>}

AnswerIdOf(request) ==
    IF request.pair \in Ids THEN {request.pair} ELSE AnswerIds(request.header)

\* A frame as a line of the AutoPi: the digits of identifier and data.
IdDigits(id) ==
    IF Extended(id) THEN Hex(<<id[1] \div 256, id[1] % 256, id[2] \div 256, id[2] % 256>>)
    ELSE <<id[2] \div 256, (id[2] \div 16) % 16, id[2] % 16>>

Line(id, data) == IdDigits(id) \o Hex(data)

\* ISO 15765: 20 bytes in a first frame and two consecutive ones.
Segments(bytes) ==
    << <<16, 20>> \o SubSeq(bytes, 1, 6), <<33>> \o SubSeq(bytes, 7, 13),
       <<34>> \o SubSeq(bytes, 14, 20) >>

VinAnswer(q, id, vin) ==
    LET bytes == IF q.mode = 9 THEN <<73, 2, 1>> \o vin ELSE <<98, 241, 144>> \o vin
    IN  [k \in 1 .. 3 |-> Line(id, Segments(bytes)[k])]

-----------------------------------------------------------------------------
NoFrame == [id |-> NoId, data |-> <<>>]

DecodingInit ==
    /\ setup \in Setups
    /\ phase = "idle" /\ asked = 0 /\ query = <<>> /\ answer = <<>>
    /\ frames = <<>> /\ read = NoFrame /\ pushed = <<>> /\ result = Error

\* queryOBD in native mode sends the query of request i.
AsksNative(i) ==
    /\ phase = "idle" /\ Scans(setup)
    /\ phase' = "asked" /\ asked' = i
    /\ query' = SendCANQuery(setup.pids[i])
    /\ UNCHANGED <<setup, answer, frames, read, pushed, result>>

\* The control unit answers, or refuses.
Answers ==
    /\ phase = "asked"
    /\ phase' = "onBus"
    /\ \E id \in AnswerIdOf(setup.pids[asked]), d \in Data, pad \in Pads :
          /\ answer' \in (IF Understood(query) THEN {d, <<>>} ELSE {<<>>})
          /\ frames' = <<[id |-> id, data |-> AnswerData(query, answer', pad)]>>
    /\ UNCHANGED <<setup, asked, query, read, pushed, result>>

VehicleBroadcasts ==
    /\ phase = "idle" /\ Scans(setup)
    /\ phase' = "onBus"
    /\ \E f \in Broadcasts : frames' = <<f>>
    /\ UNCHANGED <<setup, asked, query, answer, read, pushed, result>>

\* What one frame makes StartScanning push.
PushedFor(s, f) ==
    IF f.id \in RespHeaders(s)
    THEN LET i == matchPID(s, f)
             v == ParsePIDBytesWithDBCFormula(f.data, s.pids[i].pid, s.pids[i].formula)
         IN  IF i > 0 /\ v.kind = "value" THEN <<[name |-> s.pids[i].name, value |-> v.value]>> ELSE <<>>
    ELSE LET signals == parseDBCHeaders(s.file)[findFilter(s, f.id)].signals
         IN  [k \in DOMAIN signals |->
                 [name |-> signals[k].name,
                  value |-> DecodePassiveFrame(f.data, signals[k].formula).value]]

\* A frame without a filter of its own, or too short, ends the process.
Panics(s, f) ==
    IF f.id \in RespHeaders(s) THEN matchPID(s, f) = -1 ELSE findFilter(s, f.id) = 0

\* One turn of the loop of StartScanning; the kernel drops what no filter passes.
ListenerReads ==
    /\ phase = "onBus" /\ frames # <<>>
    /\ frames' = Tail(frames)
    /\ read' = Head(frames)
    /\ IF ~Received(setup, Head(frames).id)
       THEN UNCHANGED <<pushed, result>>
       ELSE IF Panics(setup, Head(frames))
       THEN result' = Panic /\ UNCHANGED pushed
       ELSE pushed' = pushed \o PushedFor(setup, Head(frames)) /\ UNCHANGED result
    /\ UNCHANGED <<setup, phase, asked, query, answer>>

\* A variant that decodes the first line only.
FirstOnly(lines, request) ==
    ExtractAndDecodeWithDBCFormula(lines[1], Hex(UintToHex(request.pid)), request.formula)

\* The values of several lines: the first that can be decoded, or the last error.
FirstDecoded(lines, request) ==
    LET decoded == [k \in DOMAIN lines |->
            ExtractAndDecodeWithDBCFormula(lines[k], Hex(UintToHex(request.pid)), request.formula)]
        good == SelectInSeq(decoded, LAMBDA v : v.kind # "error")
    IN  IF good = 0 THEN Error ELSE decoded[good]

\* queryOBDWithAP of request i: the AutoPi may have the answers of two units.
AsksAutoPi(i) ==
    /\ phase = "idle"
    /\ phase' = "autopi" /\ asked' = i
    /\ LET request == setup.pids[i]
           sent    == SendCANQuery(request)
           other   == Line(<<0, 2025>>, Refusal(sent))
       IN  \E id \in AnswerIdOf(request), d \in Data, pad \in Pads :
             /\ query' = sent
             /\ answer' \in (IF Understood(sent) THEN {d, <<>>} ELSE {<<>>})
             /\ LET line == Line(id, AnswerData(sent, answer', pad))
                IN  frames' \in {<<line>>, <<other, line>>}
             /\ result' = FirstDecoded(frames', request)
    /\ UNCHANGED <<setup, read, pushed>>

\* One query of GetVIN, answered by one unit; another may have refused before.
AsksVIN(q) ==
    /\ phase = "idle"
    /\ phase' = "vin" /\ query' = <<2, q.mode>>
    /\ \E vin \in VINs, id \in AnswerIds(q.header), pad \in Pads :
          LET refused == Line(id, Filled(<<3, 127, q.mode, 120>>, pad))
          IN  /\ answer' = vin
              /\ frames' \in {VinAnswer(q, id, vin), <<refused>> \o VinAnswer(q, id, vin)}
              /\ result' = extractVIN(frames')
    /\ UNCHANGED <<setup, asked, read, pushed>>

\* The AutoPi answers request i with a number instead of frames, which
\* queryOBDWithAP takes as the value, without the formula.
NumberForPID(i) ==
    /\ phase = "idle"
    /\ phase' = "number" /\ asked' = i
    /\ query' = SendCANQuery(setup.pids[i])
    /\ \E d \in Data : result' = Number(1000 * d[1])
    /\ UNCHANGED <<setup, answer, frames, read, pushed>>

\* It answers a VIN query with a number, which GetVIN asserts to be a string.
NumberForVIN(q) ==
    /\ phase = "idle"
    /\ phase' = "number" /\ query' = <<2, q.mode>>
    /\ result' = VinPanic
    /\ UNCHANGED <<setup, asked, answer, frames, read, pushed>>

\* The exchange is over; a panic ended the process.
Rests ==
    /\ phase \in {"autopi", "vin", "number"} \/ (phase = "onBus" /\ frames = <<>>)
    /\ result.kind # "panic"
    /\ phase' = "idle" /\ asked' = 0 /\ query' = <<>> /\ answer' = <<>>
    /\ frames' = <<>> /\ read' = NoFrame /\ pushed' = <<>> /\ result' = Error
    /\ UNCHANGED setup

DecodingNext ==
    \/ \E i \in DOMAIN setup.pids : AsksNative(i) \/ AsksAutoPi(i) \/ NumberForPID(i)
    \/ \E q \in VinQueries : AsksVIN(q) \/ NumberForVIN(q)
    \/ Answers
    \/ VehicleBroadcasts
    \/ ListenerReads
    \/ Rests

DecodingSpec == DecodingInit /\ [][DecodingNext]_decodingVars

-----------------------------------------------------------------------------
Asked == setup.pids[asked]

\* A request whose answer the device can expect: not the functional address of
\* 29 bits without a pair, nor 0xfff, whose answers come from an identifier the
\* code does not expect; no identifier of two bytes written as one; and neither
\* PID 0 nor 255, which matchPID looks for where no answer has it.
Addressed ==
    /\ Asked.pair # BadId
    /\ Asked.header \in {Functional29, <<0, 4095>>} => Asked.pair # NoId
    /\ Asked.pid \notin {0, 255}
    /\ Understood(query)

\* The number the data of an answer stand for.
Reference(data, formula) ==
    Scaled(BigEndian(data, 256), formula)

Expected == IF answer = <<>> THEN Error ELSE Reference(answer, Asked.formula)

RightLength == answer = <<>> \/ Len(answer) = NumBytes(Asked.formula)

\* The bytes before the last byte of the PID, all of them in a refusal.
BytesBefore ==
    SubSeq(read.data, 1, IF answer = <<>> THEN Len(read.data) ELSE 1 + Len(PidOf(query)))

\* When the listener has read the answer to a query, it has pushed exactly the
\* number the data stand for, under the name of the request, and nothing after
\* a refusal or for a number out of range (StartScanning, matchPID,
\* ParsePIDBytesWithDBCFormula); unless the last byte of the PID is found
\* before its place or an earlier request of the template claims the frame.
NativeIsReference ==
    /\ phase = "onBus" /\ asked # 0 /\ frames = <<>>
    /\ Addressed /\ RightLength
    /\ matchPID(setup, read) \in {0, asked}
    /\ IndexOf(BytesBefore, <<Asked.pid % 256>>) = -1
    => pushed = IF Expected.kind = "error" THEN <<>>
                ELSE <<[name |-> Asked.name, value |-> Expected.value]>>

\* Digits of the identifier in a line, in which all bytes have two digits.
IdLength(line) == IF Len(line) % 2 = 0 THEN 8 ELSE 3

\* A line in which the digits of the PID are found where the PID is, and not at
\* all if it is a refusal.
ClearLine(k) ==
    LET found == IndexOf(SubSeq(frames[k], 8, Len(frames[k])), Hex(PidOf(query)))
    IN  IF k < Len(frames) \/ answer = <<>> THEN found = -1
        ELSE found + 7 = IdLength(frames[k]) + 4

\* An AutoPi query answered with frames gives the number the data of the answer
\* stand for, whichever line it comes in, and an error after a refusal or for a number out of range
\* (queryOBDWithAP, ExtractAndDecodeWithDBCFormula); unless the digits of the PID
\* are found before their place, between two bytes as well as at one.
AutoPiIsReference ==
    /\ phase = "autopi"
    /\ Understood(query) /\ RightLength
    /\ \A k \in DOMAIN frames : ClearLine(k)
    => result = Expected

\* The lines with a header, and those of the signals written under one of them.
HeadersOf(file, h) == {k \in DOMAIN file : file[k].word = "BO_" /\ file[k].gives = h}

SignalsUnder(file, at) ==
    {k \in at + 1 .. Len(file) :
        file[k].word = "SG_" /\ \A j \in at + 1 .. k : file[j].word # "BO_"}

\* A signal of whole bytes, counted from bit 7 of the first.
WholeBytes(formula) == formula.start % 8 = 7 /\ formula.bits >= 8

\* The number such a signal stands for in a frame, 0 when the frame is too short
\* for it or the number is out of range.
BroadcastReference(data, formula) ==
    LET first == (formula.start - 7) \div 8
        v == Reference(SubSeq(data, first + 1, first + NumBytes(formula)), formula)
    IN  IF first + NumBytes(formula) > Len(data) THEN 0 ELSE RoundToTwoDecimals(v.value)

\* A broadcast frame whose identifier the DBC file has once, and no request
\* expects, gives exactly the signals the file lists under that header, in their
\* order, those of whole bytes with their numbers (parseDBCHeaders, findFilter,
\* DecodePassiveFrame).
BroadcastIsReference ==
    /\ phase = "onBus" /\ asked = 0 /\ frames = <<>> /\ read.id \notin RespHeaders(setup)
    => \A at \in DOMAIN setup.file :
         LET under == SignalsUnder(setup.file, at)
         IN  HeadersOf(setup.file, read.id) = {at} /\ under # {} =>
                /\ Len(pushed) = Cardinality(under)
                /\ \A k \in under :
                      LET signal == setup.file[k].gives
                          sent   == pushed[Cardinality({j \in under : j <= k})]
                      IN  /\ sent.name = signal.name
                          /\ WholeBytes(signal.formula) =>
                                 sent.value = BroadcastReference(read.data, signal.formula)

\* A frame or an answer ends the process in four cases only: a frame too short
\* for the third byte of a PID; a frame that passes a filter of 11 bits, or one
\* whose header has more than 29, with another identifier; an AutoPi answer with
\* less data than the formula takes, or with the digits of the PID at another
\* place; and a VIN query the AutoPi answers with a number (matchPID,
\* buildCanFilters with findFilter, ExtractAndDecodeWithDBCFormula, GetVIN).
PanicsKnown ==
    result.kind = "panic" =>
        \/ /\ phase = "onBus" /\ read.id \in RespHeaders(setup)
           /\ Len(read.data) < 3
        \/ /\ phase = "onBus"
           /\ \E h \in Filters(setup) :
                 h # read.id /\ (h[1] > 8191 \/ (~Extended(h) /\ h[2] % 2048 = read.id[2] % 2048))
        \/ /\ phase = "autopi"
           /\ Len(answer) < NumBytes(Asked.formula) \/ \E k \in DOMAIN frames : ~ClearLine(k)
        \/ phase = "number" /\ asked = 0

\* Of the standard answers to a VIN query, with mode 9 and with service 34, from
\* identifiers of 11 and of 29 bits, with a refusal of the unit before them or
\* without, the VIN is extracted whole (extractVIN, findVINLineStart); unless the
\* refusal is filled up with a byte that is an upper-case letter or a digit.
VinExtracted ==
    /\ phase = "vin"
    /\ Len(frames) = 4 =>
           Cleaned(SubSeq(frames[1], IdLength(frames[1]) + 1, Len(frames[1]))) = <<>>
    => result = [kind |-> "vin", vin |-> answer]

=============================================================================
