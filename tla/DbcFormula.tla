----------------------------- MODULE DbcFormula -----------------------------
(***************************************************************************)
(* The three decoders of internal/loggers/dbc_formula_decoder.go, which    *)
(* turn the answer of a control unit, or a frame it broadcasts, into a     *)
(* number by a formula "start|bits@order+ (scale,offset) [min|max] unit".  *)
(* A formula is a record; scale, offset, min and max are in thousandths,   *)
(* and so is a decoded number.  Bytes and hexadecimal digits are sequences *)
(* of numbers.  A formula that does not match the regular expression is    *)
(* left out: it is an error of every decoder.                              *)
(***************************************************************************)
EXTENDS Integers, Sequences, SequencesExt

Error == [kind |-> "error", value |-> 0]   \* every error comes with the number 0
Panic == [kind |-> "panic", value |-> 0]
Number(v) == [kind |-> "value", value |-> v]

\* strconv.ParseUint(valueHex, 16, 64) of digits, or of bytes written as digits.
BigEndian(digits, base) ==
    LET value[n \in 0 .. Len(digits)] ==
            IF n = 0 THEN 0 ELSE value[n - 1] * base + digits[n]
    IN  value[Len(digits)]

\* Two digits for each byte, the higher one first.
Hex(bytes) ==
    [k \in 1 .. 2 * Len(bytes) |->
        IF k % 2 = 1 THEN bytes[(k + 1) \div 2] \div 16 ELSE bytes[k \div 2] % 16]

NumBytes(formula) == formula.bits \div 8

\* The formula applied to a number, with the validation of the range.
Scaled(number, formula) ==
    LET decoded == number * formula.scale + formula.offset
    IN  IF decoded < formula.min \/ decoded > formula.max THEN Error ELSE Number(decoded)

RoundToTwoDecimals(v) ==
    IF v < 0 THEN -((5 - v) \div 10) * 10 ELSE ((v + 5) \div 10) * 10

\* strings.Index: the offset of the first occurrence, -1 without any.
IndexOf(s, t) ==
    LET at == {i \in 0 .. Len(s) - Len(t) : SubSeq(s, i + 1, i + Len(t)) = t}
    IN  IF at = {} THEN -1 ELSE CHOOSE i \in at : \A j \in at : i <= j

(***************************************************************************)
(* The decoder of the AutoPi path: the digits of header and data, searched *)
(* for the digits of the PID from the eighth on.  The test for enough data *)
(* leaves out the digits of the PID itself.                                *)
(***************************************************************************)
ExtractAndDecodeWithDBCFormula(hexData, pid, formula) ==
    LET skipped  == IF Len(hexData) > 7 THEN 7 ELSE 0
        pidIndex == IndexOf(SubSeq(hexData, skipped + 1, Len(hexData)), pid)
        from     == pidIndex + 7 + Len(pid)
        digits   == 2 * NumBytes(formula)
    IN  IF pidIndex = -1 \/ pidIndex + 7 + digits > Len(hexData) THEN Error
        ELSE IF from + digits > Len(hexData) THEN Panic   \* hexData[from:] beyond its end
        ELSE IF digits = 0 THEN Error
        ELSE Scaled(BigEndian(SubSeq(hexData, from + 1, from + digits), 16), formula)

\* The value taken from the byte of the PID itself on, a variant of the decoder below.
ParseFromPid(frameData, pid, formula) ==
    LET at == IndexOf(frameData, <<pid % 256>>)
    IN  IF pid = 0 \/ at <= 0 \/ at + NumBytes(formula) > Len(frameData)
        THEN Error
        ELSE Scaled(BigEndian(SubSeq(frameData, at + 1, at + NumBytes(formula)), 256), formula)

(***************************************************************************)
(* The decoder of the native path: the data bytes alone, searched for the  *)
(* last byte of the PID.  Fewer bytes than the formula asks for are        *)
(* decoded as they are.                                                    *)
(***************************************************************************)
ParsePIDBytesWithDBCFormula(frameData, pid, formula) ==
    LET at  == IndexOf(frameData, <<pid % 256>>)
        end == IF at + 1 + NumBytes(formula) > Len(frameData)
               THEN Len(frameData) ELSE at + 1 + NumBytes(formula)
    IN  IF pid = 0 \/ at <= 0 \/ at + 1 = end
        THEN Error
        ELSE Scaled(BigEndian(SubSeq(frameData, at + 2, end), 256), formula)

(***************************************************************************)
(* The decoder of broadcast frames: the start position, counted from bit   *)
(* 7 on, gives the first byte.                                             *)
(***************************************************************************)
StartByte(formula) ==
    LET from7 == IF formula.start >= 7 THEN formula.start - 7 ELSE formula.start
        even  == IF from7 % 2 # 0 THEN from7 + 1 ELSE from7
    IN  even \div 8

DecodePassiveFrame(frameData, formula) ==
    LET start == StartByte(formula)
        end   == start + NumBytes(formula)
    IN  IF Len(frameData) < end \/ start = end
        THEN Error
        ELSE LET decoded == Scaled(BigEndian(SubSeq(frameData, start + 1, end), 256), formula)
             IN  [decoded EXCEPT !.value = RoundToTwoDecimals(@)]
=============================================================================
