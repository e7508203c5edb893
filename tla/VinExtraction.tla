---------------------------- MODULE VinExtraction ----------------------------
(***************************************************************************)
(* How a VIN is found in the lines of hexadecimal digits the AutoPi        *)
(* answers a VIN query with (extractVIN, findVINLineStart and validateVIN  *)
(* of internal/loggers/vin_logger.go).  A line is a sequence of digits:    *)
(* the identifier of a frame and its data.  A decoded text is the sequence *)
(* of its bytes, in UTF-8 as in Go.                                        *)
(***************************************************************************)
EXTENDS DbcFormula

NoVIN    == [kind |-> "error", vin |-> <<>>]
VinPanic == [kind |-> "panic", vin |-> <<>>]

\* The least of a set of numbers.
Least(S) == CHOOSE i \in S : \A j \in S : i <= j

\* The lines that are long enough to be part of the answer, and the first of them.
Content(lines) == {k \in DOMAIN lines : Len(lines[k]) >= 5}

FirstLine(lines) == lines[Least(Content(lines))]

\* What the comparison of these lines with the first of them at an offset ends
\* in: a line that is too short for it, or one that differs, whichever comes first.
ComparedAt(lines, i) ==
    LET bad == {k \in Content(lines) :
                   Len(lines[k]) <= i \/ lines[k][i + 1] # FirstLine(lines)[i + 1]}
    IN  IF bad = {} THEN "same"
        ELSE IF Len(lines[Least(bad)]) <= i THEN "short" ELSE "differs"

(***************************************************************************)
(* The offset at which the lines begin to differ, less one.  A difference  *)
(* at the default offset is not told from none.  -2 stands for a panic.    *)
(***************************************************************************)
findVINLineStart(lines) ==
    LET ends == IF Content(lines) = {} THEN {}
                ELSE {i \in 0 .. Len(FirstLine(lines)) - 1 :
                         \/ ComparedAt(lines, i) = "short"
                         \/ ComparedAt(lines, i) = "differs" /\ i # 5}
    IN  IF ends = {} THEN 4
        ELSE IF ComparedAt(lines, Least(ends)) = "short" THEN -2 ELSE Least(ends) - 1

\* string(b) of a byte: one or two bytes of UTF-8.
Utf8(b) == IF b < 128 THEN <<b>> ELSE <<192 + (b \div 64), 128 + (b % 64)>>

\* unicode.IsUpper and unicode.IsDigit of the characters a byte can be.
Clean(b) == b \in (48 .. 57) \cup (65 .. 90) \cup (192 .. 214) \cup (216 .. 222)

\* An odd number of digits loses the first of them; a variant loses the last.
EvenedAtEnd(digits) == IF Len(digits) % 2 # 0 THEN Front(digits) ELSE digits

Evened(digits) == IF Len(digits) % 2 # 0 THEN Tail(digits) ELSE digits

\* The characters of some bytes, one after the other.
Text(bytes) ==
    LET text[n \in 0 .. Len(bytes)] == IF n = 0 THEN <<>> ELSE text[n - 1] \o Utf8(bytes[n])
    IN  text[Len(bytes)]

\* The text of a line from its first upper-case letter or digit on.
Cleaned(digits) ==
    LET even  == Evened(digits)
        bytes == [i \in 1 .. Len(even) \div 2 |-> 16 * even[2 * i - 1] + even[2 * i]]
        first == SelectInSeq(bytes, Clean)
    IN  IF first = 0 THEN <<>>
        ELSE Text(SubSeq(bytes, first, Len(bytes)))

\* The expression is not anchored: one hexadecimal digit is enough.
validateVIN(vin) ==
    /\ Len(vin) = 17
    /\ \E i \in 1 .. 17 : vin[i] \in (48 .. 57) \cup (65 .. 70) \cup (97 .. 102)

\* What the lines give from an offset on, until there is enough for a VIN.
Gathered(lines, start) ==
    LET text[n \in 0 .. Len(lines)] ==
            IF n = 0 THEN <<>>
            ELSE IF Len(lines[n]) >= 6 /\ Len(text[n - 1]) < 17
            THEN text[n - 1] \o Cleaned(SubSeq(lines[n], start + 1, Len(lines[n])))
            ELSE text[n - 1]
    IN  text[Len(lines)]

extractVIN(lines) ==
    LET start == findVINLineStart(lines)
        text  == Gathered(lines, start)
        vin   == SubSeq(text, IF Len(text) > 17 THEN Len(text) - 16 ELSE 1, Len(text))
    IN  IF start < 0 \/ \E k \in DOMAIN lines : Len(lines[k]) >= 6 /\ start > Len(lines[k])
        THEN VinPanic
        ELSE IF validateVIN(vin) THEN [kind |-> "vin", vin |-> vin] ELSE NoVIN
=============================================================================
