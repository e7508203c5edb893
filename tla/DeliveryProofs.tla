--------------------------- MODULE DeliveryProofs ---------------------------
(***************************************************************************)
(* Proofs about the two components that hand something on to the cloud:    *)
(* the hook that limits how often a message of the log is sent             *)
(* (LogRateLimiter), for any goroutines, any threshold and any number of   *)
(* events, and the buffer of messages (MqttStore), for every finite set of *)
(* messages and every limit.                                               *)
(***************************************************************************)
EXTENDS Delivery, FiniteSetTheorems, TLAPS

(* The hook. *)

Types ==
    /\ errorCounts \in Nat /\ sends \in Nat /\ printed \in Nat
    /\ pc \in [Threads -> {"idle", "decide", "send", "reset", "print"}]
    /\ count \in [Threads -> Nat]

\* The threads whose event will still be printed.
Printing == {t \in Threads : pc[t] # "idle" /\ count[t] <= stopLogAfter}

\* The threads that have sent and not yet reset the count.
Resetting == {t \in Threads : pc[t] = "reset"}

\* What the present count has opened to be printed.
Opened == IF errorCounts <= stopLogAfter THEN errorCounts ELSE stopLogAfter

\* The payloads whose reset has been made.
ResetsDone == sends - Cardinality(Resetting)

\* Each reset that was made pays for stopLogAfter events, the present count for
\* those it has opened.
PrintedPaid ==
    /\ IsFiniteSet(Printing) /\ IsFiniteSet(Resetting)
    /\ Cardinality(Resetting) <= sends
    /\ printed + Cardinality(Printing) <= stopLogAfter * ResetsDone + Opened

LimiterInv == Types /\ PrintedPaid /\ ThresholdIsSent

\* Sizes of a finite set when one thread comes or goes.
LEMMA Sizes ==
    ASSUME NEW S, IsFiniteSet(S), NEW t
    PROVE  /\ Cardinality(S) \in Nat
           /\ IsFiniteSet(S \cup {t}) /\ IsFiniteSet(S \ {t})
           /\ Cardinality(S \cup {t}) \in Nat
           /\ Cardinality(S \ {t}) \in Nat
           /\ Cardinality(S \cup {t}) <= Cardinality(S) + 1
           /\ Cardinality(S \ {t}) <= Cardinality(S)
           /\ t \in S => Cardinality(S \ {t}) = Cardinality(S) - 1
<1>1. /\ IsFiniteSet(S \cup {t}) /\ IsFiniteSet(S \ {t})
      /\ Cardinality(S \cup {t}) = IF t \in S
                                   THEN Cardinality(S)
                                   ELSE Cardinality(S) + 1
      /\ Cardinality(S \ {t}) = IF t \in S
                                THEN Cardinality(S) - 1
                                ELSE Cardinality(S)
    BY FS_AddElement, FS_RemoveElement
<1>2. /\ Cardinality(S) \in Nat
      /\ Cardinality(S \cup {t}) \in Nat
      /\ Cardinality(S \ {t}) \in Nat
    BY <1>1, FS_CardinalityType
<1> QED BY <1>1, <1>2

\* Nothing is counted at first.
LEMMA InitHolds == LimiterInit => LimiterInv
<1> SUFFICES ASSUME LimiterInit PROVE LimiterInv
    OBVIOUS
<1>1. Printing = {} /\ Resetting = {}
    BY DEF LimiterInit, Printing, Resetting
<1>2. IsFiniteSet({}) /\ Cardinality({}) = 0
    BY FS_EmptySet
<1>3. PrintedPaid
    <2>1. ResetsDone = 0 /\ Opened = 0 /\ printed = 0 /\ sends = 0
        BY <1>1, <1>2, LimiterAssumption
        DEF LimiterInit, ResetsDone, Opened
    <2>2. stopLogAfter * 0 = 0
        BY LimiterAssumption
    <2> QED BY <1>1, <1>2, <2>1, <2>2 DEF PrintedPaid
<1> QED BY <1>3, LimiterAssumption DEF LimiterInit, LimiterInv, Types, ThresholdIsSent

\* The types are kept by every step.
LEMMA TypesStep ==
    ASSUME Types, [HookNext]_limiterVars
    PROVE  Types'
<1> USE LimiterAssumption DEF Types, Goes
<1>1. ASSUME NEW t \in Threads, Counts(t) PROVE Types'
    BY <1>1 DEF Counts
<1>2. ASSUME NEW t \in Threads, Decides(t) \/ SendFails(t) \/ Resets(t)
      PROVE  Types'
    BY <1>2 DEF Decides, SendFails, Resets
<1>3. ASSUME NEW t \in Threads, Sends(t) PROVE Types'
    BY <1>3 DEF Sends
<1>4. ASSUME NEW t \in Threads, Prints(t) PROVE Types'
    BY <1>4 DEF Prints
<1>5. CASE UNCHANGED limiterVars
    BY <1>5 DEF limiterVars
<1> QED BY <1>1, <1>2, <1>3, <1>4, <1>5 DEF HookNext

\* One more reset pays for stopLogAfter more events.
LEMMA OneMore ==
    ASSUME NEW r \in Nat
    PROVE  /\ stopLogAfter * (r + 1) = stopLogAfter * r + stopLogAfter
           /\ stopLogAfter * r \in Nat /\ stopLogAfter * (r + 1) \in Nat
BY LimiterAssumption

\* What was printed stays paid for: an event is paid for when it is counted,
\* whenever it is printed, and a reset turns what the count had opened into
\* what a payload pays for.
LEMMA PaidStep ==
    ASSUME Types, PrintedPaid, [HookNext]_limiterVars
    PROVE  PrintedPaid'
<1> DEFINE P == Cardinality(Printing)
<1> DEFINE R == Cardinality(Resetting)
<1>1. /\ errorCounts \in Nat /\ sends \in Nat /\ printed \in Nat
      /\ pc \in [Threads -> {"idle", "decide", "send", "reset", "print"}]
      /\ count \in [Threads -> Nat] /\ stopLogAfter \in Nat
      /\ IsFiniteSet(Printing) /\ IsFiniteSet(Resetting)
      /\ P \in Nat /\ R \in Nat /\ R <= sends
      /\ Opened \in Nat /\ Opened <= stopLogAfter
      /\ printed + P <= stopLogAfter * (sends - R) + Opened
    BY LimiterAssumption, FS_CardinalityType
    DEF Types, PrintedPaid, ResetsDone, Opened
<1>2. sends - R \in Nat /\ stopLogAfter * (sends - R) \in Nat
    BY <1>1, OneMore
<1>3. ASSUME Printing' = Printing, Resetting' = Resetting, sends' = sends,
             errorCounts' = errorCounts, printed' = printed
      PROVE  PrintedPaid'
    BY <1>1, <1>3 DEF PrintedPaid, ResetsDone, Opened
<1>4. ASSUME NEW t \in Threads, Counts(t) PROVE PrintedPaid'
    <2>1. /\ sends' = sends /\ printed' = printed
          /\ errorCounts' = errorCounts + 1 /\ pc[t] = "idle"
          /\ pc' = [pc EXCEPT ![t] = "decide"]
          /\ count' = [count EXCEPT ![t] = errorCounts + 1]
        BY <1>4 DEF Counts, Goes
    <2>2. Resetting' = Resetting
        BY <1>1, <2>1 DEF Resetting
    <2>3. Printing' = IF errorCounts + 1 <= stopLogAfter
                      THEN Printing \cup {t} ELSE Printing
        BY <1>1, <2>1 DEF Printing
    <2>4. /\ IsFiniteSet(Printing \cup {t}) /\ Cardinality(Printing \cup {t}) \in Nat
          /\ Cardinality(Printing \cup {t}) <= P + 1
        BY <1>1, Sizes
    <2>5. /\ errorCounts + 1 <= stopLogAfter => Opened' = Opened + 1
          /\ ~(errorCounts + 1 <= stopLogAfter) => Opened' = Opened
        BY <1>1, <2>1 DEF Opened
    <2>6. /\ IsFiniteSet(Printing') /\ ResetsDone' = sends - R
          /\ printed + Cardinality(Printing') <= stopLogAfter * (sends - R) + Opened'
        <3>1. ResetsDone' = sends - R
            BY <2>1, <2>2 DEF ResetsDone
        <3>2. CASE errorCounts + 1 <= stopLogAfter
            BY <1>1, <1>2, <2>3, <2>4, <2>5, <3>1, <3>2
        <3>3. CASE ~(errorCounts + 1 <= stopLogAfter)
            BY <1>1, <1>2, <2>3, <2>5, <3>1, <3>3
        <3> QED BY <3>2, <3>3
    <2> QED BY <1>1, <2>1, <2>2, <2>6 DEF PrintedPaid
<1>5. ASSUME NEW t \in Threads, Decides(t) \/ SendFails(t)
      PROVE  PrintedPaid'
    <2>1. /\ sends' = sends /\ printed' = printed /\ errorCounts' = errorCounts
          /\ count' = count /\ pc[t] \in {"decide", "send"}
          /\ pc' = [pc EXCEPT ![t] = "send"] \/ pc' = [pc EXCEPT ![t] = "print"]
        BY <1>5 DEF Decides, SendFails, Goes
    <2>2. Printing' = Printing /\ Resetting' = Resetting
        BY <1>1, <2>1 DEF Printing, Resetting
    <2> QED BY <1>3, <2>1, <2>2
<1>6. ASSUME NEW t \in Threads, Sends(t) PROVE PrintedPaid'
    <2>1. /\ sends' = sends + 1 /\ printed' = printed
          /\ errorCounts' = errorCounts /\ count' = count
          /\ pc[t] = "send" /\ pc' = [pc EXCEPT ![t] = "reset"]
        BY <1>6 DEF Sends, Goes
    <2>2. Printing' = Printing /\ Resetting' = Resetting \cup {t}
        BY <1>1, <2>1 DEF Printing, Resetting
    <2>3. t \notin Resetting
        BY <2>1 DEF Resetting
    <2>4. /\ IsFiniteSet(Resetting \cup {t})
          /\ Cardinality(Resetting \cup {t}) = R + 1
        BY <1>1, <2>3, FS_AddElement
    <2>5. ResetsDone' = sends - R /\ Opened' = Opened
        BY <1>1, <2>1, <2>2, <2>4 DEF ResetsDone, Opened
    <2> QED BY <1>1, <2>1, <2>2, <2>4, <2>5 DEF PrintedPaid
<1>7. ASSUME NEW t \in Threads, Resets(t) PROVE PrintedPaid'
    <2>1. /\ sends' = sends /\ printed' = printed /\ errorCounts' = 0
          /\ count' = count
          /\ pc[t] = "reset" /\ pc' = [pc EXCEPT ![t] = "print"]
        BY <1>7 DEF Resets, Goes
    <2>2. Printing' = Printing /\ Resetting' = Resetting \ {t} /\ t \in Resetting
        BY <1>1, <2>1 DEF Printing, Resetting
    <2>3. /\ IsFiniteSet(Resetting \ {t})
          /\ Cardinality(Resetting \ {t}) = R - 1
        BY <1>1, <2>2, Sizes
    <2>4. ResetsDone' = (sends - R) + 1 /\ Opened' = 0
        BY <1>1, <2>1, <2>2, <2>3 DEF ResetsDone, Opened
    <2>5. stopLogAfter * ((sends - R) + 1)
              = stopLogAfter * (sends - R) + stopLogAfter
        BY <1>2, OneMore
    <2>6. printed + P <= stopLogAfter * (sends - R) + stopLogAfter
        BY <1>1, <1>2
    <2>7. /\ Cardinality(Resetting') <= sends
          /\ printed' + Cardinality(Printing') <= stopLogAfter * ResetsDone' + Opened'
        BY <1>1, <1>2, <2>1, <2>2, <2>3, <2>4, <2>5, <2>6
    <2> QED BY <1>1, <2>1, <2>2, <2>3, <2>7 DEF PrintedPaid
<1>8. ASSUME NEW t \in Threads, Prints(t) PROVE PrintedPaid'
    <2>1. /\ sends' = sends /\ errorCounts' = errorCounts
          /\ count' = [count EXCEPT ![t] = 0]
          /\ printed' = IF count[t] > stopLogAfter THEN printed ELSE printed + 1
          /\ pc[t] = "print" /\ pc' = [pc EXCEPT ![t] = "idle"]
        BY <1>8 DEF Prints, Goes
    <2>2. Printing' = Printing \ {t} /\ Resetting' = Resetting
        BY <1>1, <2>1 DEF Printing, Resetting
    <2>3. ~(count[t] > stopLogAfter) => t \in Printing
        BY <1>1, <2>1 DEF Printing
    <2>4. /\ IsFiniteSet(Printing \ {t}) /\ Cardinality(Printing \ {t}) \in Nat
          /\ Cardinality(Printing \ {t}) <= P
          /\ t \in Printing => Cardinality(Printing \ {t}) = P - 1
        BY <1>1, Sizes
    <2>5. ResetsDone' = sends - R /\ Opened' = Opened
        BY <2>1, <2>2 DEF ResetsDone, Opened
    <2>6. printed' + Cardinality(Printing \ {t}) <= printed + P /\ printed' \in Nat
        BY <1>1, <2>1, <2>3, <2>4
    <2>7. printed' + Cardinality(Printing') <= stopLogAfter * ResetsDone' + Opened'
        BY <1>1, <1>2, <2>2, <2>4, <2>5, <2>6
    <2> QED BY <1>1, <2>1, <2>2, <2>4, <2>7 DEF PrintedPaid
<1>9. CASE UNCHANGED limiterVars
    BY <1>3, <1>9 DEF limiterVars, Printing, Resetting
<1> QED BY <1>4, <1>5, <1>6, <1>7, <1>8, <1>9 DEF HookNext

\* What is paid for is bounded: no more payloads were reset for than were sent.
LEMMA PaidIsBounded ==
    ASSUME Types, PrintedPaid
    PROVE  PrintedBounded
<1> DEFINE R == Cardinality(Resetting)
<1>1. /\ R \in Nat /\ R <= sends /\ sends \in Nat /\ printed \in Nat
      /\ stopLogAfter \in Nat
      /\ Cardinality(Printing) \in Nat
      /\ Opened \in Nat /\ Opened <= stopLogAfter
      /\ printed + Cardinality(Printing) <= stopLogAfter * (sends - R) + Opened
    BY LimiterAssumption, FS_CardinalityType
    DEF Types, PrintedPaid, ResetsDone, Opened
<1>2. sends - R \in Nat /\ stopLogAfter * (sends - R) \in Nat
    BY <1>1, OneMore
<1>3. stopLogAfter * (sends - R) <= stopLogAfter * sends
    <2>1. \A a, b, c \in Nat : a <= b => c * a <= c * b
        OBVIOUS
    <2> QED BY <1>1, <1>2, <2>1
<1>4. /\ stopLogAfter * (sends + 1) = stopLogAfter * sends + stopLogAfter
      /\ stopLogAfter * sends \in Nat
    BY <1>1, OneMore
<1>5. printed <= stopLogAfter * sends + stopLogAfter
    BY <1>1, <1>2, <1>3, <1>4
<1> QED BY <1>4, <1>5 DEF PrintedBounded

\* A thread that will send and reset, unless sending fails.
Sending(u) == count[u] >= threshold /\ pc[u] \in {"decide", "send", "reset"}

\* Whoever reached the threshold keeps its count until it has sent and reset.
LEMMA ThresholdStep ==
    ASSUME LimiterInv, [HookNext]_limiterVars
    PROVE  ThresholdIsSent'
<1> SUFFICES ASSUME errorCounts' >= threshold, failed' = "no"
             PROVE  \E u \in Threads : Sending(u)'
    BY DEF ThresholdIsSent, Sending
<1> USE DEF LimiterInv, Types, Goes, Sending
<1>1. ASSUME NEW t \in Threads, Counts(t)
      PROVE  \E u \in Threads : Sending(u)'
    BY <1>1 DEF Counts
<1>2. CASE errorCounts' = errorCounts /\ failed = "no"
    <2>1. PICK u \in Threads : Sending(u)
        BY <1>2 DEF ThresholdIsSent
    <2>2. ASSUME NEW t \in Threads, Decides(t)
          PROVE  Sending(u)'
        BY <2>1, <2>2 DEF Decides
    <2>3. ASSUME NEW t \in Threads, Sends(t)
          PROVE  Sending(u)'
        BY <2>1, <2>3 DEF Sends
    <2>4. ASSUME NEW t \in Threads, Resets(t)
          PROVE  FALSE
        BY <1>2, <2>4, LimiterAssumption DEF Resets
    <2>5. ASSUME NEW t \in Threads, SendFails(t)
          PROVE  FALSE
        BY <2>5 DEF SendFails
    <2>6. ASSUME NEW t \in Threads, Prints(t)
          PROVE  Sending(u)'
        BY <2>1, <2>6 DEF Prints
    <2>7. CASE UNCHANGED limiterVars
        BY <2>1, <2>7 DEF limiterVars
    <2> QED BY <1>1, <2>1, <2>2, <2>3, <2>4, <2>5, <2>6, <2>7 DEF HookNext
<1>3. ASSUME NEW t \in Threads, Resets(t)
      PROVE  FALSE
    BY <1>3, LimiterAssumption DEF Resets
<1>4. ASSUME NEW t \in Threads, Decides(t) \/ Sends(t) \/ SendFails(t) \/ Prints(t)
      PROVE  errorCounts' = errorCounts /\ failed = "no"
    BY <1>4 DEF Decides, Sends, SendFails, Prints
<1>5. CASE UNCHANGED limiterVars
    BY <1>2, <1>5 DEF limiterVars
<1> QED BY <1>1, <1>2, <1>3, <1>4, <1>5 DEF HookNext

\* The three lemmas together; a new process begins as the first did.
LEMMA StepHolds == LimiterInv /\ [LimiterNext]_limiterVars => LimiterInv'
<1>1. LimiterInv /\ [HookNext]_limiterVars => LimiterInv'
    BY TypesStep, PaidStep, ThresholdStep DEF LimiterInv
<1>2. LimiterRestarts => LimiterInv'
    <2>1. LimiterRestarts => LimiterInit'
        BY DEF LimiterRestarts, LimiterInit
    <2>2. LimiterInit' => LimiterInv'
        BY InitHolds, PTL
    <2> QED BY <2>1, <2>2
<1> QED BY <1>1, <1>2 DEF LimiterNext

\* The threads whose event may still be sent.
Pending == {t \in Threads : pc[t] \in {"decide", "send"}}

\* An event that was sent, or may be, was logged once.
SentOnce ==
    /\ events \in 0..MaxEvents /\ sends \in Nat /\ failed \in {"yes", "no"}
    /\ IsFiniteSet(Pending)
    /\ sends + Cardinality(Pending) <= events

\* Nothing is logged at first.
LEMMA SentInit == LimiterInit => SentOnce
<1> SUFFICES ASSUME LimiterInit PROVE SentOnce
    OBVIOUS
<1>1. Pending = {}
    BY DEF LimiterInit, Pending
<1>2. IsFiniteSet(Pending) /\ Cardinality(Pending) = 0
    BY <1>1, FS_EmptySet
<1> QED BY <1>2, LimiterAssumption DEF LimiterInit, SentOnce

\* Every step keeps the events that were sent below those that were logged.
LEMMA SentStep ==
    ASSUME Types, SentOnce, [HookNext]_limiterVars
    PROVE  SentOnce'
<1>1. /\ events \in 0..MaxEvents /\ sends \in Nat /\ failed \in {"yes", "no"}
      /\ IsFiniteSet(Pending) /\ sends + Cardinality(Pending) <= events
      /\ MaxEvents \in Nat
      /\ pc \in [Threads -> {"idle", "decide", "send", "reset", "print"}]
    BY LimiterAssumption DEF SentOnce, Types
<1>2. ASSUME NEW t \in Threads, Counts(t) PROVE SentOnce'
    <2>1. /\ events' = events + 1 /\ events < MaxEvents
          /\ sends' = sends /\ failed' = failed
          /\ pc' = [pc EXCEPT ![t] = "decide"]
        BY <1>2 DEF Counts, Goes
    <2>2. Pending' = Pending \cup {t}
        BY <1>1, <2>1 DEF Pending
    <2>3. /\ Cardinality(Pending) \in Nat
          /\ Cardinality(Pending \cup {t}) \in Nat
          /\ IsFiniteSet(Pending \cup {t})
          /\ Cardinality(Pending \cup {t}) <= Cardinality(Pending) + 1
        BY <1>1, Sizes
    <2>4. /\ IsFiniteSet(Pending') /\ events + 1 \in 0..MaxEvents
          /\ sends + Cardinality(Pending') <= events + 1
        BY <1>1, <2>1, <2>2, <2>3
    <2> QED BY <1>1, <2>1, <2>4 DEF SentOnce
<1>3. ASSUME NEW t \in Threads, Decides(t) PROVE SentOnce'
    <2>1. /\ events' = events /\ sends' = sends /\ failed' = failed
          /\ pc[t] = "decide"
          /\ pc' = [pc EXCEPT ![t] = "send"] \/ pc' = [pc EXCEPT ![t] = "print"]
        BY <1>3 DEF Decides, Goes
    <2>2. Pending' = Pending \/ Pending' = Pending \ {t}
        BY <1>1, <2>1 DEF Pending
    <2>3. IsFiniteSet(Pending') /\ sends + Cardinality(Pending') <= events
        <3>1. CASE Pending' = Pending
            BY <1>1, <3>1
        <3>2. CASE Pending' = Pending \ {t}
            <4>1. /\ Cardinality(Pending) \in Nat
                  /\ Cardinality(Pending \ {t}) \in Nat
                  /\ IsFiniteSet(Pending \ {t})
                  /\ Cardinality(Pending \ {t}) <= Cardinality(Pending)
                BY <1>1, Sizes
            <4> QED BY <1>1, <3>2, <4>1
        <3> QED BY <2>2, <3>1, <3>2
    <2> QED BY <1>1, <2>1, <2>3 DEF SentOnce
<1>4. ASSUME NEW t \in Threads, Sends(t) PROVE SentOnce'
    <2>1. /\ events' = events /\ sends' = sends + 1 /\ failed' = failed
          /\ pc[t] = "send" /\ pc' = [pc EXCEPT ![t] = "reset"]
        BY <1>4 DEF Sends, Goes
    <2>2. Pending' = Pending \ {t} /\ t \in Pending
        BY <1>1, <2>1 DEF Pending
    <2>3. /\ Cardinality(Pending) \in Nat /\ IsFiniteSet(Pending \ {t})
          /\ Cardinality(Pending \ {t}) = Cardinality(Pending) - 1
        BY <1>1, <2>2, Sizes
    <2>4. /\ IsFiniteSet(Pending') /\ sends + 1 \in Nat
          /\ sends + 1 + Cardinality(Pending') <= events
        BY <1>1, <2>2, <2>3
    <2> QED BY <1>1, <2>1, <2>4 DEF SentOnce
<1>5. ASSUME NEW t \in Threads, SendFails(t) PROVE SentOnce'
    <2>1. /\ events' = events /\ sends' = sends /\ failed' = "yes"
          /\ pc' = [pc EXCEPT ![t] = "print"]
        BY <1>5 DEF SendFails, Goes
    <2>2. Pending' = Pending \ {t}
        BY <1>1, <2>1 DEF Pending
    <2>3. /\ Cardinality(Pending) \in Nat
          /\ Cardinality(Pending \ {t}) \in Nat /\ IsFiniteSet(Pending \ {t})
          /\ Cardinality(Pending \ {t}) <= Cardinality(Pending)
        BY <1>1, Sizes
    <2>4. IsFiniteSet(Pending') /\ sends + Cardinality(Pending') <= events
        BY <1>1, <2>2, <2>3
    <2> QED BY <1>1, <2>1, <2>4 DEF SentOnce
<1>6. ASSUME NEW t \in Threads, Resets(t) \/ Prints(t) PROVE SentOnce'
    <2>1. /\ events' = events /\ sends' = sends /\ failed' = failed
          /\ pc[t] \in {"reset", "print"}
          /\ \/ pc' = [pc EXCEPT ![t] = "print"]
             \/ pc' = [pc EXCEPT ![t] = "idle"]
        BY <1>6 DEF Resets, Prints, Goes
    <2>2. Pending' = Pending
        BY <1>1, <2>1 DEF Pending
    <2> QED BY <1>1, <2>1, <2>2 DEF SentOnce
<1>7. CASE UNCHANGED limiterVars
    BY <1>7 DEF limiterVars, SentOnce, Pending
<1> QED BY <1>2, <1>3, <1>4, <1>5, <1>6, <1>7 DEF HookNext

\* Every variable keeps its type, and no event is sent twice
\* (loghooks.go:71).
THEOREM LimiterTypeCorrect == LimiterSpec => []LimiterTypeOK
<1>1. LimiterInv /\ SentOnce /\ [LimiterNext]_limiterVars => LimiterInv' /\ SentOnce'
    <2>1. LimiterInv /\ SentOnce /\ [HookNext]_limiterVars => SentOnce'
        BY SentStep DEF LimiterInv
    <2>2. LimiterRestarts => LimiterInit'
        BY DEF LimiterRestarts, LimiterInit
    <2>3. LimiterInit' => SentOnce'
        BY SentInit, PTL
    <2> QED BY <2>1, <2>2, <2>3, StepHolds DEF LimiterNext
<1>2. LimiterInv /\ SentOnce => LimiterTypeOK
    <2> SUFFICES ASSUME LimiterInv, SentOnce PROVE LimiterTypeOK
        OBVIOUS
    <2>1. Cardinality(Pending) \in Nat
        BY FS_CardinalityType DEF SentOnce
    <2>2. sends \in 0..events
        BY <2>1, LimiterAssumption DEF SentOnce
    <2> QED BY <2>2 DEF LimiterTypeOK, LimiterInv, Types, SentOnce
<1> QED BY InitHolds, SentInit, <1>1, <1>2, PTL DEF LimiterSpec

\* No more than stopLogAfter events are printed for each payload that was sent,
\* and as many before the first (loghooks.go:65-77).
THEOREM PrintedHolds == LimiterSpec => []PrintedBounded
<1>1. LimiterInv => PrintedBounded
    BY PaidIsBounded DEF LimiterInv
<1> QED BY InitHolds, StepHolds, <1>1, PTL DEF LimiterSpec

\* A count at the threshold is never left behind (loghooks.go:71).
THEOREM ThresholdHolds == LimiterSpec => []ThresholdIsSent
<1>1. LimiterInv => ThresholdIsSent
    BY DEF LimiterInv
<1> QED BY InitHolds, StepHolds, <1>1, PTL DEF LimiterSpec
-----------------------------------------------------------------------------
(* The buffer. *)

\* The counter is never below what the directory holds: acknowledgements only
\* delete files, and a restart counts them again.
CounterCovers ==
    /\ TypeOK
    /\ Cardinality(files) <= Limit
    /\ isRead = "yes" => Cardinality(files) <= counter
    /\ acks \subseteq delivered

\* Sizes of the store before and after one message goes in or out.
LEMMA FileCounts ==
    ASSUME files \subseteq Messages, NEW m \in Messages
    PROVE  /\ IsFiniteSet(files) /\ Cardinality(files) \in Nat
           /\ Cardinality(files \cup {m}) <= Cardinality(files) + 1
           /\ Cardinality(files \cup {m}) \in Nat
           /\ Cardinality(files \ {m}) <= Cardinality(files)
           /\ Cardinality(files \ {m}) \in Nat
  <1>1. IsFiniteSet(files)
    BY StoreAssumption, FS_Subset DEF StoreAssumption
  <1>2. /\ IsFiniteSet(files \cup {m}) /\ IsFiniteSet(files \ {m})
        /\ Cardinality(files \cup {m}) = IF m \in files THEN Cardinality(files)
                                         ELSE Cardinality(files) + 1
        /\ Cardinality(files \ {m}) = IF m \in files THEN Cardinality(files) - 1
                                      ELSE Cardinality(files)
    BY <1>1, FS_AddElement, FS_RemoveElement
  <1>3. /\ Cardinality(files) \in Nat /\ Cardinality(files \cup {m}) \in Nat
        /\ Cardinality(files \ {m}) \in Nat
    BY <1>1, <1>2, FS_CardinalityType
  <1>4. QED
    BY <1>1, <1>2, <1>3

\* Put keeps the counter at or above the number of files, and both within the
\* limit.
LEMMA PutKeepsBound ==
    ASSUME CounterCovers, NEW m \in Messages, Put(m)
    PROVE  /\ files' \subseteq Messages
           /\ counter' \in 0..Limit
           /\ Cardinality(files') <= Limit
           /\ Cardinality(files') <= counter'
           /\ isRead' = "yes"
  <1>1. /\ files \subseteq Messages /\ counter \in 0..Limit /\ Limit \in Nat
        /\ isRead \in {"yes", "no"} /\ Cardinality(files) <= Limit
        /\ isRead = "yes" => Cardinality(files) <= counter
    BY StoreAssumption DEF CounterCovers, TypeOK, StoreAssumption
  <1>2. /\ Cardinality(files) \in Nat /\ Cardinality(files \cup {m}) \in Nat
        /\ Cardinality(files \cup {m}) <= Cardinality(files) + 1
    BY <1>1, FileCounts
  <1>3. Counted \in 0..Limit /\ Cardinality(files) <= Counted
    BY <1>1, <1>2 DEF Counted
  <1>4. CASE Counted < Limit
    <2>1. files' = files \cup {m} /\ counter' = Counted + 1 /\ isRead' = "yes"
      BY <1>4 DEF Put
    <2>2. QED
      BY <1>1, <1>2, <1>3, <1>4, <2>1
  <1>5. CASE ~(Counted < Limit)
    <2>1. files' = files /\ counter' = Counted /\ isRead' = "yes"
      BY <1>5 DEF Put
    <2>2. QED
      BY <1>1, <1>2, <1>3, <2>1
  <1>6. QED
    BY <1>4, <1>5

LEMMA CounterCoversHolds == Spec => []CounterCovers
  <1>1. Init => CounterCovers
    BY StoreAssumption, FS_EmptySet DEF Init, CounterCovers, TypeOK, StoreAssumption
  <1>2. CounterCovers /\ [Next]_vars => CounterCovers'
    <2> SUFFICES ASSUME CounterCovers, [Next]_vars PROVE CounterCovers'
      OBVIOUS
    <2> USE DEF CounterCovers, TypeOK, netVars
    <2>1. ASSUME NEW m \in Messages, SignFails(m) PROVE CounterCovers'
      BY <2>1 DEF SignFails
    <2>2. ASSUME NEW m \in Messages, Publish(m) PROVE CounterCovers'
      <3>1. /\ files' \subseteq Messages /\ counter' \in 0..Limit
            /\ Cardinality(files') <= Limit /\ Cardinality(files') <= counter'
            /\ isRead' = "yes"
        BY <2>2, PutKeepsBound DEF Publish
      <3>2. QED
        BY <2>2, <3>1 DEF Publish
    <2>3. ASSUME NEW m \in Messages, PublishTimesOut(m) PROVE CounterCovers'
      <3>1. /\ files' \subseteq Messages /\ counter' \in 0..Limit
            /\ Cardinality(files') <= Limit /\ Cardinality(files') <= counter'
            /\ isRead' = "yes"
        BY <2>3, PutKeepsBound DEF PublishTimesOut
      <3>2. QED
        BY <2>3, <3>1 DEF PublishTimesOut
    <2>4. CASE Connect
      BY <2>4 DEF Connect
    <2>5. CASE Disconnect
      BY <2>5 DEF Disconnect, LinkDown
    <2>6. CASE Restart
      BY <2>6, StoreAssumption DEF Restart, LinkDown, StoreAssumption
    <2>7. ASSUME NEW m \in Messages, BrokerReceives(m) PROVE CounterCovers'
      BY <2>7 DEF BrokerReceives
    <2>8. ASSUME NEW m \in Messages, PubAck(m) PROVE CounterCovers'
      <3>1. files' = files \ {m} /\ acks' = acks \ {m}
            /\ UNCHANGED <<counter, isRead, link, toBroker, delivered, result, broken>>
        BY <2>8 DEF PubAck
      <3>2. /\ Cardinality(files') <= Cardinality(files)
            /\ Cardinality(files) \in Nat /\ Cardinality(files') \in Nat
        BY <3>1, FileCounts
      <3>3. /\ Cardinality(files') <= Limit
            /\ isRead' = "yes" => Cardinality(files') <= counter'
        BY <3>1, <3>2, StoreAssumption DEF StoreAssumption
      <3>4. QED
        BY <3>1, <3>3
    <2>9. CASE UNCHANGED vars
      BY <2>9 DEF vars
    <2>10. QED
      BY <2>1, <2>2, <2>3, <2>4, <2>5, <2>6, <2>7, <2>8, <2>9 DEF Next
  <1>3. QED
    BY <1>1, <1>2, PTL DEF Spec

\* Every variable keeps its type, the counter within the limit
\* (mqtt_store.go:39).
THEOREM TypeCorrect == Spec => []TypeOK
  <1>1. CounterCovers => TypeOK
    BY DEF CounterCovers
  <1>2. QED
    BY <1>1, CounterCoversHolds, PTL

\* StoreBounded on every instance.
THEOREM BoundHolds == Spec => []StoreBounded
  <1>1. CounterCovers => StoreBounded
    BY DEF CounterCovers, StoreBounded
  <1>2. QED
    BY <1>1, CounterCoversHolds, PTL

\* KeptUntilDelivered on every instance: a file is only deleted for a message
\* the broker has.
THEOREM KeptHolds == Spec => KeptUntilDelivered
  <1>1. CounterCovers /\ [Next]_vars
            => [\A m \in Messages :
                   m \in files /\ m \notin files' => m \in delivered]_vars
    BY DEF CounterCovers, Next, vars, netVars, SignFails, Publish, PublishTimesOut,
           Put, Connect, Disconnect, Restart, LinkDown, BrokerReceives, PubAck
  <1>2. QED
    BY <1>1, CounterCoversHolds, PTL DEF Spec, KeptUntilDelivered

\* What is stored or on its way was handed over for publishing before.
OnlyOffered == files \cup toBroker \subseteq {m \in Messages : result[m] = "nil"}

LEMMA OnlyOfferedHolds == Spec => []OnlyOffered
  <1>1. Init => OnlyOffered
    BY DEF Init, OnlyOffered
  <1>2. CounterCovers /\ OnlyOffered /\ [Next]_vars => OnlyOffered'
    <2> SUFFICES ASSUME CounterCovers, OnlyOffered, [Next]_vars
                 PROVE  OnlyOffered'
      OBVIOUS
    <2> USE DEF OnlyOffered, CounterCovers, TypeOK
    <2>1. ASSUME NEW m \in Messages, SignFails(m) PROVE OnlyOffered'
      BY <2>1 DEF SignFails, netVars
    <2>2. ASSUME NEW m \in Messages, Publish(m) \/ PublishTimesOut(m)
          PROVE  OnlyOffered'
      <3>1. /\ files' \subseteq files \cup {m}
            /\ toBroker' \subseteq toBroker \cup {m}
            /\ result' = [result EXCEPT ![m] = "nil"]
        BY <2>2 DEF Publish, PublishTimesOut, Put, netVars
      <3>2. QED
        BY <3>1
    <2>3. ASSUME NEW m \in Messages, BrokerReceives(m) \/ PubAck(m)
          PROVE  OnlyOffered'
      BY <2>3 DEF BrokerReceives, PubAck
    <2>4. CASE Connect \/ Disconnect \/ Restart \/ UNCHANGED vars
      BY <2>4 DEF Connect, Disconnect, Restart, LinkDown, vars, netVars
    <2>5. QED
      BY <2>1, <2>2, <2>3, <2>4 DEF Next
  <1>3. QED
    BY <1>1, <1>2, CounterCoversHolds, PTL DEF Spec

\* The store with its counter, restarts and reconnections implements the
\* abstract outbox: every step is a step of the outbox or leaves it alone.
THEOREM Implements == Spec => OutboxSpec
  <1> DEFINE offered == {m \in Messages : result[m] = "nil"}
  <1>1. Init => Box!Init
    BY DEF Init, Box!Init
  <1>2. CounterCovers /\ OnlyOffered /\ [Next]_vars
            => [Box!Next]_<<offered, files, delivered>>
    <2> SUFFICES ASSUME CounterCovers, OnlyOffered, [Next]_vars
                 PROVE  Box!Next \/ UNCHANGED <<offered, files, delivered>>
      OBVIOUS
    <2>1. ASSUME NEW m \in Messages, Publish(m) \/ PublishTimesOut(m)
          PROVE  Box!Next
      <3>1. /\ result[m] = "none" /\ result' = [result EXCEPT ![m] = "nil"]
            /\ Put(m) /\ delivered' = delivered
        BY <2>1 DEF Publish, PublishTimesOut
      <3>2. m \notin offered /\ offered' = offered \cup {m}
        BY <3>1 DEF CounterCovers, TypeOK
      <3>3. \/ Cardinality(files) < Limit /\ files' = files \cup {m}
            \/ files' = files
        <4>1. CASE Counted < Limit
          <5>1. Cardinality(files) \in Nat
            BY FileCounts DEF CounterCovers, TypeOK
          <5>2. Cardinality(files) < Limit
            BY <4>1, <5>1, StoreAssumption
               DEF Counted, CounterCovers, TypeOK, StoreAssumption
          <5>3. QED
            BY <3>1, <4>1, <5>2 DEF Put
        <4>2. CASE ~(Counted < Limit)
          BY <3>1, <4>2 DEF Put
        <4>3. QED
          BY <4>1, <4>2
      <3>4. Box!Offer(m)
        <4>1. CASE files' = files
          BY <3>1, <3>2, <4>1 DEF Box!Offer
        <4>2. CASE Cardinality(files) < Limit /\ files' = files \cup {m}
          BY <3>1, <3>2, <4>2 DEF Box!Offer, HasRoom
        <4>3. QED
          BY <3>3, <4>1, <4>2
      <3>5. QED
        BY <3>4 DEF Box!Next
    <2>2. ASSUME NEW m \in Messages, BrokerReceives(m)
          PROVE  Box!Next
      <3>1. /\ m \in offered /\ delivered' = delivered \cup {m}
            /\ files' = files /\ offered' = offered
        BY <2>2 DEF BrokerReceives, OnlyOffered
      <3>2. Box!Deliver(m)
        BY <3>1 DEF Box!Deliver
      <3>3. QED
        BY <3>2 DEF Box!Next
    <2>3. ASSUME NEW m \in Messages, PubAck(m)
          PROVE  Box!Next \/ UNCHANGED <<offered, files, delivered>>
      <3>1. /\ m \in delivered /\ files' = files \ {m}
            /\ delivered' = delivered /\ offered' = offered
        BY <2>3 DEF PubAck, CounterCovers
      <3>2. CASE m \in files
        <4>1. Box!Forget(m)
          BY <3>1, <3>2 DEF Box!Forget
        <4>2. QED
          BY <4>1 DEF Box!Next
      <3>3. CASE m \notin files
        <4>1. files' = files
          BY <3>1, <3>3
        <4>2. QED
          BY <3>1, <4>1
      <3>4. QED
        BY <3>2, <3>3
    <2>4. ASSUME NEW m \in Messages, SignFails(m)
          PROVE  UNCHANGED <<offered, files, delivered>>
      BY <2>4 DEF SignFails, CounterCovers, TypeOK
    <2>5. CASE Connect \/ Disconnect \/ Restart \/ UNCHANGED vars
      BY <2>5 DEF Connect, Disconnect, Restart, vars
    <2>6. QED
      BY <2>1, <2>2, <2>3, <2>4, <2>5 DEF Next
  <1>3. QED
    BY <1>1, <1>2, CounterCoversHolds, OnlyOfferedHolds, PTL
       DEF Spec, OutboxSpec, Box!Spec
-----------------------------------------------------------------------------
(* The hook and the buffer together. *)

\* Every behaviour of the process is one of the hook and one of the buffer, so
\* what is proved of either holds of both together: no step of one disturbs the
\* other, and a restart is a restart of both (data_sender.go:298, 378).
THEOREM Composed == DeliverySpec => LimiterSpec /\ Spec
<1>1. DeliveryInit => LimiterInit /\ Init
    BY DEF DeliveryInit
<1>2. [DeliveryNext]_deliveryVars => [LimiterNext]_limiterVars
    <2> SUFFICES ASSUME [DeliveryNext]_deliveryVars
                 PROVE  LimiterNext \/ UNCHANGED limiterVars
        OBVIOUS
    <2>1. ASSUME NEW t \in Threads, HookStep(t) PROVE LimiterNext
        BY <2>1 DEF HookStep, LimiterNext, HookNext
    <2>2. ASSUME NEW t \in Threads, NEW m \in Messages,
                 ErrorIsSent(t, m) \/ ErrorFails(t, m)
          PROVE  LimiterNext
        BY <2>2 DEF ErrorIsSent, ErrorFails, LimiterNext, HookNext
    <2>3. CASE ProcessRestarts
        BY <2>3 DEF ProcessRestarts, LimiterNext
    <2>4. CASE ClientStep \/ \E m \in Messages : OtherPayload(m)
        BY <2>4 DEF ClientStep, OtherPayload
    <2>5. CASE UNCHANGED deliveryVars
        BY <2>5 DEF deliveryVars
    <2> QED BY <2>1, <2>2, <2>3, <2>4, <2>5 DEF DeliveryNext
<1>3. [DeliveryNext]_deliveryVars => [Next]_vars
    <2> SUFFICES ASSUME [DeliveryNext]_deliveryVars
                 PROVE  Next \/ UNCHANGED vars
        OBVIOUS
    <2>1. ASSUME NEW t \in Threads, HookStep(t) PROVE UNCHANGED vars
        BY <2>1 DEF HookStep
    <2>2. ASSUME NEW m \in Messages, Succeeds(m) \/ SignFails(m) PROVE Next
        BY <2>2 DEF Succeeds, Next
    <2>3. ASSUME NEW t \in Threads, NEW m \in Messages,
                 ErrorIsSent(t, m) \/ ErrorFails(t, m) \/ OtherPayload(m)
          PROVE  Succeeds(m) \/ SignFails(m)
        BY <2>3 DEF ErrorIsSent, ErrorFails, OtherPayload
    <2>4. CASE ClientStep
        BY <2>4 DEF ClientStep, Next
    <2>5. CASE ProcessRestarts
        BY <2>5 DEF ProcessRestarts, Next
    <2>6. CASE UNCHANGED deliveryVars
        BY <2>6 DEF deliveryVars
    <2>7. ASSUME NEW m \in Messages, OtherPayload(m) PROVE Next
        BY <2>7, <2>2 DEF OtherPayload
    <2>8. ASSUME NEW t \in Threads, NEW m \in Messages,
                 ErrorIsSent(t, m) \/ ErrorFails(t, m)
          PROVE  Next
        BY <2>2, <2>3, <2>8
    <2> QED BY <2>1, <2>4, <2>5, <2>6, <2>7, <2>8 DEF DeliveryNext
<1> QED BY <1>1, <1>2, <1>3, PTL DEF DeliverySpec, LimiterSpec, Spec
=============================================================================
