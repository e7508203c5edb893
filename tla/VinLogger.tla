----------------------------- MODULE VinLogger -----------------------------
(***************************************************************************)
(* GetVIN (internal/loggers/vin_logger.go): the VIN is asked for with      *)
(* several queries in turn, or with the one that is known to work.  What   *)
(* the car answers to a query is nothing, something with no valid VIN in   *)
(* it, or a VIN; a passive scan of the bus may find it as well.            *)
(***************************************************************************)
EXTENDS Naturals

CONSTANTS
    Queries,  \* the names of getVinCommandParts, in order
    Citroen,  \* citroenQueryName, the passive scan
    Cars,     \* the cars, each standing for its VIN
    Works,    \* the queries a car can answer with its VIN
    None      \* nil

Names == {Queries[i] : i \in DOMAIN Queries} \cup {Citroen}

ASSUME VinAssumption ==
    /\ DOMAIN Queries \subseteq Nat
    /\ \A i \in DOMAIN Queries : Queries[i] # Citroen
    /\ Works \in [Cars -> SUBSET Names]
    /\ None \notin Names /\ None \notin Cars

\* What a car may answer to the queries; the answer may fail to come.
Answers(car) ==
    {a \in [DOMAIN Queries -> {"none", "bad", "vin"}] :
        \A i \in DOMAIN Queries : a[i] = "vin" => Queries[i] \in Works[car]}

\* passiveScanCitroen finds a VIN in time, or does not.
PassiveScans(car) ==
    IF Citroen \in Works[car] THEN {"none", "vin"} ELSE {"none"}

\* The queries GetVIN tries: all of them, or the one of this name.
Asked(queryName) ==
    {i \in DOMAIN Queries : queryName \in {None, Queries[i]}}

FirstOf(is) == CHOOSE i \in is : \A j \in is : i <= j

\* The passive scan follows when err is set, and a query that got no answer
\* does not set it.
ScansPassively(queryName, answers) ==
    \/ queryName = Citroen
    \/ \E i \in Asked(queryName) : answers[i] = "bad"

\* Variant: the first query asked is reported.
GetVINFirst(queryName, answers, passive) ==
    LET found == {i \in Asked(queryName) : answers[i] = "vin"} IN
    IF found # {} THEN Queries[FirstOf(Asked(queryName))]
    ELSE IF ScansPassively(queryName, answers) /\ passive = "vin" THEN Citroen
    ELSE None

\* The name of the query that gave the VIN, None when none did.
GetVIN(queryName, answers, passive) ==
    LET found == {i \in Asked(queryName) : answers[i] = "vin"} IN
    IF found # {} THEN Queries[FirstOf(found)]
    ELSE IF ScansPassively(queryName, answers) /\ passive = "vin" THEN Citroen
    ELSE None
=============================================================================
