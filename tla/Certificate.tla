---------------------------- MODULE Certificate ----------------------------
(***************************************************************************)
(* The client certificate of the MQTT connection (certificate.go).  Every  *)
(* start of the process checks the certificate file, renews the pair of    *)
(* private key and certificate when it is due, and loads whatever pair the *)
(* two files hold then (setupMqttConnection).  The key file is replaced    *)
(* before the certificate authority is asked and the certificate file only *)
(* after it answered; os.WriteFile empties a file before it writes it; the *)
(* device may lose power between any two steps.                            *)
(***************************************************************************)
EXTENDS Integers

CONSTANTS
    Window,    \* days before its end in which a certificate is renewed: 7
    Lifetimes, \* days for which the authority signs a certificate
    MaxDays,   \* bound: days that pass
    MaxBoots,  \* bound: starts of the process
    None, Torn \* a file that does not exist; one that cannot be parsed

ASSUME WindowAssumption == Window \in Nat
ASSUME LifetimesAssumption ==
    Lifetimes \subseteq Nat /\ \A life \in Lifetimes : life > Window
ASSUME BoundAssumption == MaxDays \in Nat /\ MaxBoots \in Nat
ASSUME FileAssumption ==
    None # Torn /\ None \notin Nat /\ Torn \notin Nat

VARIABLES
    now,       \* the day
    boots,     \* starts so far; also names the key a boot generates
    keyFile,   \* privateKeyPath: None, Torn, or a key
    certFile,  \* certificatePath: "none", "torn" or "whole", with
    certKey,   \*   the key it was signed for, and
    expires,   \*   its NotAfter
    pc,        \* "check", "token", "key", "key open", "sign", "cert",
               \* "cert open", "load", "running"
    trouble,   \* history: "yes" when a step of this boot failed
    foundTorn, \* history: "yes" when this boot could not parse the file
    started,   \* history: the day of the check
    loaded     \* NotAfter of the pair the MQTT client uses, -1 for none

files == <<keyFile, certFile, certKey, expires>>
vars == <<now, boots, files, pc, trouble, foundTorn, started, loaded>>

TypeOK ==
    /\ now \in Nat /\ boots \in Nat \ {0}
    /\ keyFile \in Nat \cup {None, Torn}
    /\ certFile \in {"none", "torn", "whole"}
    /\ certKey \in Nat /\ expires \in Nat
    /\ pc \in {"check", "token", "key", "key open", "sign", "cert",
               "cert open", "load", "running"}
    /\ trouble \in {"yes", "no"} /\ foundTorn \in {"yes", "no"}
    /\ started \in 0..now /\ loaded \in Nat \cup {-1}

\* A device that has never been connected.
Init ==
    /\ now = 0 /\ boots = 1
    /\ keyFile = None /\ certFile = "none" /\ certKey = 0 /\ expires = 0
    /\ pc = "check" /\ trouble = "no" /\ foundTorn = "no"
    /\ started = 0 /\ loaded = -1

\* Variant: the last day of the window is left out.
DueLate ==
    \/ certFile = "none"
    \/ certFile = "whole" /\ expires - now < Window

\* The file is missing, or its certificate ends within the window.
Due ==
    \/ certFile = "none"
    \/ certFile = "whole" /\ expires - now <= Window
-----------------------------------------------------------------------------
\* CheckCertAndRenewIfExpiresSoon; a file it cannot parse is an error.
Checks ==
    /\ pc = "check"
    /\ pc' = IF Due THEN "token" ELSE "load"
    /\ foundTorn' = IF certFile = "torn" THEN "yes" ELSE "no"
    /\ started' = now
    /\ UNCHANGED <<now, boots, files, trouble, loaded>>

\* An error return of SignWeb3Certificate: main goes on with what there is.
Fails ==
    /\ pc' = "load" /\ trouble' = "yes"
    /\ UNCHANGED <<now, boots, files, foundTorn, started, loaded>>

\* GetOauthToken and createSignRequest.
GetsToken ==
    /\ pc = "token" /\ pc' = "key"
    /\ UNCHANGED <<now, boots, files, trouble, foundTorn, started, loaded>>

TokenFails == pc = "token" /\ Fails

\* WriteFile of the key: open and truncate, then write; each may fail.
OpensKey ==
    /\ pc = "key" /\ pc' = "key open"
    /\ keyFile' = Torn
    /\ UNCHANGED <<now, boots, certFile, certKey, expires, trouble, foundTorn,
                   started, loaded>>

WritesKey ==
    /\ pc = "key open" /\ pc' = "sign"
    /\ keyFile' = boots
    /\ UNCHANGED <<now, boots, certFile, certKey, expires, trouble, foundTorn,
                   started, loaded>>

KeyFails == pc \in {"key", "key open"} /\ Fails

\* stepCa.Sign.
Signs ==
    /\ pc = "sign" /\ pc' = "cert"
    /\ UNCHANGED <<now, boots, files, trouble, foundTorn, started, loaded>>

SignFails == pc = "sign" /\ Fails

\* WriteFile of the certificate.
OpensCert ==
    /\ pc = "cert" /\ pc' = "cert open"
    /\ certFile' = "torn"
    /\ UNCHANGED <<now, boots, keyFile, certKey, expires, trouble, foundTorn,
                   started, loaded>>

\* Variant: the certificate is for a key that is not the one in the file.
WritesOldCert ==
    /\ pc = "cert open" /\ pc' = "load"
    /\ certFile' = "whole" /\ certKey' = boots - 1
    /\ \E life \in Lifetimes : expires' = now + life
    /\ UNCHANGED <<now, boots, keyFile, trouble, foundTorn, started, loaded>>

WritesCert ==
    /\ pc = "cert open" /\ pc' = "load"
    /\ certFile' = "whole" /\ certKey' = boots
    /\ \E life \in Lifetimes : expires' = now + life
    /\ UNCHANGED <<now, boots, keyFile, trouble, foundTorn, started, loaded>>

CertFails == pc \in {"cert", "cert open"} /\ Fails

\* LoadX509KeyPair refuses a key that is not the certificate's, but not a
\* certificate that has ended; without a pair the client is started all the
\* same.
Pair == IF certFile = "whole" /\ keyFile = certKey THEN expires ELSE -1

Loads ==
    /\ pc = "load" /\ pc' = "running"
    /\ loaded' = Pair
    /\ UNCHANGED <<now, boots, files, trouble, foundTorn, started>>

\* A day passes, while the process runs or while the device is off.
Day ==
    /\ now < MaxDays /\ now' = now + 1
    /\ pc \in {"check", "running"}
    /\ UNCHANGED <<boots, files, pc, trouble, foundTorn, started, loaded>>

\* Power is lost at any moment, and comes back.
Restarts ==
    /\ boots < MaxBoots /\ boots' = boots + 1
    /\ pc' = "check" /\ loaded' = -1
    /\ trouble' = "no" /\ foundTorn' = "no"
    /\ UNCHANGED <<now, files, started>>

Next ==
    \/ Checks \/ GetsToken \/ TokenFails
    \/ OpensKey \/ WritesKey \/ KeyFails
    \/ Signs \/ SignFails
    \/ OpensCert \/ WritesCert \/ CertFails
    \/ Loads \/ Day \/ Restarts

Spec == Init /\ [][Next]_vars
-----------------------------------------------------------------------------
\* However a renewal was cut short, a certificate left beside a key that is
\* not its own is one the next start renews (the key file is replaced before
\* the certificate, certificate.go:201-216, but only inside the window).
MismatchIsDue == certFile = "whole" /\ keyFile # certKey => Due

\* A start in which nothing failed leaves the process, for as many days as
\* the window has, with a pair that fits and has not ended (the process never
\* checks again while it runs, certificate.go:142, data_sender.go:119).
WeekOfService ==
    /\ pc = "running" /\ trouble = "no" /\ foundTorn = "no"
    /\ now - started <= Window
    => loaded > now

=============================================================================
