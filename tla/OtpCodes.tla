-------------------------------- MODULE OtpCodes -------------------------------
(***************************************************************************)
(* OtpLogin implements OneTimeCodes: a code is good while its row is       *)
(* there, and spent once an attempt has deleted the row itself.            *)
(***************************************************************************)
EXTENDS OtpLogin

Promised == INSTANCE OneTimeCodes WITH
              MaxGood  <- Cardinality(Senders),
              MaxWrong <- MaxAttempts + (Cardinality(Guessers) - 1) + MaxFailures,
              issued   <- created,
              good     <- live,
              wrong    <- tries,
              spent    <- {c \in Codes : used[c] > 0}

\* Whatever requests and attempts overlap or die, a code is issued once, signs
\* in at most once and only while its row is there, never again once another
\* request has withdrawn it, and is guessed at a limited number of times.
ImplementsCodes == Promised!Spec
================================================================================
