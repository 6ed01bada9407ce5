------------------------------ MODULE Replies ------------------------------
(***************************************************************************)
(* What the program takes an answer of GitHub for (src/github).  A reply   *)
(* is a status and a body that may be none, garbled, or hold some fields;  *)
(* "none" stands for a request that failed or was not answered in time.    *)
(***************************************************************************)
EXTENDS Integers, FiniteSets

Statuses == {"none", "2xx", "4xx", "5xx"}

\* The token endpoint reports refusals in a 200 with an error field.
TokenReplies ==
  [status : Statuses, parses : BOOLEAN, error : BOOLEAN, fields : BOOLEAN]

\* No usable answer is a transport error; a 4xx, an error field and missing
\* token fields are refusals.
token_request(reply) ==
  IF reply.status \in {"none", "5xx"} THEN "transport"
  ELSE IF reply.status # "2xx" THEN "rejected"
  ELSE IF ~reply.parses THEN "transport"
  ELSE IF reply.error \/ ~reply.fields THEN "rejected"
  ELSE "pair"

\* A code is exchanged or not: both kinds of error fail the callback alike.
exchange_code(reply) == token_request(reply) = "pair"

\* The viewer, the list of email addresses, the list of installations: a 2xx
\* with a body of the right shape.
ReadReplies == [status : Statuses, parses : BOOLEAN]

Read(reply) == reply.status = "2xx" /\ reply.parses

fetch_viewer(reply) == Read(reply)

\* The primary verified address, else the first; a user without any fails.
Emails == SUBSET [primary : BOOLEAN, verified : BOOLEAN]

fetch_primary_email(reply, emails) ==
  IF ~Read(reply) \/ emails = {} THEN {}
  ELSE LET best == {e \in emails : e.primary /\ e.verified}
       IN  IF best # {} THEN best ELSE emails

fetch_user_installations(reply) == Read(reply)
=============================================================================
