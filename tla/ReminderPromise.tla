-------------------------- MODULE ReminderPromise --------------------------
(***************************************************************************)
(* What both reminders, the service's email and the CLI's alert, promise   *)
(* about a pending review.                                                 *)
(*   - It is brought up only while it is watched.  Of a review just seen   *)
(*     for the first time, or for the first time again, either reminder    *)
(*     decides whether it is watched or backlog; a watched one is never    *)
(*     turned into backlog.                                                *)
(*   - It is not brought up again about the same comment within the        *)
(*     window, unless the record of the last time was lost by a failure    *)
(*     (owed), or was dropped because the review was no longer seen        *)
(*     (forgot), and the review has been seen again since.                 *)
(* ReminderService and PrnCheck implement this module for jobs, and for    *)
(* runs, that do not overlap.                                              *)
(***************************************************************************)
EXTENDS Integers

CONSTANTS
  Reviews,  \* ids of pending reviews
  Window,   \* the 7 days
  Null

VARIABLES
  now,     \* the clock
  phase,   \* of each review: unseen, backlog or watched
  notice,  \* the last notice given about each review, or Null
  owed,    \* reviews noticed since their last recorded notice
  forgot,  \* reviews whose record was dropped since their last notice
  chosen   \* reviews picked for the notice being prepared, each with the
           \* comment it is about, or Null

vars == <<now, phase, notice, owed, forgot, chosen>>

Phase  == {"unseen", "backlog", "watched"}
Notice == [at : Int, about : Int]
Nobody == [r \in Reviews |-> Null]

TypeOK ==
  /\ now \in Int
  /\ phase \in [Reviews -> Phase]
  /\ notice \in [Reviews -> Notice \cup {Null}]
  /\ owed \subseteq Reviews /\ forgot \subseteq Reviews
  /\ chosen \in [Reviews -> Int \cup {Null}]

Init ==
  /\ now \in Int
  /\ phase = [r \in Reviews |-> "unseen"]
  /\ notice = [r \in Reviews |-> Null]
  /\ owed = {} /\ forgot = {}
  /\ chosen = Nobody

Tick ==
  /\ now' > now /\ now' \in Int
  /\ UNCHANGED <<phase, notice, owed, forgot, chosen>>

\* A watched review may be brought up again about a newer comment, after the
\* window, or when the record of the last time was lost or dropped.
MayNotice(r, about) ==
  /\ phase[r] = "watched"
  /\ \/ notice[r] = Null
     \/ notice[r].about < about
     \/ now - notice[r].at > Window
     \/ r \in owed \cup forgot

\* A notice is prepared, or dropped before it is given.
Choose ==
  /\ chosen' \in [Reviews -> Int \cup {Null}]
  /\ \A r \in Reviews : chosen'[r] # Null => MayNotice(r, chosen'[r])
  /\ UNCHANGED <<now, phase, notice, owed, forgot>>

\* One notice about a whole batch, prepared before or on the spot.
Give(batch) ==
  /\ \A r \in batch :
       /\ notice'[r] \in Notice /\ notice'[r].at = now
       /\ notice'[r].about = chosen[r] \/ MayNotice(r, notice'[r].about)
  /\ notice' = [r \in Reviews |-> IF r \in batch THEN notice'[r] ELSE notice[r]]
  /\ owed' = owed \cup batch
  /\ forgot' = forgot \ batch
  /\ chosen' = Nobody
  /\ UNCHANGED <<now, phase>>

\* The phases a review may go through: watched never becomes backlog.
MayBecome == [unseen  |-> Phase,
              backlog |-> Phase,
              watched |-> {"unseen", "watched"}]

\* What was seen and what was noticed is recorded.  Only of a review that is
\* no longer seen may the record be dropped.
Record ==
  /\ phase' \in [Reviews -> Phase]
  /\ \A r \in Reviews : phase'[r] \in MayBecome[phase[r]]
  /\ forgot \subseteq forgot'
  /\ \A r \in forgot' \ forgot : r \in Reviews /\ phase'[r] = "unseen"
  /\ owed' \in SUBSET owed
  /\ UNCHANGED <<now, notice, chosen>>

Next ==
  \/ Tick \/ Choose \/ Record
  \/ \E batch \in SUBSET Reviews : Give(batch)

Spec == Init /\ [][Next]_vars
=============================================================================
