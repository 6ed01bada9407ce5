----------------------------- MODULE Discovery -----------------------------
(***************************************************************************)
(* The search of src/discovery.rs, shared by the service and the CLI:      *)
(* what one GraphQL reply is taken for, what is kept of its nodes, and     *)
(* when the loop over the pages stops.  GitHub is external: its search     *)
(* lists the open pull requests that involve the user, oldest first (pull  *)
(* requests are numbered in the order of their creation), and a cursor is  *)
(* the number of results before it.  At most one review of the user is     *)
(* pending on a pull request, so the pull request names it.                *)
(***************************************************************************)
EXTENDS Integers, FiniteSets

CONSTANTS
  Pulls,       \* the user's pull requests, numbers in order of creation
  PageSize,    \* first: 50
  MaxResults,  \* MAX_RESULTS: 1000
  NoReview,    \* no review of the user is pending on the pull request
  Shell        \* a pending review without a comment

ASSUME DiscoveryAssumption ==
  /\ Pulls \subseteq Nat /\ IsFiniteSet(Pulls)
  /\ PageSize \in Nat \ {0} /\ MaxResults \in Nat \ {0}
  /\ NoReview \notin Int /\ Shell \notin Int

\* What is kept of a pending review: its id and its last comment.
DiscoveredReview == [id : Pulls, last : Int]

-----------------------------------------------------------------------------
(* GitHub's side of a search *)

\* The place of a pull request among the results.
Place(open, r) == Cardinality({s \in open : s <= r})

\* The results after a cursor, one page of them, with what is pending there.
PageAfter(open, draft, cursor) ==
  LET ids == {r \in open : Place(open, r) \in cursor + 1 .. cursor + PageSize}
  IN  [nodes   |-> {[id |-> r, review |-> draft[r]] : r \in ids},
       hasNext |-> Cardinality(open) > cursor + PageSize,
       cursor  |-> TRUE]

\* The replies to a page request.  A 200 may carry errors beside the nodes it
\* could read, or no data; a further page may be announced without a cursor.
Replies(page) ==
  LET ok == [status |-> "ok", errors |-> FALSE, data |-> TRUE, page |-> page]
  IN  {ok,
       [ok EXCEPT !.status = "refused"],
       [ok EXCEPT !.data = FALSE],
       [ok EXCEPT !.errors = TRUE, !.page.nodes = {}, !.page.hasNext = FALSE],
       [ok EXCEPT !.page.cursor = FALSE]}

-----------------------------------------------------------------------------
(* The program's side *)

\* Faulty variant: the errors of a 200 are not looked at.
Usable_IgnoresErrors(reply) == reply.status = "ok" /\ reply.data

\* A reply counts only without an HTTP error, without GraphQL errors and with
\* data; anything else fails the whole discovery.
Usable(reply) == reply.status = "ok" /\ ~reply.errors /\ reply.data

\* Faulty variant: an empty shell counts as a pending review.
extract_reviews_WithShells(nodes) ==
  {[id |-> n.id, last |-> n.review] : n \in {m \in nodes : m.review # NoReview}}

\* The pending reviews of a page that hold a comment; an empty shell is none.
\* (The code falls back to the review's createdAt when a counted comment comes
\* without its time; GitHub here always gives it.)
extract_reviews(nodes) ==
  {[id |-> n.id, last |-> n.review] :
     n \in {m \in nodes : m.review \notin {NoReview, Shell}}}

\* The loop ends at the ceiling, on the last page, or without a cursor; count
\* is the number of reviews so far, repeated ones included.
LastPage(count, page) == count >= MaxResults \/ ~page.hasNext \/ ~page.cursor

\* Of the page that reaches the ceiling the first reviews are kept.
Truncated(reviews, room) ==
  {r \in reviews : Cardinality({s \in reviews : s.id <= r.id}) <= room}
=============================================================================
