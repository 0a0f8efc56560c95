----------------------------- MODULE QueryCache -----------------------------
(***************************************************************************)
(* What the pages use of the query client (TanStack Query 5): an entry of  *)
(* its cache holds the last answer and at most one fetch.  Entries are     *)
(* always stale (staleTime 0), so that showing one fetches it again.       *)
(*                                                                         *)
(* A fetch is first under way to the server, then answered with what the   *)
(* server had at that moment; the answer lands later.                      *)
(***************************************************************************)
CONSTANT NoData   \* not an answer

Empty == [data |-> NoData, flight |-> "none", answer |-> NoData]

\* An observer appears (mount, or a new key): it fetches, or joins the fetch
\* that is under way.
Observed(e) == IF e.flight = "none" THEN [e EXCEPT !.flight = "asked"] ELSE e

\* invalidateQueries on an entry that is shown: the fetch under way is thrown
\* away and started anew, except the first one of the entry, which is kept.
Renewed(e) ==
    IF e.data = NoData /\ e.flight # "none" THEN e
    ELSE [e EXCEPT !.flight = "asked", !.answer = NoData]

Served(e, truth) == [e EXCEPT !.flight = "answered", !.answer = truth]
Landed(e) == [data |-> e.answer, flight |-> "none", answer |-> NoData]
\* The fetch and its one retry failed: what was shown stays.
Failed(e) == [e EXCEPT !.flight = "none", !.answer = NoData]

Resting(e) == e.flight = "none"
\* isLoading: nothing to show yet.
Loading(e) == e.data = NoData /\ e.flight # "none"
\* Joining or keeping this fetch may bring what the server had some time ago.
Aged(e) == e.flight = "answered"

=============================================================================
