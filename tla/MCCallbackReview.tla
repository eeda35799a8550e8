-------------------------- MODULE MCCallbackReview --------------------------
(***************************************************************************)
(* The follow-up messages of the runs of CallbackReview.                   *)
(***************************************************************************)
EXTENDS CallbackReview

\* An operator's message within the current scope.
PreserveSteers == {<<"main", "preserve", "review">>}

\* A message of either side, scope and answer: the supervisor's opens a new work
\* slice and is to be answered directly.
MixedSteers == PreserveSteers \cup {<<"tool", "replace", "reply_to_operator">>}
=============================================================================
