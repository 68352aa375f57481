----------------------------- MODULE MCHandler -----------------------------
(* The runs of Handler. *)
EXTENDS Handler

Said(len, ok, said) == [len |-> len, ok |-> ok, said |-> said]

\* With a length: an empty body, one that is cached and one that is not, none
\* at all (304).  Without: a chunked body, one that holds what looks like its
\* end, one behind a heading that does, and none at all (204).
ReplySet ==
    {Said(0, TRUE, <<"rpart", "rhead">>),
     Said(2, TRUE, <<"rpart", "rhead", "rdata", "rdata">>),
     Said(2, FALSE, <<"rpart", "rhead", "rdata", "rdata">>),
     Said(2, FALSE, <<"rpart", "rhead">>),
     Said(NoLength, TRUE, <<"rpart", "rhead", "rdata", "rend", "rlast">>),
     Said(NoLength, TRUE, <<"rpart", "rhead", "rend", "rlast", "rend", "rlast">>),
     Said(NoLength, TRUE, <<"rpart", "rhead0", "rend", "rlast">>),
     Said(NoLength, FALSE, <<"rpart", "rhead">>)}
============================================================================
