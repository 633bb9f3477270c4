----------------------------- MODULE MCServerHost -----------------------------
(* A host of the server on small instances, for TLC. *)
EXTENDS ServerHost

Object(cmd, val) == [object |-> TRUE, cmd |-> cmd, val |-> val]

\* Texts with characters of one to four bytes and with a U+0000, a request with
\* no text in it and one that is no JSON object.
MCRequests == {
    Object(<<"url">>, <<<<1, 0, 3>>>>), Object(<<"URL">>, <<<<4, 2>>>>),
    Object(<<"url">>, <<<<>>>>), [object |-> FALSE, cmd |-> <<>>, val |-> <<>>]}
=============================================================================
