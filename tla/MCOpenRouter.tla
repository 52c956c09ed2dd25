---------------------------- MODULE MCOpenRouter -----------------------------
(***************************************************************************)
(* OpenRouter for TLC: answers with and without [DONE], usage alone, with  *)
(* content or missing, lines without meaning and lines after [DONE].       *)
(***************************************************************************)
EXTENDS OpenRouter, TLC

CONSTANTS a, b

Say(c) == [content |-> c, usage |-> 0, done |-> FALSE]
Comment == Say(NoContent)
Report(c, n) == [content |-> c, usage |-> n, done |-> FALSE]
Done == [content |-> NoContent, usage |-> 0, done |-> TRUE]

MCAnswers == {
    <<>>,
    <<Comment, Say(a)>>,
    <<Say(a), Report(b, 1)>>,
    <<Report(a, 2), Report(NoContent, 3), Done>>,
    <<Say(a), Done, Say(b)>>}
==============================================================================
