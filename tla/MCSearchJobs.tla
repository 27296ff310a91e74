--------------------------- MODULE MCSearchJobs ---------------------------
(* Instances of SearchJobs for TLC: what the hosts of each run answer. *)
EXTENDS SearchJobs

Ans(hits, state, truncated) == [hits |-> hits, state |-> state, truncated |-> truncated]

\* Two hosts; h1 repeats a hit, h2 answers in part.
StreamAnswers ==
    [h \in Hosts |->
        IF h = "h1" THEN {Ans(<<"a", "b", "a">>, "ok", FALSE)}
        ELSE {Ans(<<"c">>, "partial", FALSE), Ans(<<>>, "failed", TRUE)}]

\* One host with two hits.
StoreAnswers == [h \in Hosts |-> {Ans(<<"a", "b">>, "ok", FALSE)}]
=============================================================================
