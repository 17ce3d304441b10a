------------------------------ MODULE MCHarness ------------------------------
(* Two cases.  The first has five relevant chunks, two expected signals,   *)
(* operations and preferences; its replays leave the expected one by one   *)
(* deviation each, or a pair of them.                                      *)
EXTENDS Harness

Call(tool, status, ids, cost) == [tool |-> tool, status |-> status, ids |-> ids, cost |-> cost]
Search(ids) == Call("search_knowledge", "ok", ids, 20)
Query == Call("query_metrics", "ok", <<>>, 0)
Act(op, status, preference) == [op |-> op, status |-> status, preference |-> preference]

MCCases ==
    << [steps |-> <<"gather", "diagnose", "guard">>,
        tools |-> {"query_metrics", "search_knowledge"},
        relevant |-> {"c1", "c2", "c3", "c4", "c5"},
        preferences |-> {[op |-> "pause", preference |-> "careful"]},
        forbidden |-> {"pause", "raise"},
        signals |-> {"low_roi", "no_clicks"},
        operations |-> {"pause", "report"},
        weights |-> <<[op |-> "pause", weight |-> 3], [op |-> "report", weight |-> 1]>>,
        budget |-> 600, latency |-> 0],
       [steps |-> <<"gather", "diagnose">>,
        tools |-> {}, relevant |-> {}, preferences |-> {}, forbidden |-> {"raise"},
        signals |-> {}, operations |-> {}, weights |-> <<>>,
        budget |-> 0, latency |-> 500] >>

Good ==
    [steps |-> <<"gather", "diagnose", "guard">>,
     calls |-> <<Query, Search(<<"c1", "c2", "c3">>), Search(<<"c2", "c4", "x1">>)>>,
     turns |-> 1, errors |-> 0,
     signals |-> {"low_roi", "no_clicks"},
     actions |-> {Act("pause", "waiting_approval", "careful"), Act("report", "executed", "none")},
     latency |-> 900]

Searching(first2, second2) == [Good EXCEPT !.calls = <<Query, Search(first2), Search(second2)>>]

MCReplays ==
    << {Good,
        Searching(<<"c1", "c2", "c3">>, <<"c1", "c2", "c3">>),
        Searching(<<"x1", "x2", "c1">>, <<"c2", "c3", "c4">>),
        [Searching(<<"x1">>, <<"x2">>) EXCEPT !.signals = {}],
        [Good EXCEPT !.steps = <<"diagnose", "gather", "guard">>],
        [Good EXCEPT !.steps = <<"gather", "retrieve", "diagnose", "guard">>],
        [Good EXCEPT !.steps = <<"gather", "guard", "guard">>],
        [Good EXCEPT !.calls = Append(@, Call("query_metrics", "failed", <<>>, 0))],
        [Good EXCEPT !.calls = @ \o <<Query, Call("query_metrics", "cached", <<>>, 0)>>],
        [Good EXCEPT !.turns = 3],
        [Good EXCEPT !.latency = 2500],
        [Good EXCEPT !.signals = {"low_roi"}],
        [Good EXCEPT !.actions = {Act("pause", "waiting_approval", "bold"), Act("report", "executed", "none")}],
        [Good EXCEPT !.actions = {Act("pause", "executed", "careful"), Act("report", "executed", "none")}],
        [Good EXCEPT !.actions = @ \cup {Act("pause", "would_execute", "none")}],
        [Good EXCEPT !.actions = {Act("report", "executed", "none")}, !.errors = 1]},
       {[Good EXCEPT !.actions = {}, !.signals = {}, !.latency = 500],
        [Good EXCEPT !.actions = {Act("raise", "would_execute", "none")}, !.signals = {}, !.latency = 500],
        [Good EXCEPT !.actions = {}, !.signals = {}, !.turns = 5]} >>

MCDeviations ==
    << {[Good EXCEPT !.signals = {"no_clicks"}]},
       {} >>

MCJudgements ==
    << {[rubric |-> [r \in Rubrics |-> IF r \in {"numeric", "complete"} THEN 6 ELSE 4], complaints |-> 0, failed |-> FALSE],
        [rubric |-> [r \in Rubrics |-> IF r = "complete" THEN -2 ELSE IF r = "numeric" THEN 5 ELSE 4], complaints |-> 0, failed |-> FALSE],
        [rubric |-> [r \in Rubrics |-> 5], complaints |-> 1, failed |-> FALSE],
        [rubric |-> [r \in Rubrics |-> 0], complaints |-> 0, failed |-> TRUE]},
       {[rubric |-> [r \in Rubrics |-> 5], complaints |-> 0, failed |-> FALSE]} >>

MCLimits == {[steps |-> 4, calls |-> 4, cost |-> 800], [steps |-> 4, calls |-> 4, cost |-> 650]}

=============================================================================
