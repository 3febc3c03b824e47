------------------------------ MODULE MCRoute ------------------------------
(* Instances of RouteEngine: rules on every kind of condition. *)
EXTENDS RouteEngine, TLC

CONSTANTS d1, d2, l1, urgent, other

Rule == [id |-> 0, priority |-> 0, words |-> {}, models |-> {}, ips |-> {},
         headers |-> {}, minTokens |-> 0, maxBudget |-> 0, target |-> "cloud",
         fallback |-> ""]

Premium == [Rule EXCEPT !.id = 1, !.priority = 10, !.words = {urgent}, !.target = "premium"]
Fast    == [Rule EXCEPT !.id = 2, !.priority = 10, !.words = {urgent, other, EmptyWord}]
Muted   == [Rule EXCEPT !.id = 3, !.priority = 10, !.words = {EmptyWord}]
Unset   == [Rule EXCEPT !.id = 4, !.models = {"gpt"}, !.fallback = "spare"]
Office  == [Rule EXCEPT !.id = 5, !.priority = 8, !.ips = {"office"},
                        !.headers = {<<"team", "red">>}, !.maxBudget = 2]
Large   == [Rule EXCEPT !.id = 6, !.priority = 30, !.minTokens = 1]

AllTables == {{Premium, Fast, Muted}, {Unset, Office, Fast, Large}}

ModelPrefixes == ("gpt-4" :> {"gpt", "gpt-4"}) @@ ("claude" :> {"claude"})

Ask(model, ip, team, words, tokens, spend) ==
    [model |-> model, ip |-> ip, headers |-> ("team" :> team), words |-> words,
     tokens |-> tokens, spend |-> spend]

Prompts == {Ask("claude", "office", "red", {other}, 0, 2),
            Ask("gpt-4", "home", "", {urgent}, 1, 0),
            Ask("claude", "home", "", {urgent, other}, 1, 0)}
=============================================================================
