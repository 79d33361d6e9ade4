---------------------------- MODULE MCRouterTree ----------------------------
(* A root, a router and an app; hosts with and without a leading dot and   *)
(* with a pattern; a path prefix that is also the beginning of a longer    *)
(* element; and routes two routers have in common.                         *)
EXTENDS RouterSearch

CONSTANTS root, sub, app

MCRouters == {root, sub, app}

MCHosts == {[labels |-> <<"x", "c">>, predot |-> FALSE],
            [labels |-> <<"c">>, predot |-> TRUE],
            [labels |-> <<"*", "c">>, predot |-> FALSE]}

slash == "/"
MCStrings == {"", "x", "c", "y", "*", slash, "a", "b"}

MCPrefixes == {<<slash, "a">>}

MCPaths == {<<slash, "b">>, <<slash, "a", slash, "b">>, <<slash, "a", "b">>, <<slash, "a">>}

MCRoutes == [r \in MCRouters |-> CASE r = root -> {<<slash, "b">>, <<slash, "a">>}
                                   [] r = sub -> {<<slash, "a", slash, "b">>, <<slash, "b">>}
                                   [] OTHER -> {<<slash, "a", "b">>}]

MCRequests == {[host |-> h, path |-> p] : h \in {<<"x", "c">>, <<"c">>, <<"y">>}, p \in MCPaths}
=============================================================================
