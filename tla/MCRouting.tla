----------------------------- MODULE MCRouting -----------------------------
(* Routing on the kinds of route that the README shows, two or three at a  *)
(* time: fixed paths, plain, typed, optional and regular expression        *)
(* variables, and switches.                                                *)
EXTENDS Routing

Plain(s) == <<s, "">>
Hard(s) == Element("hard", Plain(s), "", FALSE)

Users(e) == <<Hard("users"), e>>

MCPatterns == {
    <<<<Hard("users")>>, FALSE>>,                                          \* /users
    <<<<Hard("users")>>, TRUE>>,                                           \* /users/
    <<Users(Hard("me")), FALSE>>,                                          \* /users/me
    <<Users(Element("soft", <<>>, "id", FALSE)), FALSE>>,                  \* /users/{id}
    <<Users(Element("soft", <<>>, "name", FALSE)), FALSE>>,                \* /users/{name}
    <<Users(Element("int", <<>>, "id", TRUE)), FALSE>>,                    \* /users/{id*:int}
    <<Users(Element("float", <<>>, "_", FALSE)), TRUE>>,                   \* /users/{:float}/
    <<Users(Element("regx", <<"az", TRUE>>, "id", FALSE)), FALSE>>,        \* /users/{id:^[a-z]+$}
    <<Users(Element("regx", <<"az", FALSE>>, "id", FALSE)), FALSE>>,       \* /users/{id:[a-z]+}
    <<<<Element("soft", <<>>, "module", TRUE),
        Element("soft", <<>>, "controller", TRUE)>>, TRUE>>}               \* /{module*}/{controller*}/

MCPrefixes == {<<Element("soft", <<>>, "lang", FALSE)>>, <<Hard("users")>>}

MCPaths == {<<>>, <<Plain("users")>>, <<Plain("1")>>} \cup
           {<<Plain("users"), x>> : x \in {Plain("me"), <<"me", ".json">>, Plain("1"), <<"1", ".5">>}} \cup
           {<<Plain("users"), <<"1", ".5">>, x>> : x \in {Plain("users"), <<"me", ".json">>}} \cup
           {<<Plain("en"), Plain("users"), Plain("1")>>}

Numbers == {Plain("1"), <<"1", ".5">>}
MCParses == [t \in {"int", "int64", "float", "float64"} |->
                   IF t \in {"int", "int64"} THEN {Plain("1")} ELSE Numbers]
MCRegxMatches == [r \in {"az"} |-> {Plain("users"), Plain("me"), Plain("en")}]
=============================================================================
