----------------------------- MODULE MCServices -----------------------------
(***************************************************************************)
(* Services that share no state with each other or with a request's        *)
(* pipeline: the compressed copies of static files, which this module      *)
(* extends, the WebSocket chat, the template cache, the migration of a     *)
(* database, CSRF tokens and one-time passwords.  A behaviour is about one *)
(* of them.                                                                *)
(***************************************************************************)
EXTENDS GzipCache

CONSTANTS
    Callers, Contexts, Owners, MaxQueue, MaxCalls, \* of the chat
    c1, c2,                                 \* two connections
    Viewers,                                \* of the templates
    Chain, Recorded, Stmts, Failures,       \* of the schemes
    Tokenlife, Interval, Window, MaxUint,   \* of the tokens
    MaxTime, MaxShown, Browsers

\* A channel has finitely many connections (websocket.go:13).
ASSUME ChatAssumption == IsFiniteSet(Contexts)

\* Every scheme's version is above its Previous's and above an empty database's
\* (sql.go:19-31).
ASSUME SchemesAssumption ==
    /\ Chain \in Seq(Nat \ {0}) /\ Len(Chain) > 0
    /\ \A i, j \in 1..Len(Chain) : i < j => Chain[i] < Chain[j]
    /\ Recorded \subseteq 1..Len(Chain)
    /\ Stmts \in Nat /\ Failures \in Nat

\* The window and the bounds of time and of passwords stay below the counter's
\* wrap, as a uint64 does for any device (otp.go:137-173).
ASSUME TokensAssumption ==
    /\ Tokenlife \in 1..MaxTime /\ Interval \in Nat \ {0}
    /\ Window \in Nat /\ MaxUint \in Nat /\ MaxTime \in Nat /\ MaxShown \in Nat \ {0}
    /\ MaxShown + Window <= MaxUint
    /\ MaxTime \div Interval + Window <= MaxUint

VARIABLES
    part,
    channel, user, clients, dead, stalled, callerpc, arg, copy, writing, wg, removals, asking, crashed, doubled, calls,
    cached, timer, deleting, view,
    step, at, done, tx, applied, version, from, failed, failures,
    now, cookie, fresh, tokens, counter, shown, used, verdict

\* Two versions of a size and a longer one.
MCSizes == <<2, 2, 3>>

\* A version that no scheme has, between the second and the third.
MCChain == <<1, 2, 4>>

MCContexts == {c1, c2}

\* One user with two connections, or two users.
MCOwners == {[c \in {c1, c2} |-> "u"], [c \in {c1, c2} |-> IF c = c1 THEN "u" ELSE "v"]}

Chat == INSTANCE WebsocketChat
    WITH pc <- callerpc, left <- calls

Templates == INSTANCE TemplateCache WITH Requests <- Viewers, pc <- view

Schemes == INSTANCE Migrate WITH Versions <- Chain, pc <- step, left <- failures

Token == INSTANCE Tokens

chat == <<channel, user, clients, dead, stalled, callerpc, arg, copy, writing, wg, removals, asking, crashed, doubled, calls>>
templates == <<cached, timer, deleting, view>>
schemes == <<step, at, done, tx, applied, version, from, failed, failures>>
kept == <<now, cookie, fresh, tokens, counter, shown, used, verdict>>

allVars == <<part, vars, chat, templates, schemes, kept>>

ServicesInit ==
    /\ part \in {"copies", "chat", "templates", "schemes", "gate", "passwords"}
    /\ Init /\ Chat!Init /\ Templates!Init /\ Schemes!Init /\ Token!Init
    /\ part # "chat" => ~channel /\ \A c, d \in Contexts : user[c] = user[d]
    /\ part # "schemes" => version = 0
    /\ part # "passwords" => counter = 0

ServicesNext ==
    \/ part = "copies" /\ Next /\ UNCHANGED <<part, chat, templates, schemes, kept>>
    \/ part = "chat" /\ Chat!Next /\ UNCHANGED <<part, vars, templates, schemes, kept>>
    \/ part = "templates" /\ Templates!Next /\ UNCHANGED <<part, vars, chat, schemes, kept>>
    \/ part = "schemes" /\ Schemes!Next /\ UNCHANGED <<part, vars, chat, templates, kept>>
    \/ part = "gate" /\ Token!Gate /\ UNCHANGED <<part, vars, chat, templates, schemes>>
    \/ part = "passwords" /\ Token!Passwords /\ UNCHANGED <<part, vars, chat, templates, schemes>>

ServicesSpec == ServicesInit /\ [][ServicesNext]_allVars /\ Chat!Fairness

\* The chat's calls return and its dead connections leave, whichever writers,
\* removals and calls meet (websocket.go:26-163).
ChatNeverSticks == Chat!ChatNeverSticks

\* A cached template is on its way out, and no timer outlives its entry
\* (view.go:152-183).
TemplatesExpire == Templates!TemplatesExpire

\* After any failures the database holds whole schemes in order (sql.go:19-74).
SchemesAreWhole == Schemes!SchemesAreWhole

\* CSRF tokens and one-time passwords are accepted as long as they should be
\* (sec.go:84-243, otp.go:167-291).
TokensAccepted == Token!TokensAccepted
=============================================================================
