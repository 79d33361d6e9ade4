--------------------------- MODULE RequestPipeline ---------------------------
(***************************************************************************)
(* One request through ServeRequestedEndPoint (sunny.go:309-445): the six  *)
(* middleware hooks, the controller or handler, the response writer that   *)
(* runs the Response hooks, panics and the deferred calls that undo the    *)
(* request, next to the goroutine that parses the request body             *)
(* (web/context.go, web/misc.go).                                          *)
(*                                                                         *)
(* Hooks and actions are code of the program.  What one does is a choice:  *)
(* return, write a response, set an error or a redirect on the context, or *)
(* panic.  `log` records who was called, and in which order.               *)
(***************************************************************************)
EXTENDS Naturals, Sequences

CONSTANT N      \* the number of middlewares of the app
ASSUME NAssumption == N \in Nat \ {0}

Mwares == 1 .. N

VARIABLES
    conf,        \* what was requested: see Configs
    pc,          \* the stage of ServeRequestedEndPoint
    i,           \* the middleware whose hook is called next
    defers,      \* the deferred calls, the last one is run first
    panicking,   \* the panic in flight: "none" or its kind
    midwares,    \* sw.midwares: whether the Response hooks are armed
    written,     \* sw.written
    ctxt,        \* the context: "none", "open" or "closed"
    errored,     \* the context has an error
    redirecting, \* the context is redirecting
    ctrl,        \* the ControlManager: prepared, executed, state, view
    parse,       \* the parse goroutine: "idle", "spawned", "reading", "ended"
    parseError,  \* parseState.Error is not nil
    uploads,     \* temporary files of a multipart form exist
    log          \* the calls into the program so far

vars == <<conf, pc, i, defers, panicking, midwares, written, ctxt, errored,
          redirecting, ctrl, parse, parseError, uploads, log>>
answer == <<written, errored, redirecting, log>>
parsing == <<parse, parseError, uploads>>

\* The end point, and the request's method and headers as far as they matter.
\* SunnyEndPoint finds nothing for OPTIONS (route.go:524); it gets this far with
\* an end point that the caller of ServeRequestedEndPoint supplies.
Configs ==
    [endpoint : {"none", "handler", "scontroller", "func"},
     method   : {"GET", "POST", "OPTIONS"},
     expectFails : BOOLEAN,   \* Expect: 100-continue with too large a body
     statusStyle : BOOLEAN]   \* the func controller returns a status as well

\* What a call into the program may do; "raise" stands for RaiseAppError and
\* "bounce" for Redirect, which both set the context before they panic.
Outcomes == {"return", "write", "seterror", "setredirect", "raise", "bounce", "panic"}
Panics(o) == o \in {"raise", "bounce", "panic"}
KindOf(o) == CASE o = "raise" -> "contexterror" [] o = "bounce" -> "redirect" [] OTHER -> "other"

Unprepared == [prepared |-> FALSE, executed |-> FALSE, state |-> "0", view |-> FALSE]

Init ==
    /\ conf \in {c \in Configs :
                   /\ c.expectFails => c.method = "POST"
                   /\ c.statusStyle => c.endpoint = "func"}
    /\ pc = "enter" /\ i = 1
    /\ defers = <<>> /\ panicking = "none"
    /\ midwares = FALSE /\ written = FALSE
    /\ ctxt = "none" /\ errored = FALSE /\ redirecting = FALSE
    /\ ctrl = Unprepared
    /\ parse = "idle" /\ parseError = FALSE /\ uploads = FALSE
    /\ log = <<>>

-----------------------------------------------------------------------------
(* The response writer.                                                    *)

\* The first n Response hooks, in the order WriteHeader calls them; when they
\* are not all of them, the last one panicked.
Responses(n) == [k \in 1 .. n |-> <<"Response", N + 1 - k, k < n \/ n = N>>]

\* A mutant: WriteHeader forgets that it has run.
WriteHeaderAgain(l, newlog) ==
    /\ \E n \in 1 .. N : newlog = IF midwares THEN l \o Responses(n) ELSE l
    /\ written' = TRUE

\* WriteHeader: the first one runs the Response hooks from the last middleware
\* to the first.  A hook that panics ends the loop; the panic is recovered and
\* the header is written all the same.
WriteHeader(l, newlog) ==
    /\ IF written \/ ~midwares
         THEN newlog = l
         ELSE \E n \in 1 .. N : newlog = l \o Responses(n)
    /\ written' = TRUE

\* Code of the program runs: hook h of middleware m, with outcome o.  The log
\* says whether it returned.
Call(h, m, o) ==
    /\ errored' = (errored \/ o \in {"seterror", "raise"})
    /\ redirecting' = (redirecting \/ o \in {"setredirect", "bounce"})
    /\ IF o = "write" \/ (o \in {"setredirect", "bounce"} /\ ~redirecting)
         THEN WriteHeader(Append(log, <<h, m, ~Panics(o)>>), log')
         ELSE log' = Append(log, <<h, m, ~Panics(o)>>) /\ UNCHANGED written

\* The framework answers by itself (ErrorHTML, setreqerror, ServeOptions).
Answer == WriteHeader(log, log') /\ UNCHANGED <<errored, redirecting>>

\* A panic leaves the function; its deferred calls run next.
Panic(kind) == panicking' = kind /\ pc' = "unwind" /\ UNCHANGED i
Goto(stage) == pc' = stage /\ i' = 1 /\ UNCHANGED panicking

\* Middleware i's hook h: then the next middleware's, or stage `after`.
Hook(h, o, after) ==
    /\ Call(h, i, o)
    /\ IF Panics(o) THEN Panic(KindOf(o))
       ELSE IF i < N THEN i' = i + 1 /\ UNCHANGED <<pc, panicking>>
       ELSE Goto(after)

-----------------------------------------------------------------------------
(* Up to the handler.                                                      *)

\* A request nobody serves: NotFound, before anything was deferred.
NoEndPoint ==
    /\ pc = "enter" /\ conf.endpoint = "none"
    /\ Answer
    /\ Goto("dec")
    /\ UNCHANGED <<conf, defers, midwares, ctxt, ctrl, parsing>>

\* NewSunnyContext and ParseRequestData: POST bodies are parsed by a goroutine,
\* a query at once.
OpenContext ==
    /\ pc = "enter" /\ conf.endpoint # "none"
    /\ ctxt' = "open"
    /\ \/ /\ conf.expectFails
          /\ parse' = "ended" /\ parseError' = TRUE
          /\ Panic("contexterror")
       \/ /\ conf.method = "POST" /\ ~conf.expectFails
          /\ parse' = "spawned" /\ UNCHANGED parseError
          /\ Goto("resources")
       \/ /\ conf.method # "POST"
          /\ parse' = "ended" /\ parseError' \in BOOLEAN
          /\ Goto("resources")
    /\ UNCHANGED <<conf, defers, midwares, ctrl, uploads, answer>>

\* The functions given to AddResourceFunc fill the context's resources.
SetResources ==
    /\ pc = "resources"
    /\ \E o \in {"return", "panic"} :
         /\ Call("Resource", 0, o)
         /\ IF Panics(o) THEN Panic(KindOf(o)) ELSE Goto("request")
    /\ UNCHANGED <<conf, defers, midwares, ctxt, ctrl, parsing>>

\* A mutant: Cleanup is deferred before Request is called.
RequestHookDefersFirst ==
    /\ pc = "request"
    /\ \E o \in Outcomes :
         /\ Hook("Request", o, "headers")
         /\ defers' = Append(defers, <<"Cleanup", i>>)
    /\ UNCHANGED <<conf, midwares, ctxt, ctrl, parsing>>

\* midware.Request, and only if it returns, defer midware.Cleanup.
RequestHook ==
    /\ pc = "request"
    /\ \E o \in Outcomes :
         /\ Hook("Request", o, "headers")
         /\ defers' = IF Panics(o) THEN defers
                                   ELSE Append(defers, <<"Cleanup", i>>)
    /\ UNCHANGED <<conf, midwares, ctxt, ctrl, parsing>>

\* A mutant: the Response hooks are armed before OPTIONS is answered.
HandleHeadersArmed ==
    /\ pc = "headers"
    /\ midwares' = TRUE
    /\ IF conf.method = "OPTIONS"
         THEN /\ \/ Answer /\ Goto("unwind")
                 \/ Panic("other") /\ UNCHANGED answer
         ELSE Goto("body") /\ UNCHANGED answer
    /\ UNCHANGED <<conf, defers, ctxt, ctrl, parsing>>

\* OPTIONS is answered here, with no Response hooks; a handler that finds no
\* controller to ask for its methods panics.  Otherwise the hooks are armed.
HandleHeaders ==
    /\ pc = "headers"
    /\ IF conf.method = "OPTIONS"
         THEN /\ \/ Answer /\ Goto("unwind")
                 \/ Panic("other") /\ UNCHANGED answer
              /\ UNCHANGED midwares
         ELSE Goto("body") /\ midwares' = TRUE /\ UNCHANGED answer
    /\ UNCHANGED <<conf, defers, ctxt, ctrl, parsing>>

BodyHook ==
    /\ pc = "body"
    /\ \E o \in Outcomes : Hook("Body", o, "lookup")
    /\ UNCHANGED <<conf, defers, midwares, ctxt, ctrl, parsing>>

\* GetControlManager may find nothing: NotFound, without waiting for the parse.
Lookup ==
    /\ pc = "lookup"
    /\ \/ conf.endpoint # "handler" /\ Answer /\ Goto("unwind")
       \/ Goto("wait") /\ UNCHANGED answer
    /\ UNCHANGED <<conf, defers, midwares, ctxt, ctrl, parsing>>

\* A mutant: the request goes on while its body is still being parsed.
WaitRequestDataSkipped ==
    /\ pc = "wait"
    /\ IF parseError
         THEN Answer /\ Goto("unwind")
         ELSE /\ Goto(IF conf.endpoint = "handler" THEN "handler" ELSE "controller")
              /\ UNCHANGED answer
    /\ UNCHANGED <<conf, defers, midwares, ctxt, ctrl, parsing>>

\* WaitRequestData blocks until the parse has ended; its error is answered.
WaitRequestData ==
    /\ pc = "wait" /\ parse = "ended"
    /\ IF parseError
         THEN Answer /\ Goto("unwind")
         ELSE /\ Goto(IF conf.endpoint = "handler" THEN "handler" ELSE "controller")
              /\ UNCHANGED answer
    /\ UNCHANGED <<conf, defers, midwares, ctxt, ctrl, parsing>>

\* An http.Handler or ContextHandler.
Handler ==
    /\ pc = "handler"
    /\ \E o \in Outcomes :
         /\ Call("Handler", 0, o)
         /\ IF Panics(o) THEN Panic(KindOf(o)) ELSE Goto("unwind")
    /\ UNCHANGED <<conf, defers, midwares, ctxt, ctrl, parsing>>

-----------------------------------------------------------------------------
(* The controller (mvc/controller/controller.go).                          *)

\* midware.Controller; it may also preset the state with SetState.
ControllerHook ==
    /\ pc = "controller"
    /\ \E o \in Outcomes : Hook("Controller", o, "prepare")
    /\ \E preset \in {ctrl.state, "error"} : ctrl' = [ctrl EXCEPT !.state = preset]
    /\ UNCHANGED <<conf, defers, midwares, ctxt, parsing>>

\* A preset error state: neither prepared nor executed.
PrepareSkipped ==
    /\ pc = "prepare" /\ ctrl.state = "error"
    /\ Goto("view?")
    /\ defers' = Append(defers, <<"Destruct", 0>>)
    /\ UNCHANGED <<conf, midwares, ctxt, ctrl, answer, parsing>>

\* No controller (404), or a tagged field that cannot be fed (500).
PrepareFails ==
    /\ pc = "prepare" /\ ctrl.state = "0"
    /\ ctrl' = [ctrl EXCEPT !.state = "error"]
    /\ Goto("view?")
    /\ defers' = Append(defers, <<"Destruct", 0>>)
    /\ UNCHANGED <<conf, midwares, ctxt, answer, parsing>>

\* Prepare: Construct_ is called on a struct controller; an error on the
\* context becomes the state.
Prepare ==
    /\ pc = "prepare" /\ ctrl.state = "0"
    /\ \E o \in Outcomes :
         /\ IF conf.endpoint = "scontroller"
              THEN Call("Construct", 0, o)
              ELSE o = "return" /\ UNCHANGED answer
         /\ IF Panics(o)
              THEN Panic(KindOf(o)) /\ UNCHANGED ctrl
              ELSE /\ Goto("execute")
                   /\ ctrl' = [ctrl EXCEPT !.prepared = TRUE,
                                           !.state = IF errored' THEN "error" ELSE "200"]
    /\ UNCHANGED <<conf, defers, midwares, ctxt, parsing>>

\* The action returns a view (200), nothing (-1), or a status that is an error.
ActionResults == [state : {"200"}, view : {TRUE}]
                 \cup [state : {"-1", "error"}, view : {FALSE}]

\* A mutant: Cleanup is deferred ahead of the action, as well as after it.
ExecuteDefersTwice ==
    /\ pc = "execute" /\ ctrl.state = "200"
    /\ \E o \in Outcomes, res \in ActionResults :
         /\ Call("Action", 0, o)
         /\ defers' = defers \o <<<<"Destruct", 0>>, <<"Destruct", 0>>>>
         /\ IF Panics(o)
              THEN Panic(KindOf(o)) /\ UNCHANGED ctrl
              ELSE /\ Goto("view?")
                   /\ ctrl' = [ctrl EXCEPT !.executed = TRUE, !.state = res.state,
                                           !.view = res.view]
    /\ UNCHANGED <<conf, midwares, ctxt, parsing>>

\* Execute calls the action.  defer ctrlmgr.Cleanup() comes after the call: a
\* panic in the action leaves nothing deferred for the controller.
Execute ==
    /\ pc = "execute" /\ ctrl.state = "200"
    /\ \E o \in Outcomes, res \in ActionResults :
         /\ Call("Action", 0, o)
         /\ IF Panics(o)
              THEN Panic(KindOf(o)) /\ UNCHANGED <<ctrl, defers>>
              ELSE /\ Goto("view?")
                   /\ ctrl' = [ctrl EXCEPT !.executed = TRUE, !.state = res.state,
                                           !.view = res.view]
                   /\ defers' = Append(defers, <<"Destruct", 0>>)
    /\ UNCHANGED <<conf, midwares, ctxt, parsing>>

\* No such action for this method (404).
ExecuteNoAction ==
    /\ pc = "execute" /\ ctrl.state = "200" /\ conf.endpoint = "scontroller"
    /\ ctrl' = [ctrl EXCEPT !.state = "error"]
    /\ Goto("view?")
    /\ defers' = Append(defers, <<"Destruct", 0>>)
    /\ UNCHANGED <<conf, midwares, ctxt, answer, parsing>>

\* The state is an error already: the action is not called.  A controller that
\* returns a status then has it read from an empty result, which panics.
ExecuteSkipped ==
    /\ pc = "execute" /\ ctrl.state = "error"
    /\ IF conf.statusStyle
         THEN Panic("other") /\ UNCHANGED <<ctrl, defers>>
         ELSE /\ Goto("view?")
              /\ ctrl' = [ctrl EXCEPT !.executed = TRUE]
              /\ defers' = Append(defers, <<"Destruct", 0>>)
    /\ UNCHANGED <<conf, midwares, ctxt, answer, parsing>>

HasView == ctrl.view /\ ~redirecting /\ ~errored

ChooseView ==
    /\ pc = "view?"
    /\ Goto(IF HasView THEN "view" ELSE "outcome")
    /\ UNCHANGED <<conf, defers, midwares, ctxt, ctrl, answer, parsing>>

ViewHook ==
    /\ pc = "view"
    /\ \E o \in Outcomes : Hook("View", o, "publish")
    /\ UNCHANGED <<conf, defers, midwares, ctxt, ctrl, parsing>>

\* PublishView renders the view (an error is only logged) or panics.
PublishView ==
    /\ pc = "publish"
    /\ \E o \in {"return", "write", "panic"} :
         /\ Call("Publish", 0, o)
         /\ IF Panics(o) THEN Panic(KindOf(o)) ELSE Goto("outcome")
    /\ UNCHANGED <<conf, defers, midwares, ctxt, ctrl, parsing>>

\* An error of the context, a redirect, or an error state is answered; a
\* listener of the event may panic.
Outcome ==
    /\ pc = "outcome"
    /\ \/ /\ errored
          /\ \/ Answer /\ Goto("unwind")
             \/ Panic("other") /\ UNCHANGED answer
       \/ /\ ~errored /\ redirecting
          /\ \/ Goto("unwind")
             \/ Panic("other")
          /\ UNCHANGED answer
       \/ /\ ~errored /\ ~redirecting
          /\ IF ctrl.state = "error" THEN Answer ELSE UNCHANGED answer
          /\ Goto("unwind")
    /\ UNCHANGED <<conf, defers, midwares, ctxt, ctrl, parsing>>

-----------------------------------------------------------------------------
(* The deferred calls.                                                     *)

Top == defers[Len(defers)]
Pop == SubSeq(defers, 1, Len(defers) - 1)

\* ctrlmgr.Cleanup calls Destruct_ on a prepared struct controller.
RunsDestruct == ctrl.prepared /\ conf.endpoint = "scontroller"

\* A mutant: a panic in a deferred call abandons the ones below it.
RunDeferStops ==
    /\ pc = "unwind" /\ defers # <<>>
    /\ IF Top[1] = "Destruct" /\ ~RunsDestruct
         THEN UNCHANGED <<answer, panicking>> /\ defers' = Pop
         ELSE \E o \in Outcomes :
                /\ Call(Top[1], Top[2], o)
                /\ panicking' = IF Panics(o) THEN KindOf(o) ELSE panicking
                /\ defers' = IF Panics(o) THEN <<>> ELSE Pop
    /\ UNCHANGED <<conf, pc, i, midwares, ctxt, ctrl, parsing>>

\* Deferred calls run last in, first out.  One that panics replaces the panic
\* in flight, and the remaining ones still run.
RunDefer ==
    /\ pc = "unwind" /\ defers # <<>>
    /\ defers' = Pop
    /\ IF Top[1] = "Destruct" /\ ~RunsDestruct
         THEN UNCHANGED <<answer, panicking>>
         ELSE \E o \in Outcomes :
                /\ Call(Top[1], Top[2], o)
                /\ panicking' = IF Panics(o) THEN KindOf(o) ELSE panicking
    /\ UNCHANGED <<conf, pc, i, midwares, ctxt, ctrl, parsing>>

\* A mutant: a recovered panic is logged but not answered.
RecoverSilently ==
    /\ pc = "unwind" /\ defers = <<>>
    /\ pc' = "close" /\ panicking' = "none" /\ UNCHANGED answer
    /\ UNCHANGED <<conf, i, defers, midwares, ctxt, ctrl, parsing>>

\* recover(): a redirect only fires an event; anything else is also answered.
Recover ==
    /\ pc = "unwind" /\ defers = <<>>
    /\ pc' = "close"
    /\ panicking' = "none"
    /\ IF panicking \in {"none", "redirect"} THEN UNCHANGED answer ELSE Answer
    /\ UNCHANGED <<conf, i, defers, midwares, ctxt, ctrl, parsing>>

\* A listener of the event panics: the context is never closed.
RecoverPanics ==
    /\ pc = "unwind" /\ defers = <<>> /\ panicking # "none"
    /\ pc' = "dec"
    /\ UNCHANGED <<conf, i, defers, panicking, midwares, ctxt, ctrl, answer, parsing>>

\* A mutant: the temporary files are left behind.
CloseContextKeepsFiles ==
    /\ pc = "close"
    /\ ctxt' = "closed"
    /\ Goto("dec")
    /\ UNCHANGED <<conf, defers, midwares, ctrl, answer, parsing>>

\* ctxt.Close(); r.MultipartForm.RemoveAll() if the form is there by now.
CloseContext ==
    /\ pc = "close"
    /\ ctxt' = "closed"
    /\ uploads' = FALSE
    /\ Goto("dec")
    /\ UNCHANGED <<conf, defers, midwares, ctrl, answer, parse, parseError>>

\* decrunners, the first call deferred and the last one run.
DecRunners ==
    /\ pc = "dec"
    /\ pc' = "done"
    /\ UNCHANGED <<conf, i, defers, panicking, midwares, ctxt, ctrl, answer, parsing>>

-----------------------------------------------------------------------------
(* The parse goroutine.                                                    *)

\* It reads c.Request, which is nil once the context is closed; that panics,
\* and End is called with an error.
ParserStart ==
    /\ parse = "spawned"
    /\ IF ctxt = "open"
         THEN parse' = "reading" /\ UNCHANGED parseError
         ELSE parse' = "ended" /\ parseError' = TRUE
    /\ UNCHANGED <<conf, pc, i, defers, panicking, midwares, ctxt, ctrl, answer, uploads>>

\* A mutant: a parse that fails or panics does not reach End.
ParserEndOnlyOnSuccess ==
    /\ parse = "reading"
    /\ parse' \in {"panicked", "ended"}
    /\ parseError' = FALSE
    /\ uploads' \in (IF parse' = "ended" THEN BOOLEAN ELSE {FALSE})
    /\ UNCHANGED <<conf, pc, i, defers, panicking, midwares, ctxt, ctrl, answer>>

\* The body is parsed, perhaps with uploads in temporary files, or parsing
\* fails or panics: End is called in every case.  A failed parse leaves no file,
\* unless it is c.Request that has become nil since the form was read.
ParserEnd ==
    /\ parse = "reading"
    /\ parse' = "ended"
    /\ parseError' \in BOOLEAN
    /\ uploads' \in (IF parseError' /\ ctxt = "open" THEN {FALSE} ELSE BOOLEAN)
    /\ UNCHANGED <<conf, pc, i, defers, panicking, midwares, ctxt, ctrl, answer>>

-----------------------------------------------------------------------------
Serve ==
    \/ NoEndPoint \/ OpenContext \/ SetResources \/ RequestHook \/ HandleHeaders \/ BodyHook
    \/ Lookup \/ WaitRequestData \/ Handler
    \/ ControllerHook \/ PrepareSkipped \/ PrepareFails \/ Prepare
    \/ Execute \/ ExecuteNoAction \/ ExecuteSkipped
    \/ ChooseView \/ ViewHook \/ PublishView \/ Outcome
    \/ RunDefer \/ Recover \/ RecoverPanics \/ CloseContext \/ DecRunners

Parser == ParserStart \/ ParserEnd

Next == Serve \/ Parser

\* Hooks return and a body is read to its end or times out.
Spec == Init /\ [][Next]_vars /\ WF_vars(Serve) /\ WF_vars(Parser)

-----------------------------------------------------------------------------
(* Properties.                                                             *)

\* What the log says of hook h: which calls were its, whether it was called at
\* all, and whether one of its calls returned.
Calls(h) == {k \in 1 .. Len(log) : log[k][1] = h}
Called(h) == \E k \in 1 .. Len(log) : log[k][1] = h
Returned(h) == \E k \in 1 .. Len(log) : log[k][1] = h /\ log[k][3]
Panicked(h) == \E k \in 1 .. Len(log) : log[k][1] = h /\ ~log[k][3]
Ended == pc \in {"dec", "done"}

\* The middlewares whose Request hook returned, and those cleaned up.
ToCleanUp == {log[k][2] : k \in {l \in Calls("Request") : log[l][3]}}
CleanedUp == {log[k][2] : k \in Calls("Cleanup")}

\* However a request ends, Cleanup was called exactly once for each middleware
\* whose Request hook returned, last first, and for no other, panics in Cleanup
\* hooks themselves included (sunny.go:367-370).
CleanupUndoesRequest ==
    /\ \A k, l \in Calls("Request") : k < l => log[k][2] < log[l][2]
    /\ \A k, l \in Calls("Cleanup") : k < l => log[k][2] > log[l][2]
    /\ CleanedUp \subseteq ToCleanUp
    /\ Ended => CleanedUp = ToCleanUp

\* No Response hook runs twice, whoever writes a response how often, and none
\* runs unless every Request hook returned (sunny.go:41-56, 376).
ResponseRunsOnce ==
    /\ \A k, l \in Calls("Response") : log[k][2] = log[l][2] => k = l
    /\ Called("Response") => ToCleanUp = Mwares

\* The chain of an OPTIONS request ends before Body (README.md:238): only
\* Request and Cleanup hooks are called for it.
OptionsChainEnds ==
    conf.method = "OPTIONS" =>
        \A k \in 1 .. Len(log) : log[k][1] \in {"Resource", "Request", "Cleanup"}

\* Once a panic is in flight, whoever raised it, the program or the framework
\* (context.go:168, an OPTIONS request without methods, controller.go:286, a
\* listener), or once a call of the program has panicked, a Response hook
\* included, the request does not end unanswered (sunny.go:330-352).  The
\* exception: a listener of the error event that panics in the recovering call
\* itself, which leaves the context open.
PanicIsAnswered ==
    []((panicking # "none" \/ \E k \in 1 .. Len(log) : ~log[k][3])
           => [](Ended /\ ctxt = "closed" => written))

\* Neither handler nor controller runs before the body is parsed without an
\* error (sunny.go:392, 429; web/misc.go:183-210).
HandlerSeesParsedBody ==
    (Called("Handler") \/ Called("Controller")) => parse = "ended" /\ ~parseError

\* No upload is left behind by a request that reached its handler, however it
\* ended (sunny.go:349-351).
UploadsRemoved ==
    (Ended /\ ctxt = "closed" /\ (Called("Handler") \/ Called("Controller"))) => ~uploads

\* Destruct_ runs at most once, only after Construct_ returned; and it does run
\* if the action did not panic, whatever the hooks, the view or the framework do
\* after it (sunny.go:403-404, controller.go:346-351).
DestructFollowsConstruct ==
    /\ \A k, l \in Calls("Destruct") : k = l
    /\ Called("Destruct") => Returned("Construct") /\ ~Panicked("Action")
    /\ (Ended /\ Returned("Construct") /\ ~Panicked("Action")) => Called("Destruct")

\* Every request ends: it does not wait for its body forever, and decrunners
\* is reached from every stage (sunny.go:311, context.go:87-94).
RequestEnds == <>(pc = "done")

\* README.md:193-194 says of Destruct_ that it "is called for every action, but
\* at the end of the request".
DestructForEveryAction == (Ended /\ Called("Action")) => Called("Destruct")

\* README.md:241-242 says that Response is called when the response is written
\* and that Cleanup is called "at the end": no Response hook follows a Cleanup.
CleanupAtTheEnd ==
    \A k, l \in 1 .. Len(log) :
        (log[k][1] = "Cleanup" /\ log[l][1] = "Response") => l < k
=============================================================================
