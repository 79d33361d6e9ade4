------------------------- MODULE RequestPipelineProofs -------------------------
(***************************************************************************)
(* For any number of middlewares, whatever the hooks do: a handler sees a  *)
(* parsed body, its uploads are removed, the chain of an OPTIONS request   *)
(* ends, Cleanup undoes Request, Response hooks run once, a panic is       *)
(* answered and Destruct_ follows Construct_.                              *)
(*                                                                         *)
(* Three invariants.  IInv says which stages lie behind the wait for the   *)
(* body, that only CloseContext closes the context, and that OPTIONS never *)
(* gets past its answer.  LogInv relates the log to the stack of deferred  *)
(* calls: what was begun is undone or still on the stack.  FlightInv says  *)
(* where a panic can be that has not been answered.                        *)
(***************************************************************************)
EXTENDS RequestPipeline, SequenceTheorems, TLAPS

Hooks == {"Resource", "Request", "Cleanup", "Body", "Handler", "Controller", "Construct",
          "Action", "Destruct", "View", "Publish", "Response"}
Entries == Hooks \X Nat \X BOOLEAN
Deferred == {"Cleanup", "Destruct"} \X Nat

Stages == {"enter", "resources", "request", "headers", "body", "lookup", "wait", "handler",
           "controller", "prepare", "execute", "view?", "view", "publish", "outcome",
           "unwind", "close", "dec", "done"}

\* Behind WaitRequestData.
Parsed == {"handler", "controller", "prepare", "execute", "view?", "view", "publish", "outcome"}

\* Where an OPTIONS request can be.
OptionsStages == {"enter", "resources", "request", "headers", "unwind", "close", "dec", "done"}

Served == Called("Handler") \/ Called("Controller")

TypeOK ==
    /\ log \in Seq(Entries)
    /\ defers \in Seq(Deferred)
    /\ midwares \in BOOLEAN
    /\ i \in Nat
    /\ pc \in Stages

ParsedInv ==
    /\ pc \in Parsed \/ Served => parse = "ended" /\ ~parseError
    /\ pc = "enter" => parse = "idle"

ClosedInv == /\ ctxt = "closed" => pc \in {"dec", "done"}
             /\ ctxt = "closed" /\ Served => ~uploads

OptionsInv ==
    conf.method = "OPTIONS" =>
        /\ pc \in OptionsStages
        /\ ~midwares
        /\ \A k \in 1 .. Len(defers) : defers[k][1] = "Cleanup"
        /\ \A h \in Hooks : Called(h) => h \in {"Resource", "Request", "Cleanup"}

IInv == TypeOK /\ ParsedInv /\ ClosedInv /\ OptionsInv

-----------------------------------------------------------------------------
(* What a step adds to the log.                                            *)

\* Only hooks of H, and Response hooks once they are armed.
Adds(H) ==
    /\ log' \in Seq(Entries)
    /\ \A h \in Hooks : Called(h)' => Called(h) \/ h \in H \/ (h = "Response" /\ midwares)

\* The Response hooks are entries of the log.
LEMMA ResponsesAreEntries ==
    ASSUME NEW n \in Mwares
    PROVE  /\ Responses(n) \in Seq(Entries)
           /\ \A k \in 1 .. Len(Responses(n)) : Responses(n)[k][1] = "Response"
<1>1. n \in Nat /\ N \in Nat /\ n <= N
  BY NAssumption DEF Mwares
<1> DEFINE entry(k) == <<"Response", N + 1 - k, k < n \/ n = N>>
<1>2. ASSUME NEW k \in 1 .. n PROVE entry(k) \in Entries /\ entry(k)[1] = "Response"
  <2>1. N + 1 - k \in Nat
    BY <1>1
  <2>2. (k < n \/ n = N) \in BOOLEAN
    OBVIOUS
  <2>3. "Response" \in Hooks
    BY DEF Hooks
  <2> QED
    BY <2>1, <2>2, <2>3 DEF Entries
<1>3. Responses(n) = [k \in 1 .. n |-> entry(k)]
  BY DEF Responses
<1> HIDE DEF entry
<1>4. Responses(n) \in Seq(Entries)
  BY <1>1, <1>2, <1>3
<1>5. Len(Responses(n)) = n
  BY <1>1, <1>3
<1> QED
  BY <1>2, <1>3, <1>4, <1>5

\* WriteHeader adds Response hooks, if they are armed.
LEMMA WriteHeaderAdds ==
    ASSUME NEW l \in Seq(Entries), NEW new, WriteHeader(l, new)
    PROVE  /\ new \in Seq(Entries)
           /\ \A k \in 1 .. Len(new) :
                  \/ k \in 1 .. Len(l) /\ new[k] = l[k]
                  \/ new[k][1] = "Response" /\ midwares
<1>1. CASE new = l
  BY <1>1
<1>2. ASSUME midwares, NEW n \in Mwares, new = l \o Responses(n)
      PROVE  /\ new \in Seq(Entries)
             /\ \A k \in 1 .. Len(new) :
                    \/ k \in 1 .. Len(l) /\ new[k] = l[k]
                    \/ new[k][1] = "Response" /\ midwares
  BY <1>2, ResponsesAreEntries
<1> QED
  BY <1>1, <1>2 DEF WriteHeader, Mwares

\* The framework's own answers add nothing else.
LEMMA AnswerAdds == ASSUME TypeOK, Answer \/ UNCHANGED answer PROVE Adds({})
<1>1. CASE Answer
  <2>1. WriteHeader(log, log')
    BY <1>1 DEF Answer
  <2> QED
    BY <2>1, WriteHeaderAdds DEF TypeOK, Adds, Called
<1>2. CASE UNCHANGED answer
  BY <1>2 DEF answer, TypeOK, Adds, Called
<1> QED
  BY <1>1, <1>2

\* A call adds the hook that was called.
LEMMA CallAdds ==
    ASSUME TypeOK, NEW h \in Hooks, NEW m \in Nat, NEW o \in Outcomes, Call(h, m, o)
    PROVE  Adds({h})
<1> DEFINE e == <<h, m, ~Panics(o)>>
<1>1. e \in Entries
  BY DEF Entries, Panics
<1>2. Append(log, e) \in Seq(Entries)
  BY <1>1 DEF TypeOK
<1>3. WriteHeader(Append(log, e), log') \/ log' = Append(log, e)
  BY DEF Call
<1>4. /\ log' \in Seq(Entries)
      /\ \A k \in 1 .. Len(log') :
             \/ k \in 1 .. Len(Append(log, e)) /\ log'[k] = Append(log, e)[k]
             \/ log'[k][1] = "Response" /\ midwares
  BY <1>2, <1>3, WriteHeaderAdds
<1>5. \A k \in 1 .. Len(Append(log, e)) :
             \/ k \in 1 .. Len(log) /\ Append(log, e)[k] = log[k]
             \/ Append(log, e)[k][1] = h
  BY <1>1 DEF TypeOK
<1> QED
  BY <1>4, <1>5 DEF Adds, Called

\* A hook is called for middleware i; the next middleware, the next stage or the
\* deferred calls follow.
LEMMA HookAdds ==
    ASSUME TypeOK, NEW h \in Hooks, NEW o \in Outcomes, NEW after \in Stages, Hook(h, o, after)
    PROVE  Adds({h}) /\ i' \in Nat /\ pc' \in {pc, after, "unwind"}
<1>1. Adds({h})
  BY CallAdds DEF Hook, TypeOK
<1>2. i' \in Nat /\ pc' \in {pc, after, "unwind"}
  BY DEF Hook, Panic, Goto, TypeOK
<1> QED
  BY <1>1, <1>2

-----------------------------------------------------------------------------
(* What keeps the invariant, whatever the action.                          *)

\* A step of the request before its context is closed.
LEMMA Common ==
    ASSUME IInv, TypeOK', OptionsInv', NEW H, Adds(H),
           pc \notin {"dec", "done"}, pc' # "enter", UNCHANGED <<ctxt, parsing>>,
           pc' \in Parsed \/ "Handler" \in H \/ "Controller" \in H => parse = "ended" /\ ~parseError
    PROVE  IInv'
<1>1. Served' => Served \/ "Handler" \in H \/ "Controller" \in H
  BY DEF Served, Adds, Hooks
<1>2. ParsedInv'
  BY <1>1 DEF IInv, ParsedInv, parsing
<1>3. ctxt' # "closed"
  BY DEF IInv, ClosedInv
<1> QED
  BY <1>2, <1>3 DEF IInv, ClosedInv

\* OPTIONS requests do not get to the stages behind their answer.
LEMMA BehindOptions ==
    ASSUME IInv, conf' = conf, pc \notin OptionsStages
    PROVE  OptionsInv'
  BY DEF IInv, OptionsInv

\* Before its answer an OPTIONS request arms nothing and defers Cleanup only.
LEMMA BeforeOptions ==
    ASSUME IInv, conf' = conf, NEW H, Adds(H), H \subseteq {"Resource", "Request", "Cleanup"},
           conf.method = "OPTIONS" => pc' \in OptionsStages /\ midwares' = midwares,
           \A k \in 1 .. Len(defers') :
               defers'[k][1] = "Cleanup" \/ (k \in 1 .. Len(defers) /\ defers'[k] = defers[k])
    PROVE  OptionsInv'
<1> SUFFICES ASSUME conf.method = "OPTIONS" PROVE OptionsInv'
  BY DEF OptionsInv
<1>1. ~midwares'
  BY DEF IInv, OptionsInv, TypeOK
<1>2. \A k \in 1 .. Len(defers') : defers'[k][1] = "Cleanup"
  BY DEF IInv, OptionsInv
<1>3. \A h \in Hooks : Called(h)' => h \in {"Resource", "Request", "Cleanup"}
  BY DEF IInv, OptionsInv, Adds
<1> QED
  BY <1>1, <1>2, <1>3 DEF OptionsInv

-----------------------------------------------------------------------------
\* Nothing is parsed, logged or deferred when a request enters.
LEMMA Begins == Init => IInv
<1> SUFFICES ASSUME Init PROVE IInv
  OBVIOUS
<1>1. TypeOK
  <2>1. log \in Seq(Entries) /\ defers \in Seq(Deferred)
    BY DEF Init
  <2>2. midwares \in BOOLEAN /\ i \in Nat /\ pc \in Stages
    BY DEF Init, Stages
  <2> QED
    BY <2>1, <2>2 DEF TypeOK
<1>2. \A h \in Hooks : ~Called(h)
  BY DEF Init, Called
<1>3. ~Served
  BY <1>2 DEF Served, Hooks
<1>4. ParsedInv /\ ClosedInv
  BY <1>3 DEF Init, ParsedInv, ClosedInv, Parsed
<1>5. OptionsInv
  BY <1>2 DEF Init, OptionsInv, OptionsStages
<1> QED
  BY <1>1, <1>4, <1>5 DEF IInv

\* From the end point to the wait for the body.
LEMMA EnterKeeps == ASSUME IInv, NoEndPoint PROVE IInv'
<1> USE DEF NoEndPoint, Goto
<1>1. Adds({})
  BY AnswerAdds DEF IInv
<1>2. TypeOK'
  BY <1>1 DEF IInv, TypeOK, Adds, Stages
<1>3. OptionsInv'
  BY <1>1, BeforeOptions DEF OptionsStages
<1> QED
  BY <1>1, <1>2, <1>3, Common DEF Parsed

LEMMA OpenContextKeeps == ASSUME IInv, OpenContext PROVE IInv'
<1> USE DEF OpenContext, Goto, Panic
<1>1. Adds({})
  BY AnswerAdds DEF IInv
<1>2. pc' \in {"unwind", "resources"} /\ ctxt' = "open"
  OBVIOUS
<1>3. TypeOK'
  BY <1>1, <1>2 DEF IInv, TypeOK, Adds, Stages
<1>4. OptionsInv'
  BY <1>1, <1>2, BeforeOptions DEF OptionsStages
<1>5. ~Served /\ ~Served'
  <2>1. ~Served
    BY DEF IInv, ParsedInv
  <2> QED
    BY <2>1, <1>1 DEF Served, Adds, Hooks
<1>6. ParsedInv' /\ ClosedInv'
  BY <1>2, <1>5 DEF ParsedInv, ClosedInv, Parsed
<1> QED
  BY <1>3, <1>4, <1>6 DEF IInv

LEMMA SetResourcesKeeps == ASSUME IInv, SetResources PROVE IInv'
<1> USE DEF SetResources, Goto, Panic
<1>1. Adds({"Resource"})
  BY CallAdds DEF IInv, Hooks, Outcomes
<1>2. pc' \in {"unwind", "request"} /\ i' \in Nat
  BY DEF IInv, TypeOK
<1>3. TypeOK'
  BY <1>1, <1>2 DEF IInv, TypeOK, Adds, Stages
<1>4. OptionsInv'
  BY <1>1, <1>2, BeforeOptions DEF OptionsStages
<1> QED
  BY <1>1, <1>2, <1>3, <1>4, Common DEF Parsed

LEMMA RequestHookKeeps == ASSUME IInv, RequestHook PROVE IInv'
<1> USE DEF RequestHook
<1>1. Adds({"Request"}) /\ i' \in Nat /\ pc' \in {"request", "headers", "unwind"}
  BY HookAdds DEF IInv, Hooks, Stages
<1>2. defers' \in {defers, Append(defers, <<"Cleanup", i>>)}
  OBVIOUS
<1>3. /\ defers' \in Seq(Deferred)
      /\ \A k \in 1 .. Len(defers') :
             defers'[k][1] = "Cleanup" \/ (k \in 1 .. Len(defers) /\ defers'[k] = defers[k])
  <2>1. <<"Cleanup", i>> \in Deferred
    BY DEF Deferred, IInv, TypeOK
  <2> QED
    BY <1>2, <2>1 DEF IInv, TypeOK
<1>4. TypeOK'
  BY <1>1, <1>3 DEF IInv, TypeOK, Adds, Stages
<1>5. OptionsInv'
  BY <1>1, <1>3, BeforeOptions DEF OptionsStages
<1> QED
  BY <1>1, <1>4, <1>5, Common DEF Parsed

LEMMA HandleHeadersKeeps == ASSUME IInv, HandleHeaders PROVE IInv'
<1> USE DEF HandleHeaders, Goto, Panic
<1>1. Adds({})
  BY AnswerAdds DEF IInv
<1>2. /\ pc' \in {"unwind", "body"} /\ i' \in Nat /\ midwares' \in BOOLEAN
      /\ conf.method = "OPTIONS" => pc' = "unwind" /\ midwares' = midwares
  <2>1. CASE conf.method = "OPTIONS"
    BY <2>1 DEF IInv, TypeOK
  <2>2. CASE conf.method # "OPTIONS"
    BY <2>2 DEF IInv, TypeOK
  <2> QED
    BY <2>1, <2>2
<1>3. TypeOK'
  BY <1>1, <1>2 DEF IInv, TypeOK, Adds, Stages
<1>4. OptionsInv'
  BY <1>1, <1>2, BeforeOptions DEF OptionsStages
<1> QED
  BY <1>1, <1>2, <1>3, <1>4, Common DEF Parsed

LEMMA BodyKeeps == ASSUME IInv, BodyHook \/ Lookup PROVE IInv'
<1>1. /\ Adds({"Body"}) /\ i' \in Nat /\ pc' \in {"body", "lookup", "wait", "unwind"}
      /\ pc \in {"body", "lookup"} /\ UNCHANGED <<conf, defers, midwares, ctxt, parsing>>
  <2>1. CASE BodyHook
    BY <2>1, HookAdds DEF IInv, BodyHook, Hooks, Stages
  <2>2. CASE Lookup
    <3>1. Adds({})
      BY <2>2, AnswerAdds DEF IInv, Lookup
    <3>2. pc' \in {"wait", "unwind"} /\ i' = 1
      BY <2>2 DEF Lookup, Goto
    <3> QED
      BY <2>2, <3>1, <3>2 DEF Adds, Lookup
  <2> QED
    BY <2>1, <2>2
<1>2. TypeOK'
  BY <1>1 DEF IInv, TypeOK, Adds, Stages
<1>3. OptionsInv'
  BY <1>1, BehindOptions DEF OptionsStages
<1> QED
  BY <1>1, <1>2, <1>3, Common DEF Parsed

\* The wait ends with the parse, and goes on only if there was no error.
LEMMA WaitKeeps == ASSUME IInv, WaitRequestData PROVE IInv'
<1> USE DEF WaitRequestData, Goto
<1>1. Adds({})
  BY AnswerAdds DEF IInv
<1>2. pc' \in {"unwind", "handler", "controller"} /\ i' = 1 /\ (pc' # "unwind" => parse = "ended" /\ ~parseError)
  OBVIOUS
<1>3. TypeOK'
  BY <1>1, <1>2 DEF IInv, TypeOK, Adds, Stages
<1>4. OptionsInv'
  BY BehindOptions DEF OptionsStages
<1> QED
  BY <1>1, <1>2, <1>3, <1>4, Common DEF Parsed

-----------------------------------------------------------------------------
\* The handler and the stages of a controller: the body is parsed, and stays so.
LEMMA Behind ==
    ASSUME IInv, pc \in Parsed, NEW H, Adds(H), i' \in Nat, pc' \in Parsed \cup {"unwind"},
           defers' = defers \/ defers' = Append(defers, <<"Destruct", 0>>),
           UNCHANGED <<conf, midwares, ctxt, parsing>>
    PROVE  IInv'
<1>1. defers' \in Seq(Deferred)
  <2>1. <<"Destruct", 0>> \in Deferred
    BY DEF Deferred
  <2>2. defers \in Seq(Deferred)
    BY DEF IInv, TypeOK
  <2>3. Append(defers, <<"Destruct", 0>>) \in Seq(Deferred)
    BY <2>1, <2>2
  <2> QED
    BY <2>2, <2>3
<1>2. TypeOK'
  BY <1>1 DEF IInv, TypeOK, Adds, Parsed, Stages
<1>3. OptionsInv'
  BY BehindOptions DEF Parsed, OptionsStages
<1>4. parse = "ended" /\ ~parseError
  BY DEF IInv, ParsedInv
<1> QED
  BY <1>2, <1>3, <1>4, Common DEF Parsed

LEMMA ControllerKeeps ==
    ASSUME IInv, Handler \/ ControllerHook \/ PrepareSkipped \/ PrepareFails \/ Prepare
    PROVE  IInv'
<1> USE DEF Goto, Panic
<1>1. CASE Handler
  <2>1. Adds({"Handler"})
    BY <1>1, CallAdds DEF IInv, Handler, Hooks
  <2>2. i' \in Nat /\ pc' = "unwind"
    BY <1>1 DEF IInv, TypeOK, Handler
  <2> QED
    BY <1>1, <2>1, <2>2, Behind DEF Handler, Parsed
<1>2. CASE ControllerHook
  <2>1. Adds({"Controller"}) /\ i' \in Nat /\ pc' \in {"controller", "prepare", "unwind"}
    BY <1>2, HookAdds DEF IInv, ControllerHook, Hooks, Stages
  <2> QED
    BY <1>2, <2>1, Behind DEF ControllerHook, Parsed
<1>3. CASE PrepareSkipped \/ PrepareFails
  <2>1. Adds({})
    BY <1>3, AnswerAdds DEF IInv, PrepareSkipped, PrepareFails
  <2> QED
    BY <1>3, <2>1, Behind DEF PrepareSkipped, PrepareFails, Parsed
<1>4. CASE Prepare
  <2>1. Adds({"Construct"})
    <3>1. CASE \E o \in Outcomes : Call("Construct", 0, o)
      BY <3>1, CallAdds DEF IInv, Hooks
    <3>2. CASE UNCHANGED answer
      BY <3>2, AnswerAdds DEF IInv, Adds
    <3> QED
      BY <1>4, <3>1, <3>2 DEF Prepare
  <2>2. i' \in Nat /\ pc' \in {"execute", "unwind"}
    BY <1>4 DEF IInv, TypeOK, Prepare
  <2> QED
    BY <1>4, <2>1, <2>2, Behind DEF Prepare, Parsed
<1> QED
  BY <1>1, <1>2, <1>3, <1>4

LEMMA ActionKeeps ==
    ASSUME IInv, Execute \/ ExecuteNoAction \/ ExecuteSkipped \/ ChooseView \/ ViewHook \/ PublishView \/ Outcome
    PROVE  IInv'
<1> USE DEF Goto, Panic
<1>1. CASE Execute
  <2>1. Adds({"Action"})
    BY <1>1, CallAdds DEF IInv, Execute, Hooks
  <2>2. i' \in Nat /\ pc' \in {"view?", "unwind"}
    <3>1. (pc' = "unwind" /\ i' = i) \/ (pc' = "view?" /\ i' = 1)
      BY <1>1 DEF Execute
    <3> QED
      BY <3>1 DEF IInv, TypeOK
  <2>3. defers' = defers \/ defers' = Append(defers, <<"Destruct", 0>>)
    BY <1>1 DEF Execute
  <2> QED
    BY <1>1, <2>1, <2>2, <2>3, Behind DEF Execute, Parsed
<1>2. CASE ExecuteNoAction \/ ExecuteSkipped \/ ChooseView
  <2>1. Adds({})
    BY <1>2, AnswerAdds DEF IInv, ExecuteNoAction, ExecuteSkipped, ChooseView
  <2>2. i' \in Nat /\ pc' \in {"view?", "view", "outcome", "unwind"}
    BY <1>2 DEF IInv, TypeOK, ExecuteNoAction, ExecuteSkipped, ChooseView
  <2> QED
    BY <1>2, <2>1, <2>2, Behind DEF ExecuteNoAction, ExecuteSkipped, ChooseView, Parsed
<1>3. CASE ViewHook
  <2>1. Adds({"View"}) /\ i' \in Nat /\ pc' \in {"view", "publish", "unwind"}
    BY <1>3, HookAdds DEF IInv, ViewHook, Hooks, Stages
  <2> QED
    BY <1>3, <2>1, Behind DEF ViewHook, Parsed
<1>4. CASE PublishView
  <2>1. Adds({"Publish"})
    BY <1>4, CallAdds DEF IInv, PublishView, Hooks, Outcomes
  <2>2. i' \in Nat /\ pc' \in {"outcome", "unwind"}
    BY <1>4 DEF IInv, TypeOK, PublishView
  <2> QED
    BY <1>4, <2>1, <2>2, Behind DEF PublishView, Parsed
<1>5. CASE Outcome
  <2>1. Adds({})
    BY <1>5, AnswerAdds DEF IInv, Outcome
  <2>2. i' \in Nat /\ pc' = "unwind"
    BY <1>5 DEF IInv, TypeOK, Outcome
  <2> QED
    BY <1>5, <2>1, <2>2, Behind DEF Outcome, Parsed
<1> QED
  BY <1>1, <1>2, <1>3, <1>4, <1>5

-----------------------------------------------------------------------------
\* The deferred calls are Cleanup and Destruct_; for OPTIONS, Cleanup only.
LEMMA RunDeferKeeps == ASSUME IInv, RunDefer PROVE IInv'
<1> USE DEF RunDefer
<1>1. Len(defers) \in 1 .. Len(defers) /\ Top \in Deferred
  BY DEF Top, IInv, TypeOK
<1>2. /\ defers' \in Seq(Deferred)
      /\ \A k \in 1 .. Len(defers') : k \in 1 .. Len(defers) /\ defers'[k] = defers[k]
  BY <1>1 DEF Pop, IInv, TypeOK
<1>3. Adds({Top[1]})
  <2>1. Top[1] \in Hooks /\ Top[2] \in Nat
    BY <1>1 DEF Deferred, Hooks
  <2>2. CASE UNCHANGED answer
    BY <2>2, AnswerAdds DEF IInv, Adds
  <2>3. ASSUME NEW o \in Outcomes, Call(Top[1], Top[2], o) PROVE Adds({Top[1]})
    BY <2>1, <2>3, CallAdds DEF IInv
  <2> QED
    BY <2>2, <2>3
<1>4. TypeOK'
  BY <1>2, <1>3 DEF IInv, TypeOK, Adds
<1>5. OptionsInv'
  <2>1. CASE conf.method = "OPTIONS"
    <3>1. Top[1] = "Cleanup"
      BY <1>1, <2>1 DEF IInv, OptionsInv, Top
    <3> QED
      BY <1>2, <1>3, <3>1, BeforeOptions DEF OptionsStages
  <2>2. CASE conf.method # "OPTIONS"
    BY <2>2 DEF OptionsInv
  <2> QED
    BY <2>1, <2>2
<1>6. Top[1] \notin {"Handler", "Controller"}
  BY <1>1 DEF Deferred
<1> QED
  BY <1>3, <1>4, <1>5, <1>6, Common DEF Parsed

\* The end of a request: the uploads go when the context is closed, and the
\* parser, if a handler was called, has ended by then.
LEMMA EndKeeps == ASSUME IInv, Recover \/ RecoverPanics \/ CloseContext \/ DecRunners PROVE IInv'
<1> USE DEF Recover, RecoverPanics, CloseContext, DecRunners, Goto
<1>1. Adds({})
  BY AnswerAdds DEF IInv
<1>2. /\ pc' \in {"close", "dec", "done"} /\ pc \in {"unwind", "close", "dec"} /\ i' \in Nat
      /\ UNCHANGED <<conf, defers, midwares, parse, parseError>>
  BY DEF IInv, TypeOK, parsing
<1>3. TypeOK'
  BY <1>1, <1>2 DEF IInv, TypeOK, Adds, Stages
<1>4. OptionsInv'
  BY <1>1, <1>2, BeforeOptions DEF OptionsStages
<1>5. Served' => Served
  BY <1>1 DEF Adds, Served, Hooks
<1>6. ParsedInv'
  BY <1>2, <1>5 DEF IInv, ParsedInv, Parsed
<1>7. ClosedInv'
  <2>1. CASE CloseContext
    BY <2>1 DEF ClosedInv
  <2>2. CASE ~CloseContext
    <3>1. UNCHANGED <<ctxt, uploads>> /\ (pc \in {"dec", "done"} => pc' \in {"dec", "done"})
      BY <2>2 DEF parsing
    <3> QED
      BY <1>5, <3>1 DEF IInv, ClosedInv
  <2> QED
    BY <2>1, <2>2
<1> QED
  BY <1>3, <1>4, <1>6, <1>7 DEF IInv

\* While the parser is at work no handler was called.
LEMMA ParserKeeps == ASSUME IInv, Parser PROVE IInv'
<1> USE DEF Parser, ParserStart, ParserEnd
<1>1. parse \in {"spawned", "reading"} /\ UNCHANGED <<conf, pc, i, defers, midwares, ctxt, answer>>
  BY DEF answer
<1>2. Adds({})
  BY <1>1, AnswerAdds DEF IInv
<1>3. \A h \in Hooks : Called(h)' = Called(h)
  BY <1>1 DEF Called, answer
<1>4. ~Served /\ pc \notin Parsed /\ pc # "enter"
  BY <1>1 DEF IInv, ParsedInv
<1>5. ~Served'
  BY <1>3, <1>4 DEF Served, Hooks
<1>6. TypeOK'
  BY <1>1, <1>2 DEF IInv, TypeOK, Adds
<1>7. ParsedInv' /\ ClosedInv'
  BY <1>1, <1>4, <1>5 DEF IInv, ParsedInv, ClosedInv
<1>8. OptionsInv'
  BY <1>1, <1>3 DEF IInv, OptionsInv
<1> QED
  BY <1>6, <1>7, <1>8 DEF IInv

LEMMA Invariance == Spec => []IInv
<1>1. IInv /\ [Next]_vars => IInv'
  <2> SUFFICES ASSUME IInv, [Next]_vars PROVE IInv'
    OBVIOUS
  <2>1. CASE UNCHANGED vars
    <3>1. UNCHANGED <<conf, pc, i, defers, midwares, ctxt, log>> /\ UNCHANGED parsing
      BY <2>1 DEF vars, parsing
    <3>2. \A h \in Hooks : Called(h)' = Called(h)
      BY <3>1 DEF Called
    <3>3. Served' = Served
      BY <3>2 DEF Served, Hooks
    <3>4. TypeOK' /\ ParsedInv' /\ ClosedInv'
      BY <3>1, <3>3 DEF IInv, TypeOK, ParsedInv, ClosedInv, parsing
    <3>5. OptionsInv'
      BY <3>1, <3>2 DEF IInv, OptionsInv
    <3> QED
      BY <3>4, <3>5 DEF IInv
  <2>2. CASE Serve
    BY <2>2, EnterKeeps, OpenContextKeeps, SetResourcesKeeps, RequestHookKeeps, HandleHeadersKeeps, BodyKeeps,
       WaitKeeps, ControllerKeeps, ActionKeeps, RunDeferKeeps, EndKeeps DEF Serve
  <2>3. CASE Parser
    BY <2>3, ParserKeeps
  <2> QED
    BY <2>1, <2>2, <2>3 DEF Next
<1> QED
  BY <1>1, Begins, PTL DEF Spec

\* Neither handler nor controller runs before the body is parsed without an error
\* (sunny.go:392, 429; web/misc.go:183-210), whatever the hooks do.
THEOREM HandlersWait == Spec => []HandlerSeesParsedBody
<1>1. IInv => HandlerSeesParsedBody
  BY DEF IInv, ParsedInv, Served, HandlerSeesParsedBody
<1> QED
  BY <1>1, Invariance, PTL

\* A request that reached its handler leaves no upload behind, however it ended
\* (sunny.go:349-351).
THEOREM UploadsGone == Spec => []UploadsRemoved
<1>1. IInv => UploadsRemoved
  BY DEF IInv, ClosedInv, Served, UploadsRemoved
<1> QED
  BY <1>1, Invariance, PTL

\* The chain of an OPTIONS request ends before Body (README.md:238), for any
\* number of middlewares and whatever they do.
THEOREM OptionsEndsChain == Spec => []OptionsChainEnds
<1>1. IInv => OptionsChainEnds
  <2> SUFFICES ASSUME IInv, conf.method = "OPTIONS", NEW k \in 1 .. Len(log)
               PROVE  log[k][1] \in {"Resource", "Request", "Cleanup"}
    BY DEF OptionsChainEnds
  <2>1. log[k] \in Entries
    BY DEF IInv, TypeOK
  <2>2. log[k][1] \in Hooks /\ Called(log[k][1])
    BY <2>1 DEF Entries, Called
  <2> QED
    BY <2>2 DEF IInv, OptionsInv
<1> QED
  BY <1>1, Invariance, PTL
-----------------------------------------------------------------------------
(* The second invariant: what is logged, and what is still deferred.       *)

Before == {"enter", "resources", "request"}
Over == {"close", "dec", "done"}
Late == {"view?", "view", "publish", "outcome"}

\* The middlewares whose Cleanup is deferred, and whether Destruct_ is.
Pending == {k \in 1 .. Len(defers) : defers[k][1] = "Cleanup"}
DestructPending == \E k \in 1 .. Len(defers) : defers[k][1] = "Destruct"
Failed == \E k \in 1 .. Len(log) : ~log[k][3]

\* What the Request hooks began is cleaned up or on the stack: middleware k's
\* Cleanup is at place k, and Destruct_ on top of them.
UndoInv ==
    /\ \A k \in 1 .. Len(defers) :
           \/ defers[k] = <<"Cleanup", k>>
           \/ k = Len(defers) /\ defers[k] = <<"Destruct", 0>>
    /\ \A k, l \in Calls("Request") : k < l => log[k][2] < log[l][2]
    /\ \A k, l \in Calls("Cleanup") : k < l => log[k][2] > log[l][2]
    /\ ToCleanUp = CleanedUp \cup Pending
    /\ \A c \in CleanedUp, k \in Pending : k < c
    /\ pc \in {"enter", "resources"} => Calls("Request") = {} /\ defers = <<>>
    /\ pc = "request" =>
           /\ i \in Mwares /\ Len(defers) = i - 1 /\ Pending = 1 .. i - 1
           /\ \A k \in Calls("Request") : log[k][2] < i
    /\ pc \notin Before \cup Over \cup {"unwind"} => ToCleanUp = Mwares
    /\ pc \notin Over \cup {"unwind"} => Calls("Cleanup") = {}
    /\ pc \in Over => defers = <<>>
    /\ midwares => ToCleanUp = Mwares

\* Response hooks have run only when a response was written, which it was if
\* the context redirects or a panic has come to its end.
AnswerInv ==
    /\ \A k, l \in Calls("Response") : log[k][2] = log[l][2] => k = l
    /\ Calls("Response") # {} => written /\ midwares
    /\ redirecting => written
    /\ Failed /\ ~written =>
           /\ panicking \in {"contexterror", "other"}
           /\ pc \in {"unwind", "dec", "done"}
           /\ pc # "unwind" => ctxt # "closed"

\* Destruct_ is deferred once the action is over, unless that panicked, and
\* called for a controller that was constructed.
DestructInv ==
    /\ conf.statusStyle => conf.endpoint = "func"
    /\ RunsDestruct <=> Returned("Construct")
    /\ Called("Construct") \/ ctrl.prepared => pc \in {"execute", "unwind"} \cup Late \cup Over
    /\ Called("Action") => pc \in {"unwind"} \cup Late \cup Over
    /\ DestructPending => pc \in {"unwind"} \cup Late /\ ~Panicked("Action")
    /\ pc \in Late => DestructPending
    /\ \A k, l \in Calls("Destruct") : k = l
    /\ Called("Destruct") =>
           /\ pc \in {"unwind"} \cup Over /\ ~DestructPending
           /\ Returned("Construct") /\ ~Panicked("Action")
    /\ pc \in {"unwind"} \cup Over /\ Returned("Construct") /\ ~Panicked("Action") =>
           DestructPending \/ Called("Destruct")

LogInv == UndoInv /\ AnswerInv /\ DestructInv

-----------------------------------------------------------------------------
(* What a step adds to the log, call by call: n calls of its own, and the  *)
(* Response hooks if it writes the response.                               *)

Extends(n) ==
    /\ log' \in Seq(Entries) /\ Len(log') >= Len(log) + n
    /\ \A k \in 1 .. Len(log) : log'[k] = log[k]
    /\ \A k \in 1 .. Len(log') : k > Len(log) + n => log'[k][1] = "Response"
    /\ \A k, l \in 1 .. Len(log') :
           k > Len(log) + n /\ l > Len(log) + n /\ log'[k][2] = log'[l][2] => k = l
    /\ Len(log') > Len(log) + n => midwares /\ ~written
    /\ Len(log') > Len(log) + n \/ written => written'

Quiet == Extends(0)
Made(h, m, ok) == Extends(1) /\ log'[Len(log) + 1] = <<h, m, ok>>

\* Each Response hook is called once.
LEMMA ResponsesAreDistinct ==
    ASSUME NEW n \in Mwares
    PROVE  /\ Responses(n) \in Seq(Entries) /\ Len(Responses(n)) = n
           /\ \A k, l \in 1 .. n : Responses(n)[k][2] = Responses(n)[l][2] => k = l
<1>1. n \in Nat /\ N \in Nat /\ n <= N
  BY NAssumption DEF Mwares
<1>2. Responses(n) \in Seq(Entries)
  BY ResponsesAreEntries
<1>3. Len(Responses(n)) = n /\ \A k \in 1 .. n : Responses(n)[k][2] = N + 1 - k
  BY <1>1 DEF Responses
<1> QED
  BY <1>1, <1>2, <1>3

LEMMA WriteHeaderExtends ==
    ASSUME NEW l \in Seq(Entries), NEW new, WriteHeader(l, new)
    PROVE  /\ new \in Seq(Entries) /\ Len(new) >= Len(l)
           /\ \A k \in 1 .. Len(l) : new[k] = l[k]
           /\ \A k \in 1 .. Len(new) : k > Len(l) => new[k][1] = "Response"
           /\ \A j, k \in 1 .. Len(new) : j > Len(l) /\ k > Len(l) /\ new[j][2] = new[k][2] => j = k
           /\ Len(new) > Len(l) => midwares /\ ~written
           /\ written'
<1>1. written'
  BY DEF WriteHeader
<1>2. CASE new = l
  BY <1>1, <1>2
<1>3. ASSUME midwares, ~written, NEW n \in Mwares, new = l \o Responses(n)
      PROVE  /\ new \in Seq(Entries) /\ Len(new) >= Len(l)
             /\ \A k \in 1 .. Len(l) : new[k] = l[k]
             /\ \A k \in 1 .. Len(new) : k > Len(l) => new[k][1] = "Response"
             /\ \A j, k \in 1 .. Len(new) : j > Len(l) /\ k > Len(l) /\ new[j][2] = new[k][2] => j = k
  <2> DEFINE r == Responses(n)
  <2>1. /\ r \in Seq(Entries) /\ Len(r) = n /\ n \in Nat
        /\ \A k \in 1 .. n : r[k][1] = "Response"
        /\ \A j, k \in 1 .. n : r[j][2] = r[k][2] => j = k
    BY ResponsesAreEntries, ResponsesAreDistinct, NAssumption DEF Mwares
  <2> HIDE DEF r
  <2>2. new = l \o r
    BY <1>3 DEF r
  <2>3. /\ new \in Seq(Entries) /\ Len(new) = Len(l) + n
        /\ \A k \in 1 .. Len(l) : new[k] = l[k]
    <3>1. new \in Seq(Entries) /\ Len(new) = Len(l) + n
      <4>1. r \in Seq(Entries) /\ Len(r) = n
        BY <2>1
      <4>2. l \o r \in Seq(Entries) /\ Len(l \o r) = Len(l) + Len(r)
        BY <4>1
      <4> QED
        BY <2>2, <4>1, <4>2
    <3>2. ASSUME NEW k \in 1 .. Len(l) PROVE new[k] = l[k]
      BY <2>1, <2>2, <3>1
    <3> QED
      BY <3>1, <3>2
  <2>4. ASSUME NEW k \in 1 .. Len(new), k > Len(l)
        PROVE  k - Len(l) \in 1 .. n /\ new[k] = r[k - Len(l)]
    BY <2>1, <2>2, <2>3, <2>4
  <2>5. \A k \in 1 .. Len(new) : k > Len(l) => new[k][1] = "Response"
    BY <2>1, <2>4
  <2>6. \A j, k \in 1 .. Len(new) : j > Len(l) /\ k > Len(l) /\ new[j][2] = new[k][2] => j = k
    <3> SUFFICES ASSUME NEW j \in 1 .. Len(new), NEW k \in 1 .. Len(new), j > Len(l), k > Len(l),
                        new[j][2] = new[k][2]
                 PROVE  j = k
      OBVIOUS
    <3>1. j - Len(l) = k - Len(l)
      BY <2>1, <2>4
    <3> QED
      BY <2>3, <3>1
  <2> QED
    BY <2>1, <2>3, <2>5, <2>6
<1> QED
  BY <1>1, <1>2, <1>3 DEF WriteHeader, Mwares

LEMMA AnswerExtends ==
    ASSUME TypeOK, Answer \/ UNCHANGED answer
    PROVE  Quiet /\ (Answer => written') /\ redirecting' = redirecting
<1>1. log \in Seq(Entries)
  BY DEF TypeOK
<1>2. CASE Answer
  <2>1. WriteHeader(log, log') /\ UNCHANGED <<errored, redirecting>>
    BY <1>2 DEF Answer
  <2> QED
    BY <1>1, <2>1, WriteHeaderExtends DEF Quiet, Extends
<1>3. CASE UNCHANGED answer
  <2>1. UNCHANGED <<log, written, redirecting>>
    BY <1>3 DEF answer
  <2>2. Quiet
    BY <1>1, <2>1 DEF Quiet, Extends
  <2> QED
    BY <2>1, <2>2 DEF Answer, WriteHeader
<1> QED
  BY <1>2, <1>3

\* A redirect is a response, and is written unless there was one.
LEMMA CallExtends ==
    ASSUME TypeOK, NEW h \in Hooks, NEW m \in Nat, NEW o \in Outcomes, Call(h, m, o)
    PROVE  /\ Made(h, m, ~Panics(o))
           /\ redirecting' => redirecting \/ written'
           /\ o = "bounce" => redirecting'
<1> DEFINE e == <<h, m, ~Panics(o)>>
           l == Append(log, e)
<1>1. e \in Entries
  BY DEF Entries, Panics
<1>2. /\ l \in Seq(Entries) /\ Len(l) = Len(log) + 1 /\ Len(log) \in Nat
      /\ l[Len(log) + 1] = e /\ \A k \in 1 .. Len(log) : l[k] = log[k]
  BY <1>1 DEF TypeOK
<1>3. WriteHeader(l, log') \/ (log' = l /\ UNCHANGED written)
  BY DEF Call
<1> HIDE DEF e, l
<1>4. Extends(1) /\ log'[Len(log) + 1] = e
  <2>1. CASE WriteHeader(l, log')
    <3>1. /\ log' \in Seq(Entries) /\ Len(log') >= Len(l)
          /\ \A k \in 1 .. Len(l) : log'[k] = l[k]
          /\ \A k \in 1 .. Len(log') : k > Len(l) => log'[k][1] = "Response"
          /\ \A j, k \in 1 .. Len(log') : j > Len(l) /\ k > Len(l) /\ log'[j][2] = log'[k][2] => j = k
          /\ Len(log') > Len(l) => midwares /\ ~written
          /\ written'
      BY <1>2, <2>1, WriteHeaderExtends
    <3> QED
      BY <1>2, <3>1 DEF Extends
  <2>2. CASE log' = l /\ UNCHANGED written
    BY <1>2, <2>2 DEF Extends
  <2> QED
    BY <1>3, <2>1, <2>2
<1>5. redirecting' => redirecting \/ written'
  BY DEF Call, WriteHeader
<1>6. o = "bounce" => redirecting'
  BY DEF Call
<1> QED
  BY <1>4, <1>5, <1>6 DEF Made, e

\* The calls of a hook that was not called are the same, and so is what they say.
LEMMA OtherCalls ==
    ASSUME TypeOK, NEW n \in {0, 1}, Extends(n), NEW h, h # "Response",
           n = 1 => log'[Len(log) + 1][1] # h
    PROVE  /\ Calls(h)' = Calls(h) /\ \A k \in Calls(h) : log'[k] = log[k]
           /\ Called(h)' = Called(h) /\ Returned(h)' = Returned(h) /\ Panicked(h)' = Panicked(h)
<1>1. Len(log) \in Nat /\ Len(log') \in Nat /\ Len(log') >= Len(log)
  BY DEF TypeOK, Extends
<1>2. \A k \in 1 .. Len(log') : (k \in 1 .. Len(log) /\ log'[k] = log[k]) \/ log'[k][1] # h
  BY <1>1 DEF Extends
<1>3. \A k \in 1 .. Len(log) : k \in 1 .. Len(log') /\ log'[k] = log[k]
  BY <1>1 DEF Extends
<1> QED
  BY <1>2, <1>3 DEF Calls, Called, Returned, Panicked

\* The call that was made is the last of its hook.
LEMMA OwnCalls ==
    ASSUME TypeOK, NEW h, NEW m, NEW ok \in BOOLEAN, Made(h, m, ok), h # "Response"
    PROVE  /\ Calls(h)' = Calls(h) \cup {Len(log) + 1} /\ log'[Len(log) + 1] = <<h, m, ok>>
           /\ \A k \in Calls(h) : log'[k] = log[k] /\ k < Len(log) + 1 /\ k \in Nat
           /\ Called(h)' /\ (Returned(h)' <=> Returned(h) \/ ok) /\ (Panicked(h)' <=> Panicked(h) \/ ~ok)
<1>1. /\ Len(log) \in Nat /\ Len(log') \in Nat /\ Len(log') >= Len(log) + 1
      /\ log'[Len(log) + 1] = <<h, m, ok>>
  BY DEF TypeOK, Made, Extends
<1>2. \A k \in 1 .. Len(log') : (k \in 1 .. Len(log) /\ log'[k] = log[k]) \/ k = Len(log) + 1 \/ log'[k][1] # h
  BY <1>1 DEF Made, Extends
<1>3. \A k \in 1 .. Len(log) : k \in 1 .. Len(log') /\ log'[k] = log[k] /\ k < Len(log) + 1
  BY <1>1 DEF Made, Extends
<1>4. Len(log) + 1 \in 1 .. Len(log')
  BY <1>1
<1>5. Calls(h)' = Calls(h) \cup {Len(log) + 1}
  BY <1>1, <1>2, <1>3, <1>4 DEF Calls
<1>6. Called(h)' /\ (Returned(h)' <=> Returned(h) \/ ok) /\ (Panicked(h)' <=> Panicked(h) \/ ~ok)
  BY <1>1, <1>2, <1>3, <1>4 DEF Called, Returned, Panicked
<1> QED
  BY <1>1, <1>3, <1>5, <1>6 DEF Calls

-----------------------------------------------------------------------------
(* What keeps the second invariant, whatever the action.                   *)

Upto == {"headers", "body", "lookup", "wait", "handler", "controller", "prepare", "execute"} \cup Late
Ending == {"unwind"} \cup Over

\* A step that neither begins nor ends a middleware, and pushes nothing.
LEMMA UndoFrame ==
    ASSUME TypeOK, UndoInv, NEW n \in {0, 1}, Extends(n),
           n = 1 => log'[Len(log) + 1][1] \notin {"Request", "Cleanup"},
           defers' = defers, pc' \in Stages,
           pc' \in {"enter", "resources"} => pc \in {"enter", "resources"},
           pc' = "request" => pc = "resources" /\ i' = 1,
           pc' \in Upto => pc \in Upto, pc \in Ending => pc' \in Ending,
           pc' \in Over => defers = <<>>,
           midwares' => midwares \/ pc \in Upto
    PROVE  UndoInv'
<1>1. /\ Calls("Request")' = Calls("Request") /\ \A k \in Calls("Request") : log'[k] = log[k]
      /\ Calls("Cleanup")' = Calls("Cleanup") /\ \A k \in Calls("Cleanup") : log'[k] = log[k]
  BY OtherCalls
<1>2. ToCleanUp' = ToCleanUp /\ CleanedUp' = CleanedUp /\ Pending' = Pending
  BY <1>1 DEF ToCleanUp, CleanedUp, Pending
<1>3. /\ \A k, l \in Calls("Request")' : k < l => log'[k][2] < log'[l][2]
      /\ \A k, l \in Calls("Cleanup")' : k < l => log'[k][2] > log'[l][2]
  BY <1>1 DEF UndoInv
<1>4. pc' = "request" =>
           /\ i' \in Mwares /\ Len(defers') = i' - 1 /\ Pending' = 1 .. i' - 1
           /\ \A k \in Calls("Request")' : log'[k][2] < i'
  BY <1>1, <1>2, NAssumption DEF UndoInv, Mwares, Pending
<1>5. /\ pc' \notin Before \cup Over \cup {"unwind"} => pc \notin Before \cup Over \cup {"unwind"}
      /\ pc' \notin Over \cup {"unwind"} => pc \notin Over \cup {"unwind"}
      /\ pc \in Upto => pc \notin Before \cup Over \cup {"unwind"}
  BY DEF Upto, Ending, Over, Before, Late, Stages
<1>6. /\ pc' \notin Before \cup Over \cup {"unwind"} => ToCleanUp' = Mwares
      /\ pc' \notin Over \cup {"unwind"} => Calls("Cleanup")' = {}
      /\ midwares' => ToCleanUp' = Mwares
  BY <1>1, <1>2, <1>5 DEF UndoInv
<1>7. pc' \in {"enter", "resources"} => Calls("Request")' = {} /\ defers' = <<>>
  BY <1>1 DEF UndoInv
<1> QED
  BY <1>2, <1>3, <1>4, <1>6, <1>7 DEF UndoInv

\* ctrlmgr.Cleanup is deferred.
LEMMA UndoPush ==
    ASSUME TypeOK, UndoInv, NEW n \in {0, 1}, Extends(n),
           n = 1 => log'[Len(log) + 1][1] \notin {"Request", "Cleanup"},
           pc \in {"prepare", "execute"}, pc' = "view?", ~DestructPending,
           defers' = Append(defers, <<"Destruct", 0>>), midwares' = midwares
    PROVE  UndoInv'
<1>1. /\ Calls("Request")' = Calls("Request") /\ \A k \in Calls("Request") : log'[k] = log[k]
      /\ Calls("Cleanup")' = Calls("Cleanup") /\ \A k \in Calls("Cleanup") : log'[k] = log[k]
  BY OtherCalls
<1>2. /\ Len(defers) \in Nat /\ Len(defers') = Len(defers) + 1
      /\ defers'[Len(defers')] = <<"Destruct", 0>>
      /\ \A k \in 1 .. Len(defers) : defers'[k] = defers[k]
  BY DEF TypeOK
<1>3. \A k \in 1 .. Len(defers) : defers[k] = <<"Cleanup", k>>
  BY DEF UndoInv, DestructPending
<1>4. Pending' = Pending
  BY <1>2, <1>3 DEF Pending
<1>5. ToCleanUp' = ToCleanUp /\ CleanedUp' = CleanedUp
  BY <1>1 DEF ToCleanUp, CleanedUp
<1>6. \A k \in 1 .. Len(defers') :
           \/ defers'[k] = <<"Cleanup", k>>
           \/ k = Len(defers') /\ defers'[k] = <<"Destruct", 0>>
  BY <1>2, <1>3
<1>7. pc \notin Before \cup Over \cup {"unwind"} /\ pc' \notin Before \cup Over
  BY DEF Before, Over
<1>8. ToCleanUp = Mwares /\ Calls("Cleanup") = {}
  BY <1>7 DEF UndoInv
<1> QED
  BY <1>1, <1>4, <1>5, <1>6, <1>7, <1>8 DEF UndoInv, Before

\* A call that returns adds no failure.
LEMMA FailedCall ==
    ASSUME TypeOK, NEW h, NEW m, NEW ok \in BOOLEAN, ok, Made(h, m, ok), Len(log') = Len(log) + 1, Failed'
    PROVE  Failed
<1>1. PICK k \in 1 .. Len(log') : ~log'[k][3]
  BY DEF Failed
<1>2. Len(log) \in Nat /\ log'[Len(log) + 1] = <<h, m, ok>>
  BY DEF TypeOK, Made
<1>3. log'[Len(log) + 1][3] = ok
  BY <1>2
<1>4. k \in 1 .. Len(log)
  <2>1. log'[Len(log) + 1][3]
    BY <1>3, Zenon
  <2>2. k # Len(log) + 1
    BY <1>1, <2>1, Zenon
  <2> QED
    BY <1>1, <1>2, <2>2
<1>5. log'[k] = log[k]
  BY <1>4 DEF Made, Extends
<1> QED
  BY <1>1, <1>4, <1>5 DEF Failed

\* Code of the program was called: a panic is in flight if it panicked.
LEMMA AnswerByCall ==
    ASSUME TypeOK, AnswerInv, NEW h \in Hooks, h # "Response", NEW m \in Nat, NEW o \in Outcomes, Call(h, m, o),
           midwares' = midwares, pc \notin {"dec", "done"}, pc = "unwind" => pc' = "unwind",
           Panics(o) => panicking' = KindOf(o) /\ pc' = "unwind",
           ~Panics(o) => panicking' = panicking
    PROVE  AnswerInv'
<1>1. /\ Made(h, m, ~Panics(o)) /\ (redirecting' => redirecting \/ written')
      /\ o = "bounce" => redirecting'
  BY CallExtends
<1>2. Len(log) \in Nat /\ log'[Len(log) + 1] = <<h, m, ~Panics(o)>>
  BY <1>1 DEF TypeOK, Made
<1>3. written => written'
  BY <1>1 DEF Made, Extends
<1>4. redirecting' => written'
  BY <1>1, <1>3 DEF AnswerInv
<1>5. CASE Len(log') > Len(log) + 1
  <2>1. midwares /\ ~written /\ written'
    BY <1>1, <1>5 DEF Made, Extends
  <2>2. Calls("Response") = {}
    BY <2>1 DEF AnswerInv
  <2>3. \A k \in Calls("Response")' : k \in 1 .. Len(log') /\ k > Len(log) + 1
    BY <1>1, <1>2, <2>2 DEF Made, Extends, Calls
  <2>4. \A k, l \in Calls("Response")' : log'[k][2] = log'[l][2] => k = l
    BY <1>1, <2>3 DEF Made, Extends
  <2> QED
    BY <1>4, <2>1, <2>4 DEF AnswerInv
<1>6. CASE Len(log') = Len(log) + 1
  <2>1. /\ Calls("Response")' = Calls("Response") /\ \A k \in Calls("Response") : log'[k] = log[k]
    BY <1>1, <1>2, <1>6 DEF Made, Extends, Calls
  <2>2. \A k, l \in Calls("Response")' : log'[k][2] = log'[l][2] => k = l
    BY <2>1 DEF AnswerInv
  <2>3. Calls("Response")' # {} => written' /\ midwares'
    BY <1>3, <2>1 DEF AnswerInv
  <2>4. ASSUME Failed', ~written'
        PROVE  panicking' \in {"contexterror", "other"} /\ pc' = "unwind"
    <3>1. CASE Panics(o)
      <4>1. o # "bounce"
        BY <1>1, <1>4, <2>4
      <4> QED
        BY <3>1, <4>1 DEF Panics, KindOf
    <3>2. CASE ~Panics(o)
      <4>1. Failed
        BY <1>1, <1>6, <2>4, <3>2, FailedCall
      <4> QED
        BY <1>3, <2>4, <3>2, <4>1 DEF AnswerInv
    <3> QED
      BY <3>1, <3>2
  <2> QED
    BY <1>4, <2>2, <2>3, <2>4 DEF AnswerInv
<1> QED
  BY <1>1, <1>2, <1>5, <1>6 DEF Made, Extends

\* The framework answered, or nothing was written and the panic is in flight still.
LEMMA AnswerByItself ==
    ASSUME TypeOK, AnswerInv, Answer \/ UNCHANGED answer, midwares => midwares',
           UNCHANGED answer /\ Failed /\ ~written =>
               /\ panicking' \in {"contexterror", "other"}
               /\ pc' \in {"unwind", "dec", "done"}
               /\ pc' # "unwind" => ctxt' # "closed"
    PROVE  AnswerInv'
<1>1. CASE Answer
  <2>1. Quiet /\ written' /\ redirecting' = redirecting
    BY <1>1, AnswerExtends
  <2>2. Len(log) \in Nat
    BY DEF TypeOK
  <2>3. CASE Len(log') > Len(log)
    <3>1. midwares /\ ~written
      BY <2>1, <2>2, <2>3 DEF Quiet, Extends
    <3>2. Calls("Response") = {}
      BY <3>1 DEF AnswerInv
    <3>3. \A k \in Calls("Response")' : k \in 1 .. Len(log') /\ k > Len(log)
      BY <2>1, <2>2, <3>2 DEF Quiet, Extends, Calls
    <3>4. \A k, l \in Calls("Response")' : log'[k][2] = log'[l][2] => k = l
      BY <2>1, <2>2, <3>3 DEF Quiet, Extends
    <3> QED
      BY <2>1, <3>1, <3>4 DEF AnswerInv
  <2>4. CASE Len(log') = Len(log)
    <3>1. /\ Calls("Response")' = Calls("Response") /\ \A k \in Calls("Response") : log'[k] = log[k]
      BY <2>1, <2>2, <2>4 DEF Quiet, Extends, Calls
    <3> QED
      BY <2>1, <3>1 DEF AnswerInv
  <2> QED
    BY <2>1, <2>2, <2>3, <2>4 DEF Quiet, Extends
<1>2. CASE UNCHANGED answer
  <2>1. UNCHANGED <<written, redirecting, log>>
    BY <1>2 DEF answer
  <2>2. Calls("Response")' = Calls("Response") /\ Failed' = Failed
    BY <2>1 DEF Calls, Failed
  <2> QED
    BY <1>2, <2>1, <2>2 DEF AnswerInv
<1> QED
  BY <1>1, <1>2

\* A step that neither calls the controller nor defers its cleanup.
LEMMA DestructFrame ==
    ASSUME TypeOK, DestructInv, NEW n \in {0, 1}, Extends(n),
           n = 1 => log'[Len(log) + 1][1] \notin {"Construct", "Action", "Destruct"},
           DestructPending' = DestructPending, conf' = conf, ctrl'.prepared = ctrl.prepared,
           pc' \in Late => pc \in Late,
           pc \in Late => pc' \in Late \cup {"unwind"},
           pc' = "execute" => pc = "execute",
           pc = "execute" => pc' = "execute" \/ (pc' = "unwind" /\ conf.endpoint # "scontroller"),
           pc \in Ending => pc' \in Ending,
           pc' \in Over => ~DestructPending
    PROVE  DestructInv'
<1>1. /\ Calls("Destruct")' = Calls("Destruct")
      /\ Called("Destruct")' = Called("Destruct")
      /\ Called("Construct")' = Called("Construct") /\ Returned("Construct")' = Returned("Construct")
      /\ Called("Action")' = Called("Action") /\ Panicked("Action")' = Panicked("Action")
  BY OtherCalls
<1>2. RunsDestruct' = RunsDestruct
  BY DEF RunsDestruct
<1>3. Returned("Construct") => Called("Construct")
  BY DEF Returned, Called
<1>4. pc' \in Ending /\ pc \notin Ending /\ Returned("Construct") => pc \in Late
  BY <1>3 DEF DestructInv, RunsDestruct, Ending, Late, Over
<1>5. Called("Construct") \/ ctrl'.prepared => pc' \in {"execute", "unwind"} \cup Late \cup Over
  BY DEF DestructInv, Ending
<1>6. /\ Called("Action") => pc' \in {"unwind"} \cup Late \cup Over
      /\ DestructPending => pc' \in {"unwind"} \cup Late
      /\ Called("Destruct") => pc' \in {"unwind"} \cup Over
  BY DEF DestructInv, Ending, Over, Late
<1> QED
  BY <1>1, <1>2, <1>4, <1>5, <1>6 DEF DestructInv, Ending

-----------------------------------------------------------------------------
\* The ways from stage to stage that neither begin nor end a controller.
Forward ==
    /\ pc' \in Stages /\ defers' = defers /\ conf' = conf /\ ctrl'.prepared = ctrl.prepared
    /\ pc' \in {"enter", "resources"} => pc \in {"enter", "resources"}
    /\ pc' = "request" => pc = "resources" /\ i' = 1
    /\ pc' \in Upto => pc \in Upto
    /\ pc' \in Late <=> pc \in Late /\ pc' # "unwind"
    /\ pc' = "execute" <=> pc = "execute"
    /\ pc \in Ending => pc' \in Ending
    /\ pc' \in Over => defers = <<>>
    /\ midwares => midwares'
    /\ midwares' => midwares \/ pc \in Upto

LEMMA ForwardFrame ==
    ASSUME TypeOK, UndoInv, DestructInv, Forward, NEW n \in {0, 1}, Extends(n),
           n = 1 => log'[Len(log) + 1][1] \notin {"Request", "Cleanup", "Construct", "Action", "Destruct"}
    PROVE  UndoInv' /\ DestructInv'
<1>1. UndoInv'
  BY UndoFrame DEF Forward
<1>2. DestructPending' = DestructPending /\ (pc' \in Over => ~DestructPending)
  BY DEF Forward, DestructPending
<1>3. pc \in Late => pc' \in Late \cup {"unwind"}
  BY DEF Forward
<1>4. DestructInv'
  BY <1>2, <1>3, DestructFrame DEF Forward
<1> QED
  BY <1>1, <1>4

\* A hook, the handler or the view was called.
LEMMA PlainCall ==
    ASSUME TypeOK, LogInv, Forward, NEW h \in {"Resource", "Body", "Handler", "Controller", "View", "Publish"},
           NEW m \in Nat, NEW o \in Outcomes, Call(h, m, o), midwares' = midwares, pc \notin Ending,
           Panics(o) => Panic(KindOf(o)),
           ~Panics(o) => panicking' = panicking
    PROVE  LogInv'
<1>1. h \in Hooks /\ h # "Response"
  BY DEF Hooks
<1>2. Made(h, m, ~Panics(o))
  BY <1>1, CallExtends
<1>3. Extends(1) /\ log'[Len(log) + 1][1] = h
  BY <1>2 DEF Made
<1>4. UndoInv' /\ DestructInv'
  BY <1>3, ForwardFrame DEF LogInv
<1>5. AnswerInv'
  BY <1>1, AnswerByCall DEF LogInv, Ending, Over, Panic
<1> QED
  BY <1>4, <1>5 DEF LogInv

\* The framework answered, or went on, before the deferred calls.
LEMMA PlainAnswer ==
    ASSUME TypeOK, LogInv, Forward, Answer \/ UNCHANGED answer, pc \notin Ending
    PROVE  LogInv'
<1>1. Quiet
  BY AnswerExtends
<1>2. UndoInv' /\ DestructInv'
  BY <1>1, ForwardFrame DEF LogInv, Quiet
<1>3. ~(Failed /\ ~written)
  BY DEF LogInv, AnswerInv, Ending, Over
<1>4. AnswerInv'
  BY <1>3, AnswerByItself DEF LogInv, Forward
<1> QED
  BY <1>2, <1>4 DEF LogInv

LEMMA LogBegins == Init => LogInv
<1> SUFFICES ASSUME Init PROVE LogInv
  OBVIOUS
<1>1. log = <<>> /\ defers = <<>> /\ pc = "enter" /\ ~midwares /\ ~redirecting /\ ~ctrl.prepared
  BY DEF Init, Unprepared
<1>2. Calls("Request") = {} /\ Calls("Cleanup") = {} /\ Calls("Response") = {} /\ Calls("Destruct") = {} /\ ~Failed
  BY <1>1 DEF Calls, Failed
<1>3. Pending = {} /\ ToCleanUp = {} /\ CleanedUp = {}
  BY <1>1, <1>2 DEF Pending, ToCleanUp, CleanedUp
<1>4. UndoInv
  BY <1>1, <1>2, <1>3 DEF UndoInv, Over, Before
<1>5. AnswerInv
  BY <1>1, <1>2 DEF AnswerInv
<1>6. ~DestructPending /\ \A h \in Hooks : ~Called(h) /\ ~Returned(h)
  BY <1>1 DEF DestructPending, Called, Returned
<1>7. conf.statusStyle => conf.endpoint = "func"
  BY DEF Init
<1>8. DestructInv
  BY <1>1, <1>2, <1>6, <1>7 DEF DestructInv, Hooks, RunsDestruct, Late, Over
<1> QED
  BY <1>4, <1>5, <1>8 DEF LogInv

\* From the end point to the middlewares.
LEMMA EntersLog == ASSUME IInv, LogInv, NoEndPoint \/ OpenContext \/ SetResources PROVE LogInv'
<1> USE DEF Goto, Panic
<1>0. TypeOK
  BY DEF IInv
<1>1. CASE NoEndPoint
  <2>1. pc = "enter" /\ pc' = "dec" /\ defers = <<>>
    BY <1>1 DEF NoEndPoint, LogInv, UndoInv
  <2>2. Forward
    BY <1>1, <2>1 DEF NoEndPoint, Forward, Stages, Upto, Late, Over, Ending
  <2> QED
    BY <1>0, <1>1, <2>1, <2>2, PlainAnswer DEF NoEndPoint, Ending, Over
<1>2. CASE OpenContext
  <2>1. pc = "enter" /\ pc' \in {"unwind", "resources"}
    BY <1>2 DEF OpenContext
  <2>2. Forward
    BY <1>2, <2>1 DEF OpenContext, Forward, Stages, Upto, Late, Over, Ending
  <2> QED
    BY <1>0, <1>2, <2>1, <2>2, PlainAnswer DEF OpenContext, Ending, Over
<1>3. CASE SetResources
  <2>1. PICK o \in {"return", "panic"} :
          /\ Call("Resource", 0, o)
          /\ IF Panics(o) THEN Panic(KindOf(o)) ELSE Goto("request")
    BY <1>3 DEF SetResources
  <2>2. o \in Outcomes /\ pc = "resources" /\ pc' \in {"unwind", "request"} /\ (pc' = "request" => i' = 1)
    BY <1>3, <2>1 DEF SetResources, Outcomes
  <2>3. Forward
    BY <1>3, <2>2 DEF SetResources, Forward, Stages, Upto, Late, Over, Ending
  <2>4. pc \notin Ending
    BY <2>2 DEF Ending, Over
  <2> QED
    BY <1>0, <1>3, <2>1, <2>2, <2>3, <2>4, PlainCall DEF SetResources
<1> QED
  BY <1>1, <1>2, <1>3

-----------------------------------------------------------------------------
(* The stages, action by action.                                           *)

\* The record of the ControlManager.
CtrlOK == ctrl \in [prepared : BOOLEAN, executed : BOOLEAN, state : {"0", "200", "-1", "error"}, view : BOOLEAN]

LEMMA CtrlInvariance == Spec => []CtrlOK
<1>1. Init => CtrlOK
  BY DEF Init, CtrlOK, Unprepared
<1>2. CtrlOK /\ [Next]_vars => CtrlOK'
  <2> SUFFICES ASSUME CtrlOK, [Next]_vars PROVE CtrlOK'
    OBVIOUS
  <2> USE DEF CtrlOK
  <2>1. CASE UNCHANGED ctrl
    BY <2>1
  <2>2. CASE ControllerHook
    BY <2>2 DEF ControllerHook
  <2>3. CASE PrepareFails \/ ExecuteNoAction
    BY <2>3 DEF PrepareFails, ExecuteNoAction
  <2>4. CASE Prepare
    <3>1. PICK s \in {"error", "200"} :
            ctrl' = ctrl \/ ctrl' = [ctrl EXCEPT !.prepared = TRUE, !.state = s]
      BY <2>4 DEF Prepare
    <3> QED
      BY <3>1
  <2>5. CASE Execute
    <3>1. PICK res \in ActionResults :
            ctrl' = ctrl \/ ctrl' = [ctrl EXCEPT !.executed = TRUE, !.state = res.state, !.view = res.view]
      BY <2>5 DEF Execute
    <3>2. res.state \in {"200", "-1", "error"} /\ res.view \in BOOLEAN
      BY DEF ActionResults
    <3> QED
      BY <3>1, <3>2
  <2>6. CASE ExecuteSkipped
    BY <2>6 DEF ExecuteSkipped
  <2>7. CASE UNCHANGED vars \/ Parser
    BY <2>1, <2>7 DEF vars, Parser, ParserStart, ParserEnd
  <2>8. CASE NoEndPoint \/ OpenContext \/ SetResources \/ RequestHook \/ HandleHeaders \/ BodyHook
             \/ Lookup \/ WaitRequestData \/ Handler \/ PrepareSkipped
    BY <2>1, <2>8 DEF NoEndPoint, OpenContext, SetResources, RequestHook, HandleHeaders, BodyHook,
       Lookup, WaitRequestData, Handler, PrepareSkipped
  <2>9. CASE ChooseView \/ ViewHook \/ PublishView \/ Outcome \/ RunDefer \/ Recover \/ RecoverPanics
             \/ CloseContext \/ DecRunners
    BY <2>1, <2>9 DEF ChooseView, ViewHook, PublishView, Outcome, RunDefer, Recover, RecoverPanics,
       CloseContext, DecRunners
  <2> QED
    BY <2>2, <2>3, <2>4, <2>5, <2>6, <2>7, <2>8, <2>9 DEF Next, Serve
<1> QED
  BY <1>1, <1>2, PTL DEF Spec

\* midware.Request, whose Cleanup is deferred if it returns.
LEMMA RequestHookLog == ASSUME IInv, LogInv, RequestHook PROVE LogInv'
<1>1. PICK o \in Outcomes :
         /\ Hook("Request", o, "headers")
         /\ defers' = IF Panics(o) THEN defers ELSE Append(defers, <<"Cleanup", i>>)
  BY DEF RequestHook
<1> DEFINE ok == ~Panics(o)
<1>2. /\ pc = "request" /\ UNCHANGED <<conf, midwares, ctxt, ctrl>> /\ Call("Request", i, o)
      /\ TypeOK /\ UndoInv /\ AnswerInv /\ DestructInv
  BY <1>1 DEF RequestHook, Hook, IInv, LogInv
<1>3. /\ i \in Mwares /\ Len(defers) = i - 1 /\ Pending = 1 .. i - 1
      /\ \A k \in Calls("Request") : log[k][2] < i
      /\ Calls("Cleanup") = {} /\ i \in Nat /\ N \in Nat /\ i >= 1 /\ i <= N
  BY <1>2, NAssumption DEF UndoInv, Over, Mwares
<1>4. /\ ok => pc' = (IF i < N THEN "request" ELSE "headers") /\ i' = (IF i < N THEN i + 1 ELSE 1)
               /\ panicking' = panicking
      /\ ~ok => pc' = "unwind" /\ panicking' = KindOf(o)
  BY <1>1, <1>2 DEF Hook, Goto, Panic
<1>5. ok \in BOOLEAN /\ Made("Request", i, ok)
  BY <1>2, <1>3, CallExtends DEF Hooks, Panics
<1>6. Extends(1) /\ log'[Len(log) + 1] = <<"Request", i, ok>> /\ log'[Len(log) + 1][1] = "Request"
  BY <1>5 DEF Made
<1>7. /\ Calls("Request")' = Calls("Request") \cup {Len(log) + 1}
      /\ \A k \in Calls("Request") : log'[k] = log[k] /\ k < Len(log) + 1 /\ k \in Nat
      /\ Calls("Cleanup")' = {}
  BY <1>2, <1>3, <1>5, <1>6, OwnCalls, OtherCalls
<1>8. AnswerInv'
  <2>1. "Request" \in Hooks /\ "Request" # "Response"
    BY DEF Hooks
  <2> QED
    BY <1>2, <1>3, <1>4, <2>1, AnswerByCall
<1> HIDE DEF ok
<1>9. UndoInv'
  <2>1. ToCleanUp = 1 .. i - 1 /\ CleanedUp = {} /\ CleanedUp' = {}
    BY <1>2, <1>3, <1>7 DEF UndoInv, CleanedUp
  <2>2. ~midwares'
    <3>1. i \notin ToCleanUp
      BY <1>3, <2>1
    <3> QED
      BY <1>2, <1>3, <3>1 DEF UndoInv, TypeOK
  <2>3. Len(log) \in Nat /\ log'[Len(log) + 1][2] = i /\ log'[Len(log) + 1][3] = ok
    BY <1>2, <1>6 DEF TypeOK
  <2>4. /\ \A k, l \in Calls("Request")' : k < l => log'[k][2] < log'[l][2]
        /\ \A k \in Calls("Request")' : log'[k][2] < i + 1
    <3>1. \A k, l \in Calls("Request") : k < l => log[k][2] < log[l][2]
      BY <1>2 DEF UndoInv
    <3>2. \A k \in Calls("Request") : log'[k] = log[k] /\ k < Len(log) + 1 /\ k \in Nat /\ log[k][2] < i
      BY <1>3, <1>7
    <3>3. \A k \in Calls("Request") : log[k][2] \in Nat
      BY <1>2 DEF Calls, TypeOK, Entries
    <3>4. \A k \in Calls("Request")' : log'[k][2] < i + 1
      BY <1>3, <1>7, <2>3, <3>2, <3>3
    <3>5. ASSUME NEW k \in Calls("Request")', NEW l \in Calls("Request")', k < l
          PROVE  log'[k][2] < log'[l][2]
      <4>1. k \in Calls("Request")
        BY <1>7, <2>3, <3>2, <3>5
      <4>2. CASE l = Len(log) + 1
        BY <2>3, <3>2, <4>1, <4>2
      <4>3. CASE l \in Calls("Request")
        BY <3>1, <3>2, <3>5, <4>1, <4>3
      <4> QED
        BY <1>7, <4>2, <4>3
    <3> QED
      BY <3>4, <3>5
  <2>5. ToCleanUp' = IF ok THEN ToCleanUp \cup {i} ELSE ToCleanUp
    <3>1. \A k \in Calls("Request") : log'[k] = log[k]
      BY <1>7
    <3>2. CASE ok
      <4>1. log'[Len(log) + 1][3]
        BY <2>3, <3>2, Zenon
      <4>2. {k \in Calls("Request")' : log'[k][3]} = {k \in Calls("Request") : log[k][3]} \cup {Len(log) + 1}
        BY <1>7, <3>1, <4>1, Zenon
      <4>3. ToCleanUp' = {log'[k][2] : k \in {l \in Calls("Request")' : log'[l][3]}}
        BY DEF ToCleanUp
      <4> DEFINE S == {l \in Calls("Request") : log[l][3]}
      <4>4. ToCleanUp' = {log'[k][2] : k \in S \cup {Len(log) + 1}} /\ ToCleanUp = {log[k][2] : k \in S}
        BY <4>2, <4>3 DEF ToCleanUp
      <4>5. \A k \in S : log'[k] = log[k]
        BY <3>1
      <4> HIDE DEF S
      <4> QED
        BY <2>3, <3>2, <4>4, <4>5
    <3>3. CASE ~ok
      <4>1. ~log'[Len(log) + 1][3]
        BY <2>3, <3>3, Zenon
      <4>2. {k \in Calls("Request")' : log'[k][3]} = {k \in Calls("Request") : log[k][3]}
        BY <1>7, <3>1, <4>1, Zenon
      <4>3. ToCleanUp' = {log'[k][2] : k \in {l \in Calls("Request")' : log'[l][3]}}
        BY DEF ToCleanUp
      <4> DEFINE S == {l \in Calls("Request") : log[l][3]}
      <4>4. ToCleanUp' = {log'[k][2] : k \in S} /\ ToCleanUp = {log[k][2] : k \in S}
        BY <4>2, <4>3 DEF ToCleanUp
      <4>5. \A k \in S : log'[k] = log[k]
        BY <3>1
      <4> HIDE DEF S
      <4> QED
        BY <3>3, <4>4, <4>5
    <3> QED
      BY <3>2, <3>3
  <2>6. CASE ok
    <3>1. defers' = Append(defers, <<"Cleanup", i>>) /\ defers \in Seq(Deferred)
      BY <1>1, <1>2, <2>6 DEF ok, TypeOK
    <3>2. /\ Len(defers') = i /\ defers'[i] = <<"Cleanup", i>>
          /\ \A k \in 1 .. i - 1 : defers'[k] = defers[k]
      BY <1>3, <3>1
    <3>3. \A k \in 1 .. i - 1 : defers[k][1] = "Cleanup"
      BY <1>3 DEF Pending
    <3>4. \A k \in 1 .. i - 1 : defers[k] = <<"Cleanup", k>>
      BY <1>2, <1>3, <3>3 DEF UndoInv
    <3>5. \A k \in 1 .. i : defers'[k] = <<"Cleanup", k>>
      BY <1>3, <3>2, <3>4
    <3>6. Pending' = 1 .. i /\ ToCleanUp' = 1 .. i
      BY <1>3, <2>1, <2>5, <2>6, <3>2, <3>5 DEF Pending
    <3>7. CASE i < N
      BY <1>3, <1>4, <1>7, <2>1, <2>2, <2>4, <2>6, <3>2, <3>5, <3>6, <3>7 DEF UndoInv, Mwares, Before, Over
    <3>8. CASE i = N
      BY <1>3, <1>4, <1>7, <2>1, <2>2, <2>4, <2>6, <3>2, <3>5, <3>6, <3>8 DEF UndoInv, Mwares, Before, Over
    <3> QED
      BY <1>3, <3>7, <3>8
  <2>7. CASE ~ok
    <3>1. defers' = defers /\ pc' = "unwind" /\ ToCleanUp' = ToCleanUp
      BY <1>1, <1>4, <2>5, <2>7 DEF ok
    <3>2. Pending' = Pending
      BY <3>1 DEF Pending
    <3> QED
      BY <1>2, <1>7, <2>1, <2>2, <2>4, <3>1, <3>2 DEF UndoInv, Before, Over
  <2> QED
    BY <2>6, <2>7
<1>10. DestructInv'
  <2>1. DestructPending' = DestructPending /\ ~DestructPending
    <3>1. ~DestructPending
      BY <1>2 DEF DestructInv, Late
    <3>2. defers' = defers \/ defers' = Append(defers, <<"Cleanup", i>>)
      BY <1>1
    <3>3. \A k \in 1 .. Len(defers') : (k \in 1 .. Len(defers) /\ defers'[k] = defers[k]) \/ defers'[k][1] = "Cleanup"
      BY <1>2, <3>2 DEF TypeOK
    <3> QED
      BY <3>1, <3>3 DEF DestructPending
  <2>2. pc' \in {"request", "headers", "unwind"}
    BY <1>4
  <2>3. pc \notin Late /\ pc' \notin Late /\ pc \notin Ending /\ pc' \notin Over
    BY <1>2, <2>2 DEF Late, Ending, Over
  <2> QED
    BY <1>2, <1>6, <2>1, <2>2, <2>3, DestructFrame
<1> QED
  BY <1>8, <1>9, <1>10 DEF LogInv

\* What a hook's outcome leads to.
LEMMA HookCalls ==
    ASSUME NEW h, NEW o, NEW after, Hook(h, o, after)
    PROVE  /\ Call(h, i, o) /\ pc' \in {pc, after, "unwind"}
           /\ Panics(o) => Panic(KindOf(o))
           /\ ~Panics(o) => panicking' = panicking
  BY DEF Hook, Goto, Panic

\* The framework's own stages.
LEMMA AnswersLog ==
    ASSUME IInv, LogInv, HandleHeaders \/ Lookup \/ WaitRequestData \/ ChooseView \/ Outcome
    PROVE  LogInv'
<1> USE DEF Goto, Panic
<1>0. TypeOK
  BY DEF IInv
<1>1. CASE HandleHeaders
  <2>1. pc = "headers" /\ pc' \in {"unwind", "body"} /\ (midwares => midwares')
    BY <1>0, <1>1 DEF HandleHeaders, TypeOK
  <2>2. Forward
    BY <1>1, <2>1 DEF HandleHeaders, Forward, Stages, Upto, Late, Over, Ending
  <2>3. Answer \/ UNCHANGED answer
    BY <1>1 DEF HandleHeaders
  <2> QED
    BY <1>0, <2>1, <2>2, <2>3, PlainAnswer DEF Ending, Over
<1>2. CASE Lookup
  <2>1. pc = "lookup" /\ pc' \in {"unwind", "wait"}
    BY <1>2 DEF Lookup
  <2>2. Forward
    BY <1>2, <2>1 DEF Lookup, Forward, Stages, Upto, Late, Over, Ending
  <2> QED
    BY <1>0, <1>2, <2>1, <2>2, PlainAnswer DEF Lookup, Ending, Over
<1>3. CASE WaitRequestData
  <2>1. pc = "wait" /\ pc' \in {"unwind", "handler", "controller"}
    BY <1>3 DEF WaitRequestData
  <2>2. Forward
    BY <1>3, <2>1 DEF WaitRequestData, Forward, Stages, Upto, Late, Over, Ending
  <2> QED
    BY <1>0, <1>3, <2>1, <2>2, PlainAnswer DEF WaitRequestData, Ending, Over
<1>4. CASE ChooseView
  <2>1. pc = "view?" /\ pc' \in {"view", "outcome"}
    BY <1>4 DEF ChooseView
  <2>2. Forward
    BY <1>4, <2>1 DEF ChooseView, Forward, Stages, Upto, Late, Over, Ending
  <2> QED
    BY <1>0, <1>4, <2>1, <2>2, PlainAnswer DEF ChooseView, Ending, Over
<1>5. CASE Outcome
  <2>1. pc = "outcome" /\ pc' = "unwind"
    BY <1>5 DEF Outcome
  <2>2. Forward
    BY <1>5, <2>1 DEF Outcome, Forward, Stages, Upto, Late, Over, Ending
  <2>3. Answer \/ UNCHANGED answer
    BY <1>5 DEF Outcome
  <2> QED
    BY <1>0, <2>1, <2>2, <2>3, PlainAnswer DEF Ending, Over
<1> QED
  BY <1>1, <1>2, <1>3, <1>4, <1>5

\* The hooks that nothing undoes, the handler and the view.
LEMMA HooksLog ==
    ASSUME IInv, LogInv, CtrlOK, BodyHook \/ Handler \/ ControllerHook \/ ViewHook \/ PublishView
    PROVE  LogInv'
<1>0. TypeOK /\ i \in Nat /\ 0 \in Nat
  BY DEF IInv, TypeOK
<1>1. CASE BodyHook
  <2>1. PICK o \in Outcomes : Hook("Body", o, "lookup")
    BY <1>1 DEF BodyHook
  <2>2. pc = "body" /\ pc' \in {"body", "lookup", "unwind"}
    BY <1>1, <2>1, HookCalls DEF BodyHook
  <2>3. Forward /\ pc \notin Ending
    BY <1>1, <2>2 DEF BodyHook, Forward, Stages, Upto, Late, Over, Ending
  <2> QED
    BY <1>0, <1>1, <2>1, <2>3, HookCalls, PlainCall DEF BodyHook
<1>2. CASE Handler
  <2>1. PICK o \in Outcomes : Call("Handler", 0, o) /\ IF Panics(o) THEN Panic(KindOf(o)) ELSE Goto("unwind")
    BY <1>2 DEF Handler
  <2>2. pc = "handler" /\ pc' = "unwind" /\ (~Panics(o) => panicking' = panicking)
    BY <1>2, <2>1 DEF Handler, Goto, Panic
  <2>3. Forward /\ pc \notin Ending
    BY <1>2, <2>2 DEF Handler, Forward, Stages, Upto, Late, Over, Ending
  <2> QED
    BY <1>0, <1>2, <2>1, <2>2, <2>3, PlainCall DEF Handler
<1>3. CASE ControllerHook
  <2>1. PICK o \in Outcomes : Hook("Controller", o, "prepare")
    BY <1>3 DEF ControllerHook
  <2>2. pc = "controller" /\ pc' \in {"controller", "prepare", "unwind"}
    BY <1>3, <2>1, HookCalls DEF ControllerHook
  <2>3. ctrl'.prepared = ctrl.prepared
    BY <1>3 DEF ControllerHook, CtrlOK
  <2>4. Forward /\ pc \notin Ending
    BY <1>3, <2>2, <2>3 DEF ControllerHook, Forward, Stages, Upto, Late, Over, Ending
  <2> QED
    BY <1>0, <1>3, <2>1, <2>4, HookCalls, PlainCall DEF ControllerHook
<1>4. CASE ViewHook
  <2>1. PICK o \in Outcomes : Hook("View", o, "publish")
    BY <1>4 DEF ViewHook
  <2>2. pc = "view" /\ pc' \in {"view", "publish", "unwind"}
    BY <1>4, <2>1, HookCalls DEF ViewHook
  <2>3. Forward /\ pc \notin Ending
    BY <1>4, <2>2 DEF ViewHook, Forward, Stages, Upto, Late, Over, Ending
  <2> QED
    BY <1>0, <1>4, <2>1, <2>3, HookCalls, PlainCall DEF ViewHook
<1>5. CASE PublishView
  <2>1. PICK o \in {"return", "write", "panic"} :
          Call("Publish", 0, o) /\ IF Panics(o) THEN Panic(KindOf(o)) ELSE Goto("outcome")
    BY <1>5 DEF PublishView
  <2>2. /\ pc = "publish" /\ pc' \in {"outcome", "unwind"} /\ (~Panics(o) => panicking' = panicking)
        /\ o \in Outcomes
    BY <1>5, <2>1 DEF PublishView, Goto, Panic, Outcomes
  <2>3. Forward /\ pc \notin Ending
    BY <1>5, <2>2 DEF PublishView, Forward, Stages, Upto, Late, Over, Ending
  <2> QED
    BY <1>0, <1>5, <2>1, <2>2, <2>3, PlainCall DEF PublishView
<1> QED
  BY <1>1, <1>2, <1>3, <1>4, <1>5

\* ctrlmgr.Cleanup is deferred after Prepare and Execute, unless they panicked.
LEMMA PushFrame ==
    ASSUME TypeOK, UndoInv, DestructInv, NEW n \in {0, 1}, Extends(n),
           n = 1 => log'[Len(log) + 1][1] = "Action",
           pc \in {"prepare", "execute"}, pc' = "view?", ~Panicked("Action")',
           defers' = Append(defers, <<"Destruct", 0>>),
           midwares' = midwares, conf' = conf, ctrl'.prepared = ctrl.prepared
    PROVE  UndoInv' /\ DestructInv'
<1>1. pc \notin Late \cup Over \cup {"unwind"} /\ pc' \in Late /\ pc' \notin Over \cup {"unwind"}
  BY DEF Late, Over
<1>2. ~DestructPending /\ Calls("Destruct") = {} /\ ~Called("Destruct")
  <2>1. ~DestructPending /\ ~Called("Destruct")
    BY <1>1 DEF DestructInv
  <2> QED
    BY <2>1 DEF Called, Calls
<1>3. UndoInv'
  BY <1>2, UndoPush
<1>4. DestructPending'
  <2>1. Len(defers') \in 1 .. Len(defers') /\ defers'[Len(defers')][1] = "Destruct"
    BY DEF TypeOK
  <2> QED
    BY <2>1 DEF DestructPending
<1>5. /\ Calls("Destruct")' = Calls("Destruct") /\ Called("Destruct")' = Called("Destruct")
      /\ Called("Construct")' = Called("Construct") /\ Returned("Construct")' = Returned("Construct")
  BY OtherCalls
<1>6. RunsDestruct' = RunsDestruct
  BY DEF RunsDestruct
<1>7. DestructInv'
  BY <1>1, <1>2, <1>4, <1>5, <1>6 DEF DestructInv
<1> QED
  BY <1>3, <1>7

\* The steps that defer it without a call into the program, and the panic of
\* one that returns a status.
LEMMA PushesLog ==
    ASSUME IInv, LogInv, CtrlOK, PrepareSkipped \/ PrepareFails \/ ExecuteNoAction \/ ExecuteSkipped
    PROVE  LogInv'
<1> USE DEF Goto, Panic
<1>1. /\ TypeOK /\ UndoInv /\ AnswerInv /\ DestructInv
      /\ UNCHANGED <<conf, midwares, ctxt>> /\ UNCHANGED answer
      /\ pc \in {"prepare", "execute"} /\ pc' \in {"view?", "unwind"}
  BY DEF IInv, LogInv, PrepareSkipped, PrepareFails, ExecuteNoAction, ExecuteSkipped
<1>2. ctrl'.prepared = ctrl.prepared
  BY DEF CtrlOK, PrepareSkipped, PrepareFails, ExecuteNoAction, ExecuteSkipped
<1>3. \/ pc' = "view?" /\ defers' = Append(defers, <<"Destruct", 0>>)
      \/ pc' = "unwind" /\ defers' = defers /\ conf.statusStyle
  BY DEF PrepareSkipped, PrepareFails, ExecuteNoAction, ExecuteSkipped
<1>4. Extends(0)
  BY <1>1, AnswerExtends DEF Quiet
<1>5. AnswerInv'
  <2>1. ~(Failed /\ ~written)
    BY <1>1 DEF AnswerInv
  <2> QED
    BY <1>1, <2>1, AnswerByItself
<1>6. CASE pc' = "view?" /\ defers' = Append(defers, <<"Destruct", 0>>)
  <2>1. ~Panicked("Action")'
    <3>1. ~Called("Action")
      BY <1>1 DEF DestructInv, Late, Over
    <3>2. log' = log
      BY <1>1 DEF answer
    <3> QED
      BY <3>1, <3>2 DEF Panicked, Called
  <2>2. UndoInv' /\ DestructInv'
    BY <1>1, <1>2, <1>4, <1>6, <2>1, PushFrame
  <2> QED
    BY <1>5, <2>2 DEF LogInv
<1>7. CASE pc' = "unwind" /\ defers' = defers /\ conf.statusStyle
  <2>1. conf.endpoint # "scontroller"
    BY <1>1, <1>7 DEF DestructInv
  <2>2. pc' \in Stages /\ pc \notin Ending \cup Late /\ pc' \notin Late \cup Over
        /\ pc' \notin {"enter", "resources", "request", "execute"} /\ pc' \notin Upto
    BY <1>1, <1>7 DEF Stages, Late, Over, Ending, Upto
  <2>3. UndoInv'
    BY <1>1, <1>4, <1>7, <2>2, UndoFrame
  <2>4. DestructPending' = DestructPending
    BY <1>7 DEF DestructPending
  <2>5. DestructInv'
    BY <1>1, <1>2, <1>4, <1>7, <2>1, <2>2, <2>4, DestructFrame
  <2> QED
    BY <1>5, <2>3, <2>5 DEF LogInv
<1> QED
  BY <1>3, <1>6, <1>7

\* Prepare: Construct_ returned, or it panicked and the controller is not prepared.
LEMMA PrepareLog == ASSUME IInv, LogInv, CtrlOK, Prepare PROVE LogInv'
<1>1. PICK o \in Outcomes :
         /\ IF conf.endpoint = "scontroller"
              THEN Call("Construct", 0, o)
              ELSE o = "return" /\ UNCHANGED answer
         /\ IF Panics(o)
              THEN Panic(KindOf(o)) /\ UNCHANGED ctrl
              ELSE /\ Goto("execute")
                   /\ ctrl' = [ctrl EXCEPT !.prepared = TRUE,
                                           !.state = IF errored' THEN "error" ELSE "200"]
  BY DEF Prepare
<1>2. /\ TypeOK /\ UndoInv /\ AnswerInv /\ DestructInv /\ pc = "prepare"
      /\ UNCHANGED <<conf, defers, midwares, ctxt>>
  BY DEF IInv, LogInv, Prepare
<1>3. /\ Panics(o) => pc' = "unwind" /\ panicking' = KindOf(o) /\ ctrl' = ctrl
      /\ ~Panics(o) => pc' = "execute" /\ panicking' = panicking /\ ctrl'.prepared
  BY <1>1 DEF Goto, Panic, CtrlOK
<1>4. pc' \in Stages /\ pc \notin Ending \cup Late \cup {"execute"} /\ pc' \notin Late \cup Over
      /\ pc' \notin {"enter", "resources", "request"} /\ pc \in Upto
  BY <1>2, <1>3 DEF Stages, Late, Over, Ending, Upto
<1>5. /\ ~Called("Construct") /\ ~Returned("Construct") /\ ~ctrl.prepared /\ ~Called("Action")
      /\ ~DestructPending /\ ~Called("Destruct") /\ Calls("Destruct") = {}
  <2>1. ~Called("Construct") /\ ~ctrl.prepared /\ ~Called("Action") /\ ~DestructPending /\ ~Called("Destruct")
    BY <1>2 DEF DestructInv, Late, Over
  <2> QED
    BY <2>1 DEF Called, Returned, Calls
<1>6. CASE conf.endpoint = "scontroller"
  <2>1. Made("Construct", 0, ~Panics(o)) /\ "Construct" \in Hooks
    BY <1>1, <1>2, <1>6, CallExtends DEF Hooks
  <2>2. Extends(1) /\ log'[Len(log) + 1][1] = "Construct" /\ (~Panics(o)) \in BOOLEAN
    BY <2>1 DEF Made, Panics
  <2>3. UndoInv'
    BY <1>2, <1>4, <2>2, UndoFrame DEF Ending
  <2>4. AnswerInv'
    BY <1>1, <1>2, <1>3, <1>6, <2>1, AnswerByCall
  <2>5. /\ Returned("Construct")' <=> ~Panics(o)
        /\ ~Called("Action")' /\ ~Called("Destruct")' /\ Calls("Destruct")' = {}
    BY <1>2, <1>5, <2>1, <2>2, OwnCalls, OtherCalls
  <2>6. ~DestructPending'
    BY <1>2, <1>5 DEF DestructPending
  <2>7. RunsDestruct' <=> ~Panics(o)
    BY <1>2, <1>3, <1>5, <1>6 DEF RunsDestruct
  <2>8. pc' \in {"execute", "unwind"} /\ (pc' = "unwind" => ~Returned("Construct")')
    BY <1>3, <2>5
  <2>9. DestructInv'
    BY <1>2, <1>4, <2>5, <2>6, <2>7, <2>8 DEF DestructInv
  <2> QED
    BY <2>3, <2>4, <2>9 DEF LogInv
<1>7. CASE conf.endpoint # "scontroller"
  <2>1. UNCHANGED answer /\ pc' = "execute"
    BY <1>1, <1>3, <1>7 DEF Panics
  <2>2. Extends(0) /\ log' = log
    BY <1>2, <2>1, AnswerExtends DEF Quiet, answer
  <2>3. UndoInv'
    BY <1>2, <1>4, <2>2, UndoFrame DEF Ending
  <2>4. AnswerInv'
    <3>1. ~(Failed /\ ~written)
      BY <1>2 DEF AnswerInv
    <3> QED
      BY <1>2, <2>1, <3>1, AnswerByItself
  <2>5. ~Returned("Construct")' /\ ~Called("Action")' /\ ~Called("Destruct")' /\ Calls("Destruct")' = {}
    BY <1>5, <2>2 DEF Called, Returned, Calls
  <2>6. ~DestructPending' /\ ~RunsDestruct'
    BY <1>2, <1>5, <1>7 DEF DestructPending, RunsDestruct
  <2>7. DestructInv'
    BY <1>2, <1>4, <2>1, <2>5, <2>6 DEF DestructInv
  <2> QED
    BY <2>3, <2>4, <2>7 DEF LogInv
<1> QED
  BY <1>6, <1>7

\* Execute: ctrlmgr.Cleanup is deferred if the action returned.
LEMMA ExecuteLog == ASSUME IInv, LogInv, CtrlOK, Execute PROVE LogInv'
<1>1. PICK o \in Outcomes, res \in ActionResults :
         /\ Call("Action", 0, o)
         /\ IF Panics(o)
              THEN Panic(KindOf(o)) /\ UNCHANGED <<ctrl, defers>>
              ELSE /\ Goto("view?")
                   /\ ctrl' = [ctrl EXCEPT !.executed = TRUE, !.state = res.state,
                                           !.view = res.view]
                   /\ defers' = Append(defers, <<"Destruct", 0>>)
  BY DEF Execute
<1>2. /\ TypeOK /\ UndoInv /\ AnswerInv /\ DestructInv /\ pc = "execute"
      /\ UNCHANGED <<conf, midwares, ctxt>>
  BY DEF IInv, LogInv, Execute
<1>3. /\ Panics(o) => pc' = "unwind" /\ panicking' = KindOf(o) /\ defers' = defers
      /\ ~Panics(o) => pc' = "view?" /\ panicking' = panicking /\ defers' = Append(defers, <<"Destruct", 0>>)
      /\ ctrl'.prepared = ctrl.prepared
  BY <1>1 DEF Goto, Panic, CtrlOK
<1>4. Made("Action", 0, ~Panics(o)) /\ "Action" \in Hooks /\ (~Panics(o)) \in BOOLEAN
  BY <1>1, <1>2, CallExtends DEF Hooks, Panics
<1>5. Extends(1) /\ log'[Len(log) + 1][1] = "Action"
  BY <1>4 DEF Made
<1>6. AnswerInv'
  BY <1>1, <1>2, <1>3, <1>4, AnswerByCall
<1>7. ~Called("Action") /\ ~Panicked("Action") /\ ~DestructPending /\ ~Called("Destruct") /\ Calls("Destruct") = {}
  <2>1. ~Called("Action") /\ ~DestructPending /\ ~Called("Destruct")
    BY <1>2 DEF DestructInv, Late, Over
  <2> QED
    BY <2>1 DEF Called, Panicked, Calls
<1>8. Panicked("Action")' <=> Panics(o)
  BY <1>2, <1>4, <1>7, OwnCalls
<1>9. CASE ~Panics(o)
  <2>1. UndoInv' /\ DestructInv'
    BY <1>2, <1>3, <1>5, <1>8, <1>9, PushFrame
  <2> QED
    BY <1>6, <2>1 DEF LogInv
<1>10. CASE Panics(o)
  <2>1. pc' \in Stages /\ pc \notin Ending /\ pc' \notin Late \cup Over \cup Upto
        /\ pc' \notin {"enter", "resources", "request"}
    BY <1>2, <1>3, <1>10 DEF Stages, Late, Over, Ending, Upto
  <2>2. UndoInv'
    BY <1>2, <1>3, <1>5, <1>10, <2>1, UndoFrame
  <2>3. /\ Calls("Destruct")' = {} /\ ~Called("Destruct")'
        /\ Returned("Construct")' = Returned("Construct")
    BY <1>2, <1>5, <1>7, OtherCalls
  <2>4. ~DestructPending' /\ RunsDestruct' = RunsDestruct
    BY <1>2, <1>3, <1>7, <1>10 DEF DestructPending, RunsDestruct
  <2>5. DestructInv'
    BY <1>2, <1>3, <1>8, <1>10, <2>1, <2>3, <2>4 DEF DestructInv
  <2> QED
    BY <1>6, <2>2, <2>5 DEF LogInv
<1> QED
  BY <1>9, <1>10

-----------------------------------------------------------------------------
(* The deferred calls and the end.                                         *)

\* The call on top of the stack, and what is left below it.
LEMMA TopOfStack ==
    ASSUME TypeOK, UndoInv, defers # <<>>, defers' = Pop
    PROVE  /\ Len(defers) \in Nat /\ Len(defers) >= 1 /\ Top = defers[Len(defers)]
           /\ Top = <<"Cleanup", Len(defers)>> \/ Top = <<"Destruct", 0>>
           /\ Len(defers') = Len(defers) - 1
           /\ \A k \in 1 .. Len(defers') : defers'[k] = defers[k] /\ defers'[k] = <<"Cleanup", k>>
           /\ DestructPending <=> Top = <<"Destruct", 0>>
           /\ ~DestructPending'
           /\ Pending' = Pending \ {Len(defers)} /\ Pending' = 1 .. Len(defers')
           /\ Top = <<"Destruct", 0>> => Pending' = Pending
           /\ Top = <<"Cleanup", Len(defers)>> => Pending = Pending' \cup {Len(defers)}
<1>1. /\ Len(defers) \in Nat /\ Len(defers) >= 1 /\ Top = defers[Len(defers)]
      /\ Len(defers') = Len(defers) - 1 /\ \A k \in 1 .. Len(defers') : defers'[k] = defers[k]
  <2>1. defers \in Seq(Deferred) /\ Len(defers) \in Nat
    BY DEF TypeOK
  <2>2. Len(defers) >= 1
    BY <2>1
  <2>3. defers' = SubSeq(defers, 1, Len(defers) - 1)
    BY DEF Pop
  <2>4. Len(defers') = Len(defers) - 1
    <3>1. \A k \in 1 .. Len(defers) - 1 : defers[k] \in Deferred
      BY <2>1
    <3>2. Len(SubSeq(defers, 1, Len(defers) - 1)) =
            IF 1 <= Len(defers) - 1 THEN Len(defers) - 1 - 1 + 1 ELSE 0
      BY <2>1, <3>1, SubSeqProperties
    <3>3. Len(defers') = IF 1 <= Len(defers) - 1 THEN Len(defers) - 1 - 1 + 1 ELSE 0
      BY <2>3, <3>2, Zenon
    <3>4. \A n \in Nat : \A d : n >= 1 /\ d = (IF 1 <= n - 1 THEN n - 1 - 1 + 1 ELSE 0) => d = n - 1
      OBVIOUS
    <3> QED
      BY <2>1, <2>2, <3>3, <3>4, Zenon
  <2>5. \A k \in 1 .. Len(defers') : defers'[k] = defers[k]
    BY <2>1, <2>2, <2>3, <2>4
  <2> QED
    BY <2>1, <2>2, <2>4, <2>5 DEF Top
<1>2. Top = <<"Cleanup", Len(defers)>> \/ Top = <<"Destruct", 0>>
  BY <1>1 DEF UndoInv
<1>3. \A k \in 1 .. Len(defers') : defers[k] = <<"Cleanup", k>>
  BY <1>1 DEF UndoInv
<1>4. \A k \in 1 .. Len(defers') : defers[k][1] = "Cleanup" /\ defers'[k][1] = "Cleanup"
  BY <1>1, <1>3
<1>5. Top = <<"Destruct", 0>> => Top[1] = "Destruct"
  OBVIOUS
<1>6. Top # <<"Destruct", 0>> => Top[1] = "Cleanup"
  BY <1>2
<1>7. DestructPending <=> Top = <<"Destruct", 0>>
  BY <1>1, <1>4, <1>5, <1>6 DEF DestructPending
<1>8. ~DestructPending'
  BY <1>4 DEF DestructPending
<1>9. Pending' = 1 .. Len(defers')
  BY <1>4 DEF Pending
<1>10. Pending \ {Len(defers)} = 1 .. Len(defers')
  BY <1>1, <1>4 DEF Pending
<1>11. Len(defers) \in Pending <=> Top # <<"Destruct", 0>>
  BY <1>1, <1>5, <1>6 DEF Pending
<1>12. Pending' = Pending \ {Len(defers)}
  BY <1>9, <1>10
<1>13. Top = <<"Destruct", 0>> => Pending' = Pending
  BY <1>11, <1>12
<1>14. Top = <<"Cleanup", Len(defers)>> => Pending = Pending' \cup {Len(defers)}
  <2>1. Top = <<"Cleanup", Len(defers)>> => Top # <<"Destruct", 0>>
    OBVIOUS
  <2> QED
    BY <1>11, <1>12, <2>1
<1>15. \A k \in 1 .. Len(defers') : defers'[k] = defers[k] /\ defers'[k] = <<"Cleanup", k>>
  BY <1>1, <1>3
<1> QED
  BY <1>1, <1>2, <1>7, <1>8, <1>9, <1>12, <1>13, <1>14, <1>15

\* Middleware m is cleaned up next: it is the last one not cleaned up yet.
LEMMA CleanupLog ==
    ASSUME TypeOK, UndoInv, DestructInv, RunDefer, Top = <<"Cleanup", Len(defers)>>,
           NEW ok \in BOOLEAN, Made("Cleanup", Len(defers), ok)
    PROVE  UndoInv' /\ DestructInv'
<1> DEFINE m == Len(defers)
<1>1. /\ pc = "unwind" /\ pc' = "unwind" /\ UNCHANGED <<conf, midwares, ctrl>> /\ defers # <<>> /\ defers' = Pop
  BY DEF RunDefer
<1>2. /\ m \in Nat /\ Len(defers') = m - 1 /\ \A k \in 1 .. m - 1 : defers'[k] = <<"Cleanup", k>>
      /\ ~DestructPending /\ ~DestructPending'
      /\ Pending' = 1 .. m - 1 /\ Pending = Pending' \cup {m}
  BY <1>1, TopOfStack
<1>3. Extends(1) /\ Len(log) \in Nat /\ log'[Len(log) + 1] = <<"Cleanup", m, ok>>
  BY DEF Made, TypeOK
<1>4. log'[Len(log) + 1][1] = "Cleanup" /\ log'[Len(log) + 1][2] = m
  BY <1>3
<1>5. /\ Calls("Request")' = Calls("Request") /\ \A k \in Calls("Request") : log'[k] = log[k]
      /\ Calls("Cleanup")' = Calls("Cleanup") \cup {Len(log) + 1}
      /\ \A k \in Calls("Cleanup") : log'[k] = log[k] /\ k < Len(log) + 1 /\ k \in Nat
  BY <1>3, <1>4, OwnCalls, OtherCalls
<1> HIDE DEF m
<1>6. ToCleanUp' = ToCleanUp
  BY <1>5 DEF ToCleanUp
<1>7. CleanedUp' = CleanedUp \cup {m}
  <2>1. CleanedUp' = {log'[k][2] : k \in Calls("Cleanup") \cup {Len(log) + 1}}
    BY <1>5 DEF CleanedUp
  <2> QED
    BY <1>4, <1>5, <2>1 DEF CleanedUp
<1>8. \A k, l \in Calls("Request")' : k < l => log'[k][2] < log'[l][2]
  BY <1>5 DEF UndoInv
<1>9. ASSUME NEW k \in Calls("Cleanup")', NEW l \in Calls("Cleanup")', k < l
      PROVE  log'[k][2] > log'[l][2]
  <2>1. k \in Calls("Cleanup")
    BY <1>3, <1>5, <1>9
  <2>2. CASE l \in Calls("Cleanup")
    BY <1>5, <1>9, <2>1, <2>2 DEF UndoInv
  <2>3. CASE l = Len(log) + 1
    <3>1. m \in Pending /\ log[k][2] \in CleanedUp
      BY <1>2, <2>1 DEF CleanedUp
    <3>2. m < log[k][2]
      BY <3>1 DEF UndoInv
    <3>3. log[k][2] \in Nat
      BY <2>1 DEF Calls, TypeOK, Entries
    <3> QED
      BY <1>2, <1>4, <1>5, <2>1, <2>3, <3>2, <3>3
  <2> QED
    BY <1>5, <2>2, <2>3
<1>10. ToCleanUp' = CleanedUp' \cup Pending'
  BY <1>2, <1>6, <1>7 DEF UndoInv
<1>11. \A c \in CleanedUp', k \in Pending' : k < c
  BY <1>2, <1>7 DEF UndoInv
<1>12. midwares' => ToCleanUp' = Mwares
  BY <1>1, <1>6 DEF UndoInv
<1>13. UndoInv'
  BY <1>1, <1>2, <1>8, <1>9, <1>10, <1>11, <1>12 DEF UndoInv, Before, Over
<1>14. DestructInv'
  <2>1. DestructPending' = DestructPending
    BY <1>2 DEF DestructPending
  <2> QED
    BY <1>1, <1>2, <1>3, <1>4, <2>1, DestructFrame DEF Late, Over, Ending
<1> QED
  BY <1>13, <1>14

\* ctrlmgr.Cleanup: Destruct_ is called if the controller was constructed.
LEMMA DestructLog ==
    ASSUME TypeOK, UndoInv, DestructInv, RunDefer, Top = <<"Destruct", 0>>,
           \/ ~RunsDestruct /\ log' = log /\ Extends(0)
           \/ RunsDestruct /\ \E ok \in BOOLEAN : Made("Destruct", 0, ok)
    PROVE  UndoInv' /\ DestructInv'
<1>1. /\ pc = "unwind" /\ pc' = "unwind" /\ UNCHANGED <<conf, midwares, ctrl>> /\ defers # <<>> /\ defers' = Pop
  BY DEF RunDefer
<1>2. /\ Len(defers') = Len(defers) - 1 /\ \A k \in 1 .. Len(defers') : defers'[k] = <<"Cleanup", k>>
      /\ DestructPending /\ ~DestructPending' /\ Pending' = Pending
  BY <1>1, TopOfStack
<1>3. ~Called("Destruct") /\ Calls("Destruct") = {} /\ ~Panicked("Action")
  <2>1. ~Called("Destruct") /\ ~Panicked("Action")
    BY <1>2 DEF DestructInv
  <2> QED
    BY <2>1 DEF Called, Calls
<1>4. PICK n \in {0, 1} : Extends(n) /\ (n = 1 => log'[Len(log) + 1][1] = "Destruct")
  BY DEF Made
<1>5. /\ Calls("Request")' = Calls("Request") /\ \A k \in Calls("Request") : log'[k] = log[k]
      /\ Calls("Cleanup")' = Calls("Cleanup") /\ \A k \in Calls("Cleanup") : log'[k] = log[k]
      /\ Returned("Construct")' = Returned("Construct") /\ Panicked("Action")' = Panicked("Action")
  BY <1>4, OtherCalls
<1>6. UndoInv'
  <2>1. ToCleanUp' = ToCleanUp /\ CleanedUp' = CleanedUp
    BY <1>5 DEF ToCleanUp, CleanedUp
  <2> QED
    BY <1>1, <1>2, <1>5, <2>1 DEF UndoInv, Before, Over
<1>7. RunsDestruct' = RunsDestruct /\ pc' \notin Late
  BY <1>1 DEF RunsDestruct, Late
<1>8. CASE ~RunsDestruct /\ log' = log
  <2>1. Calls("Destruct")' = {} /\ ~Called("Destruct")'
    BY <1>3, <1>8 DEF Called, Calls
  <2> QED
    BY <1>1, <1>2, <1>5, <1>6, <1>7, <1>8, <2>1 DEF DestructInv
<1>9. ASSUME RunsDestruct, NEW ok \in BOOLEAN, Made("Destruct", 0, ok) PROVE DestructInv'
  <2>1. Calls("Destruct")' = {Len(log) + 1} /\ Called("Destruct")'
    BY <1>3, <1>9, OwnCalls
  <2>2. Returned("Construct")
    BY <1>9 DEF DestructInv
  <2> QED
    BY <1>1, <1>2, <1>3, <1>5, <1>7, <1>9, <2>1, <2>2 DEF DestructInv
<1> QED
  BY <1>6, <1>8, <1>9

LEMMA RunDeferLog == ASSUME IInv, LogInv, RunDefer PROVE LogInv'
<1>1. /\ TypeOK /\ UndoInv /\ AnswerInv /\ DestructInv /\ pc = "unwind" /\ pc' = "unwind"
      /\ UNCHANGED <<conf, midwares, ctxt, ctrl>> /\ defers # <<>> /\ defers' = Pop
  BY DEF IInv, LogInv, RunDefer
<1>2. Len(defers) \in Nat /\ (Top = <<"Cleanup", Len(defers)>> \/ Top = <<"Destruct", 0>>)
  BY <1>1, TopOfStack
<1>3. CASE Top = <<"Destruct", 0>> /\ ~RunsDestruct
  <2>1. UNCHANGED answer /\ panicking' = panicking /\ log' = log
    BY <1>3 DEF RunDefer, answer
  <2>2. UndoInv' /\ DestructInv'
    BY <1>1, <1>3, <2>1, AnswerExtends, DestructLog DEF Quiet
  <2>3. AnswerInv'
    BY <1>1, <2>1, AnswerByItself DEF AnswerInv
  <2> QED
    BY <2>2, <2>3 DEF LogInv
<1>4. CASE Top = <<"Cleanup", Len(defers)>> \/ RunsDestruct
  <2>1. ~(Top[1] = "Destruct" /\ ~RunsDestruct)
    BY <1>4
  <2>2. PICK o \in Outcomes :
          Call(Top[1], Top[2], o) /\ panicking' = IF Panics(o) THEN KindOf(o) ELSE panicking
    BY <2>1 DEF RunDefer
  <2>3. Top[1] \in Hooks /\ Top[1] # "Response" /\ Top[2] \in Nat
    BY <1>2 DEF Hooks
  <2>4. AnswerInv'
    BY <1>1, <2>2, <2>3, AnswerByCall
  <2>5. Made(Top[1], Top[2], ~Panics(o)) /\ (~Panics(o)) \in BOOLEAN
    BY <1>1, <2>2, <2>3, CallExtends DEF Panics
  <2>6. CASE Top = <<"Cleanup", Len(defers)>>
    <3>1. Made("Cleanup", Len(defers), ~Panics(o))
      BY <2>5, <2>6
    <3> QED
      BY <1>1, <2>4, <2>5, <2>6, <3>1, CleanupLog DEF LogInv
  <2>7. CASE Top = <<"Destruct", 0>> /\ RunsDestruct
    <3>1. Made("Destruct", 0, ~Panics(o))
      BY <2>5, <2>7
    <3> QED
      BY <1>1, <2>4, <2>5, <2>7, <3>1, DestructLog DEF LogInv
  <2> QED
    BY <1>2, <1>4, <2>6, <2>7
<1> QED
  BY <1>2, <1>3, <1>4

\* A panic that nobody answered before is answered when it is recovered.
LEMMA EndLog == ASSUME IInv, LogInv, Recover \/ RecoverPanics \/ CloseContext \/ DecRunners PROVE LogInv'
<1> USE DEF Recover, RecoverPanics, CloseContext, DecRunners, Goto
<1>1. /\ TypeOK /\ UndoInv /\ AnswerInv /\ DestructInv /\ ClosedInv
      /\ UNCHANGED <<conf, defers, midwares, ctrl>>
      /\ pc \in Ending /\ pc' \in Over /\ defers = <<>> /\ (Answer \/ UNCHANGED answer)
  BY DEF IInv, LogInv, UndoInv, Ending, Over
<1>2. UndoInv' /\ DestructInv'
  <2>1. Forward
    BY <1>1 DEF Forward, Stages, Upto, Late, Over, Ending
  <2> QED
    BY <1>1, <2>1, AnswerExtends, ForwardFrame DEF Quiet
<1>3. AnswerInv'
  <2>1. ASSUME UNCHANGED answer, Failed, ~written
        PROVE  /\ panicking' \in {"contexterror", "other"}
               /\ pc' \in {"unwind", "dec", "done"}
               /\ pc' # "unwind" => ctxt' # "closed"
    <3>1. /\ panicking \in {"contexterror", "other"} /\ pc \in {"unwind", "dec", "done"}
          /\ pc # "unwind" => ctxt # "closed"
      BY <1>1, <2>1 DEF AnswerInv
    <3>2. ~Answer
      BY <1>1, <2>1, AnswerExtends DEF answer
    <3>3. RecoverPanics \/ DecRunners
      BY <3>1, <3>2
    <3> QED
      BY <1>1, <3>1, <3>3 DEF ClosedInv
  <2> QED
    BY <1>1, <2>1, AnswerByItself
<1> QED
  BY <1>2, <1>3 DEF LogInv

\* The parser touches nothing of this.
LEMMA LogUnchanged ==
    ASSUME LogInv, UNCHANGED <<conf, pc, i, defers, panicking, midwares, written, ctxt, redirecting, ctrl, log>>
    PROVE  LogInv'
<1>1. /\ \A h : /\ Calls(h)' = Calls(h) /\ Called(h)' = Called(h)
                /\ Returned(h)' = Returned(h) /\ Panicked(h)' = Panicked(h)
      /\ Failed' = Failed
  BY DEF Calls, Called, Returned, Panicked, Failed
<1>2. Pending' = Pending /\ DestructPending' = DestructPending /\ RunsDestruct' = RunsDestruct
  BY DEF Pending, DestructPending, RunsDestruct
<1>3. ToCleanUp' = ToCleanUp /\ CleanedUp' = CleanedUp
  BY <1>1 DEF ToCleanUp, CleanedUp
<1>4. UndoInv'
  BY <1>1, <1>2, <1>3 DEF LogInv, UndoInv
<1>5. AnswerInv'
  BY <1>1 DEF LogInv, AnswerInv
<1>6. DestructInv'
  BY <1>1, <1>2 DEF LogInv, DestructInv
<1> QED
  BY <1>4, <1>5, <1>6 DEF LogInv

LEMMA LogInvariance == Spec => []LogInv
<1>1. IInv /\ CtrlOK /\ LogInv /\ [Next]_vars => LogInv'
  <2> SUFFICES ASSUME IInv, CtrlOK, LogInv, [Next]_vars PROVE LogInv'
    OBVIOUS
  <2>1. CASE UNCHANGED vars
    BY <2>1, LogUnchanged DEF vars
  <2>2. CASE Parser
    BY <2>2, LogUnchanged DEF Parser, ParserStart, ParserEnd, answer
  <2>3. CASE Serve
    BY <2>3, EntersLog, RequestHookLog, AnswersLog, HooksLog, PushesLog, PrepareLog, ExecuteLog, RunDeferLog,
       EndLog DEF Serve
  <2> QED
    BY <2>1, <2>2, <2>3 DEF Next
<1> QED
  BY <1>1, Invariance, CtrlInvariance, LogBegins, PTL DEF Spec

\* However a request ends, Cleanup was called exactly once for each middleware
\* whose Request hook returned, last first, and for no other, for any number of
\* middlewares and whatever panics on the way (sunny.go:367-370).
THEOREM CleanupUndone == Spec => []CleanupUndoesRequest
<1>1. LogInv => CleanupUndoesRequest
  <2> SUFFICES ASSUME LogInv PROVE CleanupUndoesRequest
    OBVIOUS
  <2>1. CleanedUp \subseteq ToCleanUp
    BY DEF LogInv, UndoInv
  <2>2. Ended => CleanedUp = ToCleanUp
    <3>1. Ended => Pending = {}
      BY DEF LogInv, UndoInv, Ended, Over, Pending
    <3> QED
      BY <3>1 DEF LogInv, UndoInv
  <2> QED
    BY <2>1, <2>2 DEF LogInv, UndoInv, CleanupUndoesRequest
<1> QED
  BY <1>1, LogInvariance, PTL

\* No Response hook runs twice, and none unless every Request hook returned
\* (sunny.go:41-56, 376).
THEOREM ResponseOnce == Spec => []ResponseRunsOnce
<1>1. LogInv => ResponseRunsOnce
  <2> SUFFICES ASSUME LogInv PROVE ResponseRunsOnce
    OBVIOUS
  <2>1. Called("Response") => midwares
    BY DEF LogInv, AnswerInv, Called, Calls
  <2> QED
    BY <2>1 DEF LogInv, UndoInv, AnswerInv, ResponseRunsOnce
<1> QED
  BY <1>1, LogInvariance, PTL

\* A panic in flight that nobody has answered yet is on its way to the
\* recovering call, or was left behind, with an open context, by a listener.
FlightInv ==
    /\ panicking = "redirect" => written
    /\ pc = "close" \/ ctxt = "closed" => panicking = "none"
    /\ panicking # "none" => pc \in {"unwind", "dec", "done"}

InFlight == panicking # "none" \/ written \/ (Ended /\ ctxt # "closed")

\* What a call into the program, or an answer of the framework's own, does to it.
Carries ==
    /\ written => written'
    /\ panicking' # panicking => panicking' # "none" /\ (panicking' = "redirect" => written')

LEMMA CallCarries ==
    ASSUME AnswerInv, NEW h, NEW m, NEW o \in Outcomes, Call(h, m, o),
           panicking' = IF Panics(o) THEN KindOf(o) ELSE panicking
    PROVE  Carries
<1>1. written => written'
  BY DEF Call, WriteHeader
<1>2. Panics(o) => KindOf(o) \in {"contexterror", "redirect", "other"}
  BY DEF KindOf
<1>3. ASSUME KindOf(o) = "redirect" PROVE written'
  <2>1. o = "bounce"
    BY <1>3 DEF KindOf
  <2> QED
    BY <1>1, <2>1 DEF Call, WriteHeader, AnswerInv
<1> QED
  BY <1>1, <1>2, <1>3 DEF Carries

LEMMA AnswerCarries ==
    ASSUME Answer \/ UNCHANGED answer, panicking' \in {panicking, "contexterror", "other"}
    PROVE  Carries
BY DEF Carries, Answer, WriteHeader, answer

\* A step before the deferred calls.
LEMMA Climbs ==
    ASSUME FlightInv, ClosedInv, Carries, pc \notin {"unwind", "close", "dec", "done"}, ctxt' # "closed",
           pc' # "close", panicking' # "none" => pc' = "unwind"
    PROVE  FlightInv' /\ (InFlight => InFlight')
BY DEF FlightInv, InFlight, Carries, Ended

LEMMA AscentFlight ==
    ASSUME IInv, LogInv, FlightInv,
           \/ NoEndPoint \/ OpenContext \/ SetResources \/ RequestHook \/ HandleHeaders \/ BodyHook
           \/ Lookup \/ WaitRequestData \/ Handler
           \/ ControllerHook \/ PrepareSkipped \/ PrepareFails \/ Prepare
           \/ Execute \/ ExecuteNoAction \/ ExecuteSkipped
           \/ ChooseView \/ ViewHook \/ PublishView \/ Outcome
    PROVE  FlightInv' /\ (InFlight => InFlight')
<1>1. AnswerInv /\ ClosedInv
  BY DEF IInv, LogInv
<1>2. /\ pc \notin {"unwind", "close", "dec", "done"} /\ pc' # "close" /\ ctxt' # "closed"
      /\ panicking' # "none" => pc' = "unwind"
  <2>1. ctxt # "closed" /\ panicking = "none" /\ pc \notin {"unwind", "close", "dec", "done"}
    BY <1>1 DEF FlightInv, ClosedInv, NoEndPoint, OpenContext, SetResources, RequestHook, HandleHeaders, BodyHook,
       Lookup, WaitRequestData, Handler, ControllerHook, PrepareSkipped, PrepareFails, Prepare,
       Execute, ExecuteNoAction, ExecuteSkipped, ChooseView, ViewHook, PublishView, Outcome
  <2>2. CASE NoEndPoint \/ OpenContext \/ HandleHeaders \/ Lookup \/ WaitRequestData \/ ChooseView \/ Outcome
    BY <2>1, <2>2 DEF NoEndPoint, OpenContext, HandleHeaders, Lookup, WaitRequestData, ChooseView, Outcome, Goto, Panic
  <2>3. CASE SetResources \/ Handler \/ PublishView
    BY <2>1, <2>3 DEF SetResources, Handler, PublishView, Goto, Panic
  <2>4. CASE RequestHook \/ BodyHook \/ ControllerHook \/ ViewHook
    BY <2>1, <2>4 DEF RequestHook, BodyHook, ControllerHook, ViewHook, Hook, Goto, Panic
  <2>5. CASE PrepareSkipped \/ PrepareFails \/ Prepare \/ Execute \/ ExecuteNoAction \/ ExecuteSkipped
    BY <2>1, <2>5 DEF PrepareSkipped, PrepareFails, Prepare, Execute, ExecuteNoAction, ExecuteSkipped, Goto, Panic
  <2> QED
    BY <2>2, <2>3, <2>4, <2>5
<1>3. Carries
  <2>1. CASE NoEndPoint \/ OpenContext \/ HandleHeaders \/ Lookup \/ WaitRequestData \/ ChooseView \/ Outcome
             \/ PrepareSkipped \/ PrepareFails \/ ExecuteNoAction \/ ExecuteSkipped
    <3>1. (Answer \/ UNCHANGED answer) /\ panicking' \in {panicking, "contexterror", "other"}
      BY <2>1 DEF NoEndPoint, OpenContext, HandleHeaders, Lookup, WaitRequestData, ChooseView, Outcome,
         PrepareSkipped, PrepareFails, ExecuteNoAction, ExecuteSkipped, Goto, Panic
    <3> QED
      BY <3>1, AnswerCarries
  <2>2. ASSUME NEW h, NEW m, NEW o \in Outcomes, Call(h, m, o),
               IF Panics(o) THEN Panic(KindOf(o)) ELSE panicking' = panicking
        PROVE  Carries
    BY <1>1, <2>2, CallCarries DEF Panic
  <2>3. CASE SetResources \/ Handler \/ PublishView
    BY <2>2, <2>3 DEF SetResources, Handler, PublishView, Goto, Outcomes
  <2>4. CASE RequestHook \/ BodyHook \/ ControllerHook \/ ViewHook
    BY <2>2, <2>4 DEF RequestHook, BodyHook, ControllerHook, ViewHook, Hook, Goto
  <2>5. CASE Execute
    BY <2>2, <2>5 DEF Execute, Goto
  <2>6. CASE Prepare
    <3>1. CASE conf.endpoint = "scontroller"
      BY <2>2, <2>6, <3>1 DEF Prepare, Goto
    <3>2. CASE conf.endpoint # "scontroller"
      <4>1. UNCHANGED answer /\ panicking' = panicking
        BY <2>6, <3>2 DEF Prepare, Goto, Panics
      <4> QED
        BY <4>1, AnswerCarries
    <3> QED
      BY <3>1, <3>2
  <2> QED
    BY <2>1, <2>3, <2>4, <2>5, <2>6
<1> QED
  BY <1>1, <1>2, <1>3, Climbs

\* A deferred call may replace the panic in flight, but not end it.
LEMMA DeferFlight == ASSUME IInv, LogInv, FlightInv, RunDefer PROVE FlightInv' /\ (InFlight => InFlight')
<1>1. pc = "unwind" /\ pc' = "unwind" /\ ctxt' = ctxt /\ ctxt # "closed"
  BY DEF RunDefer, IInv, ClosedInv
<1>2. Carries
  <2>1. CASE Top[1] = "Destruct" /\ ~RunsDestruct
    BY <2>1, AnswerCarries DEF RunDefer
  <2>2. CASE ~(Top[1] = "Destruct" /\ ~RunsDestruct)
    <3>1. PICK o \in Outcomes :
            Call(Top[1], Top[2], o) /\ panicking' = IF Panics(o) THEN KindOf(o) ELSE panicking
      BY <2>2 DEF RunDefer
    <3> QED
      BY <3>1, CallCarries DEF LogInv
  <2> QED
    BY <2>1, <2>2
<1> QED
  BY <1>1, <1>2 DEF FlightInv, InFlight, Carries, Ended

\* The recovering call answers what was not answered.
LEMMA EndFlight ==
    ASSUME IInv, FlightInv, Recover \/ RecoverPanics \/ CloseContext \/ DecRunners
    PROVE  FlightInv' /\ (InFlight => InFlight')
<1>1. ClosedInv
  BY DEF IInv
<1>2. CASE Recover
  <2>1. Answer => written'
    BY DEF Answer, WriteHeader
  <2> QED
    BY <1>1, <1>2, <2>1 DEF Recover, FlightInv, InFlight, Ended, answer, ClosedInv
<1>3. CASE RecoverPanics \/ CloseContext \/ DecRunners
  BY <1>1, <1>3 DEF RecoverPanics, CloseContext, DecRunners, Goto, FlightInv, InFlight, Ended, answer, ClosedInv
<1> QED
  BY <1>2, <1>3

LEMMA FlightStep ==
    IInv /\ LogInv /\ FlightInv /\ [Next]_vars => FlightInv' /\ (InFlight => InFlight')
<1> SUFFICES ASSUME IInv, LogInv, FlightInv, [Next]_vars PROVE FlightInv' /\ (InFlight => InFlight')
  OBVIOUS
<1>1. CASE UNCHANGED <<pc, panicking, written, ctxt>>
  BY <1>1 DEF FlightInv, InFlight, Ended
<1>2. CASE Parser \/ UNCHANGED vars
  BY <1>1, <1>2 DEF Parser, ParserStart, ParserEnd, answer, vars
<1>3. CASE Serve
  BY <1>3, AscentFlight, DeferFlight, EndFlight DEF Serve
<1> QED
  BY <1>2, <1>3 DEF Next

\* A panic, whoever raised it, the program or the framework, is answered before
\* the request ends (sunny.go:330-352), for any number of middlewares; unless a
\* listener of the error event panics in turn and leaves the context open.
THEOREM PanicsAnswered == Spec => PanicIsAnswered
<1>1. Init => FlightInv
  BY DEF Init, FlightInv
<1>2. LogInv => ((panicking # "none" \/ \E k \in 1 .. Len(log) : ~log[k][3]) => InFlight)
  BY DEF LogInv, AnswerInv, Failed, InFlight
<1>3. FlightInv /\ InFlight => (Ended /\ ctxt = "closed" => written)
  BY DEF FlightInv, InFlight
<1> QED
  BY <1>1, <1>2, <1>3, FlightStep, Invariance, LogInvariance, PTL DEF Spec, PanicIsAnswered

\* Destruct_ runs at most once, only after Construct_ returned, and it does run if
\* the action did not panic (sunny.go:403-404, controller.go:346-351).
THEOREM DestructPaired == Spec => []DestructFollowsConstruct
<1>1. LogInv => DestructFollowsConstruct
  <2> SUFFICES ASSUME LogInv PROVE DestructFollowsConstruct
    OBVIOUS
  <2>1. Ended => pc \in {"unwind"} \cup Over /\ ~DestructPending
    BY DEF LogInv, UndoInv, Ended, Over, DestructPending
  <2> QED
    BY <2>1 DEF LogInv, DestructInv, DestructFollowsConstruct
<1> QED
  BY <1>1, LogInvariance, PTL
=============================================================================
