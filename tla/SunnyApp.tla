------------------------------ MODULE SunnyApp ------------------------------
(***************************************************************************)
(* The life of the SunnyApps of one process (sunny.go): the registry       *)
(* `servers`, the reference count `runners` that every request and the app *)
(* itself hold, Close, and the removal of an app by whoever drops the last *)
(* reference.                                                              *)
(*                                                                         *)
(* A thread is either a request, a goroutine in ServeRequestedEndPoint, or *)
(* a call of Close.  Each atomic operation, and each critical section of a *)
(* mutex, is one action; everything between them interleaves.              *)
(***************************************************************************)
EXTENDS Integers, FiniteSets

CONSTANTS
    MaxApps,     \* bound: how many apps the process creates
    Requests,    \* the calls of ServeRequestedEndPoint, each made once
    NilRequests, \* those of them made with a nil writer or request
    Calls,       \* the calls of Close, each made once
    NoCallback   \* the nil callback

ASSUME MaxAppsAssumption == MaxApps \in Nat
ASSUME ThreadsAssumption ==
    /\ IsFiniteSet(Requests)
    /\ NilRequests \subseteq Requests
    /\ Requests \cap Calls = {}
    /\ NoCallback \notin Calls

Apps == 0 .. MaxApps - 1
Threads == Requests \cup Calls

VARIABLES
    servers,    \* servers[a]: "none" not created, "live" registered, "nil" removed
    runners,    \* runners[a]: the reference count of app a
    closed,     \* closed[a]: 0 or 1
    callback,   \* callback[a]: the Close call whose function _callback holds
    pc,         \* pc[t]: where thread t stands
    app,        \* app[t]: the app thread t works on
    ret,        \* ret[c]: what Close call c returned, "none" until it does
    fired       \* fired[c]: how often the callback given by call c was run

vars == <<servers, runners, closed, callback, pc, app, ret, fired>>

-----------------------------------------------------------------------------
(* Application and requests.                                               *)

Init ==
    /\ servers = [a \in Apps |-> "none"]
    /\ runners = [a \in Apps |-> 0]
    /\ closed = [a \in Apps |-> 0]
    /\ callback = [a \in Apps |-> NoCallback]
    /\ pc = [t \in Threads |-> "start"]
    /\ app = [t \in Threads |-> 0]
    /\ ret = [c \in Calls |-> "none"]
    /\ fired = [c \in Calls |-> 0]

\* The next id is len(servers); the new app holds a reference to itself.
NewSunnyApp(a) ==
    /\ servers[a] = "none"
    /\ \A b \in Apps : b < a => servers[b] # "none"
    /\ servers' = [servers EXCEPT ![a] = "live"]
    /\ runners' = [runners EXCEPT ![a] = 1]
    /\ UNCHANGED <<closed, callback, pc, app, ret, fired>>

\* A mutant: the reference is taken only once the request is admitted.
EnterRequestUncounted(r, a) ==
    /\ pc[r] = "start"
    /\ servers[a] # "none"
    /\ pc' = [pc EXCEPT ![r] = "entered"]
    /\ app' = [app EXCEPT ![r] = a]
    /\ UNCHANGED <<servers, runners, closed, callback, ret, fired>>

\* ServeRequestedEndPoint takes its reference before it looks at closed.
EnterRequest(r, a) ==
    /\ pc[r] = "start"
    /\ servers[a] # "none"
    /\ runners' = [runners EXCEPT ![a] = @ + 1]
    /\ pc' = [pc EXCEPT ![r] = "entered"]
    /\ app' = [app EXCEPT ![r] = a]
    /\ UNCHANGED <<servers, closed, callback, ret, fired>>

\* A mutant: a request is served whatever closed says.
CheckClosedIgnored(r) ==
    /\ pc[r] = "entered"
    /\ pc' = [pc EXCEPT ![r] = IF r \in NilRequests THEN "leaving" ELSE "serving"]
    /\ UNCHANGED <<servers, runners, closed, callback, app, ret, fired>>

CheckClosed(r) ==
    /\ pc[r] = "entered"
    /\ pc' = [pc EXCEPT ![r] = IF closed[app[r]] = 1 \/ r \in NilRequests
                                 THEN "leaving"
                                 ELSE "serving"]
    /\ UNCHANGED <<servers, runners, closed, callback, app, ret, fired>>

\* The request is served, with or without a panic: the deferred calls come next.
FinishRequest(r) ==
    /\ pc[r] = "serving"
    /\ pc' = [pc EXCEPT ![r] = "leaving"]
    /\ UNCHANGED <<servers, runners, closed, callback, app, ret, fired>>

\* A mutant: the last reference is taken to be 1, the app's own.
DecRunnersAtOne(r) ==
    /\ pc[r] = "leaving"
    /\ runners' = [runners EXCEPT ![app[r]] = @ - 1]
    /\ pc' = [pc EXCEPT ![r] = IF runners'[app[r]] <= 1 THEN "zero" ELSE "done"]
    /\ UNCHANGED <<servers, closed, callback, app, ret, fired>>

\* decrunners: drop the reference; "zero" if it was the last ...
DecRunners(r) ==
    /\ pc[r] = "leaving"
    /\ runners' = [runners EXCEPT ![app[r]] = @ - 1]
    /\ pc' = [pc EXCEPT ![r] = IF runners'[app[r]] = 0 THEN "zero" ELSE "done"]
    /\ UNCHANGED <<servers, closed, callback, app, ret, fired>>

\* ... and then closed is loaded on its own.
DecCheckClosed(r) ==
    /\ pc[r] = "zero"
    /\ pc' = [pc EXCEPT ![r] = IF closed[app[r]] = 1 THEN "removing" ELSE "done"]
    /\ UNCHANGED <<servers, runners, closed, callback, app, ret, fired>>

-----------------------------------------------------------------------------
(* Close.                                                                  *)

\* A mutant: a call without a function of its own takes the stored one away.
CloseRegisterUnguarded(c, a, given) ==
    /\ pc[c] = "start"
    /\ servers[a] # "none"
    /\ callback' = [callback EXCEPT ![a] = IF given THEN c ELSE NoCallback]
    /\ pc' = [pc EXCEPT ![c] = "registered"]
    /\ app' = [app EXCEPT ![c] = a]
    /\ UNCHANGED <<servers, runners, closed, ret, fired>>

\* The critical section that stores the callback, if there is one.
CloseRegister(c, a, given) ==
    /\ pc[c] = "start"
    /\ servers[a] # "none"
    /\ callback' = IF given THEN [callback EXCEPT ![a] = c] ELSE callback
    /\ pc' = [pc EXCEPT ![c] = "registered"]
    /\ app' = [app EXCEPT ![c] = a]
    /\ UNCHANGED <<servers, runners, closed, ret, fired>>

\* A mutant: closed is counted up rather than swapped.
CloseCASAdds(c) ==
    /\ pc[c] = "registered"
    /\ closed' = [closed EXCEPT ![app[c]] = @ + 1]
    /\ pc' = [pc EXCEPT ![c] = "won"]
    /\ UNCHANGED <<servers, runners, callback, app, ret, fired>>

\* CompareAndSwapInt32(&closed, 0, 1): a loser returns false here.
CloseCAS(c) ==
    /\ pc[c] = "registered"
    /\ IF closed[app[c]] = 0
         THEN /\ closed' = [closed EXCEPT ![app[c]] = 1]
              /\ pc' = [pc EXCEPT ![c] = "won"]
              /\ UNCHANGED ret
         ELSE /\ pc' = [pc EXCEPT ![c] = "done"]
              /\ ret' = [ret EXCEPT ![c] = "false"]
              /\ UNCHANGED closed
    /\ UNCHANGED <<servers, runners, callback, app, fired>>

\* A mutant: the app's own reference is dropped without looking at the result.
CloseDecForgetsZero(c) ==
    /\ pc[c] = "won"
    /\ runners' = [runners EXCEPT ![app[c]] = @ - 1]
    /\ pc' = [pc EXCEPT ![c] = "done"]
    /\ ret' = [ret EXCEPT ![c] = "true"]
    /\ UNCHANGED <<servers, closed, callback, app, fired>>

\* The winner drops the app's own reference and removes the app if it was the last.
CloseDec(c) ==
    /\ pc[c] = "won"
    /\ runners' = [runners EXCEPT ![app[c]] = @ - 1]
    /\ IF runners'[app[c]] = 0
         THEN /\ pc' = [pc EXCEPT ![c] = "removing"]
              /\ UNCHANGED ret
         ELSE /\ pc' = [pc EXCEPT ![c] = "done"]
              /\ ret' = [ret EXCEPT ![c] = "true"]
    /\ UNCHANGED <<servers, closed, callback, app, fired>>

-----------------------------------------------------------------------------
(* Removal, by the thread that dropped the last reference.                 *)

\* Under the registry's mutex: fire "shutdown", clear the app (event router,
\* middlewares, listener) and forget it.  App 0 fails the test id > 0.
RemoveSunnyApp(t) ==
    /\ pc[t] = "removing"
    /\ servers' = IF app[t] > 0 /\ servers[app[t]] = "live"
                    THEN [servers EXCEPT ![app[t]] = "nil"]
                    ELSE servers
    /\ pc' = [pc EXCEPT ![t] = "calling"]
    /\ UNCHANGED <<runners, closed, callback, app, ret, fired>>

\* A mutant: _callback is left in place after it was called.
RunCallbackKept(t) ==
    /\ pc[t] = "calling"
    /\ fired' = IF callback[app[t]] # NoCallback
                  THEN [fired EXCEPT ![callback[app[t]]] = @ + 1]
                  ELSE fired
    /\ pc' = [pc EXCEPT ![t] = "done"]
    /\ ret' = IF t \in Calls THEN [ret EXCEPT ![t] = "true"] ELSE ret
    /\ UNCHANGED <<servers, runners, closed, callback, app>>

\* callback(), under the app's mutex: call the stored function and drop it.
RunCallback(t) ==
    /\ pc[t] = "calling"
    /\ fired' = IF callback[app[t]] # NoCallback
                  THEN [fired EXCEPT ![callback[app[t]]] = @ + 1]
                  ELSE fired
    /\ callback' = [callback EXCEPT ![app[t]] = NoCallback]
    /\ pc' = [pc EXCEPT ![t] = "done"]
    /\ ret' = IF t \in Calls THEN [ret EXCEPT ![t] = "true"] ELSE ret
    /\ UNCHANGED <<servers, runners, closed, app>>

-----------------------------------------------------------------------------
RequestStep(r) ==
    \/ CheckClosed(r)
    \/ FinishRequest(r)
    \/ DecRunners(r)
    \/ DecCheckClosed(r)

CloseStep(c) == CloseCAS(c) \/ CloseDec(c)

RemovalStep(t) == RemoveSunnyApp(t) \/ RunCallback(t)

\* Who arrives, and when, is up to the environment.
Arrive ==
    \E a \in Apps :
        \/ NewSunnyApp(a)
        \/ \E r \in Requests : EnterRequest(r, a)
        \/ \E c \in Calls, given \in BOOLEAN : CloseRegister(c, a, given)

Next ==
    \/ Arrive
    \/ \E r \in Requests : RequestStep(r)
    \/ \E c \in Calls : CloseStep(c)
    \/ \E t \in Threads : RemovalStep(t)

Spec == Init /\ [][Next]_vars

\* A goroutine that can run does run, and a request that is being served ends.
\* Nothing obliges anyone to create an app, to send a request or to call Close.
Fairness ==
    /\ \A r \in Requests : WF_vars(RequestStep(r))
    /\ \A c \in Calls : WF_vars(CloseStep(c))
    /\ \A t \in Threads : WF_vars(RemovalStep(t))

FairSpec == Spec /\ Fairness

-----------------------------------------------------------------------------
(* Properties.                                                             *)

PCs == {"start", "entered", "serving", "leaving", "zero",
        "registered", "won", "removing", "calling", "done"}

TypeOK ==
    /\ servers \in [Apps -> {"none", "live", "nil"}]
    /\ runners \in [Apps -> Int]
    /\ closed \in [Apps -> {0, 1}]
    /\ callback \in [Apps -> Calls \cup {NoCallback}]
    /\ pc \in [Threads -> PCs]
    /\ app \in [Threads -> Nat]
    /\ ret \in [Calls -> {"none", "true", "false"}]
    /\ fired \in [Calls -> Nat]

\* The requests that hold a reference to app a.
Holding(a) ==
    {r \in Requests : app[r] = a /\ pc[r] \in {"entered", "serving", "leaving"}}

\* The Close calls that won app a and have not yet dropped its own reference.
Closing(a) == {c \in Calls : app[c] = a /\ pc[c] = "won"}

\* The app's own reference: held until the winning Close call drops it.
OwnReference(a) ==
    IF servers[a] # "none" /\ (closed[a] = 0 \/ Closing(a) # {}) THEN 1 ELSE 0

\* runners counts the references exactly (sunny.go:310, 287, 455): it is the
\* app's own one plus one for each request between its AddInt32(+1) and its
\* AddInt32(-1), so it is never negative and never reaches 0 early.
RunnersCountsHolders ==
    \A a \in Apps : runners[a] = OwnReference(a) + Cardinality(Holding(a))

\* Some thread has decided that app a is finished, or has removed it.
TornDown(a) ==
    \/ servers[a] = "nil"
    \/ \E t \in Threads : app[t] = a /\ pc[t] \in {"removing", "calling"}

\* From the moment a thread decides to clear an app (sunny.go:288, 456: its
\* event router and middlewares become nil, its listener is closed), no request
\* of that app is being served or can still be admitted.
NoServingAfterTeardown ==
    \A a \in Apps :
        TornDown(a) => /\ closed[a] = 1
                       /\ \A r \in Requests : app[r] = a => pc[r] # "serving"

\* A function given to Close is run at most once (sunny.go:258-265), and only
\* for an app that no request is using any more.
CallbackOnceWhenIdle ==
    \A c \in Calls :
        fired[c] > 0 =>
            /\ fired[c] = 1
            /\ closed[app[c]] = 1
            /\ \A r \in Requests : app[r] = app[c] => pc[r] # "serving"

\* A closed app other than app 0 is eventually removed, whoever drops the last
\* reference (sunny.go:286-291, 454-458).
ClosedIsRemoved ==
    \A a \in Apps \ {0} : closed[a] = 1 ~> servers[a] = "nil"

\* When a Close call wins while a function is stored, its own or another call's,
\* one function is run for the app in the end: the winner's, unless a call that
\* brought a function of its own had it run in its place (sunny.go:448-452: such
\* a call overwrites the winner's).  A call without one, Close(nil), takes
\* nothing away, whenever it comes.
WinnerIsCalledBack ==
    \A c \in Calls :
        (pc[c] = "won" /\ callback[app[c]] # NoCallback) ~>
            \E d \in Calls : app[d] = app[c] /\ fired[d] = 1

-----------------------------------------------------------------------------
(* What SunnyApp implements.                                               *)

LifePhase ==
    [a \in Apps |-> IF servers[a] = "none" THEN "none"
                    ELSE IF servers[a] = "nil" THEN "gone"
                    ELSE IF closed[a] = 0 THEN "open" ELSE "draining"]

LifeServing == {<<r, app[r]>> : r \in {q \in Requests : pc[q] = "serving"}}

Life == INSTANCE AppLife WITH Removable <- Apps \ {0}, phase <- LifePhase, serving <- LifeServing

\* Counter, flag and registry together behave as an app that is open, draining or
\* gone (sunny.go:286-315, 447-463, 516-524): nothing is admitted once Close has
\* won, an app goes only after its last request, and it does go, app 0 excepted.
ImplementsAppLife == Life!FairSpec
=============================================================================
