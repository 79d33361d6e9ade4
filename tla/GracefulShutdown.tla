-------------------------- MODULE GracefulShutdown --------------------------
(***************************************************************************)
(* GracefulShutDown (sunny_graceterm.go, sunny_graceshut.go) composed with *)
(* the apps it closes: a goroutine waits for a signal, copies `servers`,   *)
(* calls Close on each app with a callback that counts down a WaitGroup,   *)
(* waits for the WaitGroup and exits the process.                          *)
(*                                                                         *)
(* The Close calls that the goroutine makes are ShutdownCall[a], one per   *)
(* app; every other member of Calls is a Close call made by the program.   *)
(***************************************************************************)
EXTENDS SunnyApp

CONSTANT ShutdownCall

ASSUME ShutdownCallAssumption ==
    /\ ShutdownCall \in [Apps -> Calls]
    /\ \A a, b \in Apps : ShutdownCall[a] = ShutdownCall[b] => a = b

ShutdownCalls == {ShutdownCall[a] : a \in Apps}
UserCalls == Calls \ ShutdownCalls

VARIABLES
    shut,     \* the goroutine: "off", "armed", "loop", "closing", "waiting"
    snapshot, \* its copy of servers: a sequence of "live" and "nil"
    next,     \* the app it closes next
    wg,       \* the counter of the WaitGroup
    proc      \* the process: "running", "exited" or "crashed"

shutVars == <<shut, snapshot, next, wg, proc>>
allVars == <<vars, shutVars>>

GInit ==
    /\ Init
    /\ shut = "off"
    /\ snapshot = [a \in {} |-> "nil"]
    /\ next = 0
    /\ wg = 0
    /\ proc = "running"

-----------------------------------------------------------------------------
\* The compare-and-swap of graceshut: only the first call starts a goroutine.
GracefulShutDown ==
    /\ shut = "off"
    /\ shut' = "armed"
    /\ UNCHANGED <<vars, snapshot, next, wg, proc>>

\* A mutant: the WaitGroup is sized one short.
TakeSignalShort ==
    /\ shut = "armed"
    /\ shut' = "loop"
    /\ snapshot' = [a \in {b \in Apps : servers[b] # "none"} |-> servers[a]]
    /\ next' = 0
    /\ wg' = Cardinality({b \in Apps : servers[b] = "live"}) - 1
    /\ UNCHANGED <<vars, proc>>

\* The signal arrives; servers is copied under the read lock, nil entries too.
TakeSignal ==
    /\ shut = "armed"
    /\ shut' = "loop"
    /\ snapshot' = [a \in {b \in Apps : servers[b] # "none"} |-> servers[a]]
    /\ next' = 0
    /\ wg' = Cardinality(DOMAIN snapshot')
    /\ UNCHANGED <<vars, proc>>

\* server.Close(func() { w.Done() }) begins.
LoopClose ==
    /\ shut = "loop"
    /\ next \in DOMAIN snapshot
    /\ snapshot[next] = "live"
    /\ CloseRegister(ShutdownCall[next], next, TRUE)
    /\ shut' = "closing"
    /\ UNCHANGED <<snapshot, next, wg, proc>>

\* Close on a nil *SunnyApp locks a mutex at address 0: the process dies.
LoopNilServer ==
    /\ shut = "loop"
    /\ next \in DOMAIN snapshot
    /\ snapshot[next] = "nil"
    /\ proc' = "crashed"
    /\ UNCHANGED <<vars, shut, snapshot, next, wg>>

\* A mutant: Done is called although Close returned true.
LoopReturnAlwaysDone ==
    /\ shut = "closing"
    /\ ret[ShutdownCall[next]] # "none"
    /\ wg' = wg - 1
    /\ proc' = IF wg' < 0 THEN "crashed" ELSE proc
    /\ next' = next + 1
    /\ shut' = "loop"
    /\ UNCHANGED <<vars, snapshot>>

\* Close returned; if false, the goroutine calls Done itself, which panics
\* when the counter becomes negative.
LoopReturn ==
    /\ shut = "closing"
    /\ ret[ShutdownCall[next]] # "none"
    /\ wg' = IF ret[ShutdownCall[next]] = "false" THEN wg - 1 ELSE wg
    /\ proc' = IF wg' < 0 THEN "crashed" ELSE proc
    /\ next' = next + 1
    /\ shut' = "loop"
    /\ UNCHANGED <<vars, snapshot>>

LoopEnd ==
    /\ shut = "loop"
    /\ next \notin DOMAIN snapshot
    /\ shut' = "waiting"
    /\ UNCHANGED <<vars, snapshot, next, wg, proc>>

\* w.Wait() returns when the counter is 0, then os.Exit(0).
WaitAndExit ==
    /\ shut = "waiting"
    /\ wg = 0
    /\ proc' = "exited"
    /\ UNCHANGED <<vars, shut, snapshot, next, wg>>

Goroutine ==
    \/ TakeSignal
    \/ LoopClose
    \/ LoopNilServer
    \/ LoopReturn
    \/ LoopEnd
    \/ WaitAndExit

-----------------------------------------------------------------------------
\* A thread runs a callback of the program, or finds none.
OtherCallback(t) ==
    /\ RunCallback(t)
    /\ callback[app[t]] \notin ShutdownCalls
    /\ UNCHANGED shutVars

\* A thread runs w.Done().
DoneCallback(t) ==
    /\ RunCallback(t)
    /\ callback[app[t]] \in ShutdownCalls
    /\ wg > 0
    /\ wg' = wg - 1
    /\ UNCHANGED <<shut, snapshot, next, proc>>

\* w.Done() on a counter at 0 panics before _callback is dropped; the mutex is
\* released by its defer.  The HTTP server recovers the panic of a request;
\* nobody recovers that of a Close call.
DoneCallbackPanics(t) ==
    /\ pc[t] = "calling"
    /\ callback[app[t]] \in ShutdownCalls
    /\ wg <= 0
    /\ wg' = wg - 1
    /\ pc' = [pc EXCEPT ![t] = "done"]
    /\ fired' = [fired EXCEPT ![callback[app[t]]] = @ + 1]
    /\ proc' = IF t \in Calls THEN "crashed" ELSE proc
    /\ UNCHANGED <<servers, runners, closed, callback, app, ret>>
    /\ UNCHANGED <<shut, snapshot, next>>

GRemovalStep(t) ==
    \/ RemoveSunnyApp(t) /\ UNCHANGED shutVars
    \/ OtherCallback(t)
    \/ DoneCallback(t)
    \/ DoneCallbackPanics(t)

GArrive ==
    \E a \in Apps :
        \/ NewSunnyApp(a)
        \/ \E r \in Requests : EnterRequest(r, a)
        \/ \E c \in UserCalls, given \in BOOLEAN : CloseRegister(c, a, given)

\* Once the process has exited or crashed nothing runs any more.
GNext ==
    /\ proc = "running"
    /\ \/ GArrive /\ UNCHANGED shutVars
       \/ GracefulShutDown
       \/ Goroutine
       \/ \E r \in Requests : RequestStep(r) /\ UNCHANGED shutVars
       \/ \E c \in Calls : CloseStep(c) /\ UNCHANGED shutVars
       \/ \E t \in Threads : GRemovalStep(t)

\* As in SunnyApp; the goroutine also runs when it can, but whether a signal
\* ever comes is up to the environment.
GFairness ==
    /\ WF_allVars(proc = "running" /\ shut # "armed" /\ Goroutine)
    /\ \A r \in Requests :
           WF_allVars(proc = "running" /\ RequestStep(r) /\ UNCHANGED shutVars)
    /\ \A c \in Calls :
           WF_allVars(proc = "running" /\ CloseStep(c) /\ UNCHANGED shutVars)
    /\ \A t \in Threads : WF_allVars(proc = "running" /\ GRemovalStep(t))

GSpec == GInit /\ [][GNext]_allVars
GFairSpec == GSpec /\ GFairness

-----------------------------------------------------------------------------
(* Properties.  With Close calls of the program's own the WaitGroup can be *)
(* counted down twice for one app, or never: the properties say what the   *)
(* goroutine guarantees as long as it is the only one that closes apps.    *)

NoUserClose == \A c \in UserCalls : pc[c] = "start"

\* The process exits only when no request is being served by any app of the
\* snapshot (sunny_graceterm.go:31-37: every w.Done() stands for one idle app).
ExitsOnlyWhenIdle ==
    (proc = "exited" /\ NoUserClose) =>
        \A r \in Requests : app[r] \in DOMAIN snapshot => pc[r] # "serving"

\* The WaitGroup counts exactly the apps of the snapshot whose callback is
\* still to come, so Done never drives it below 0 and the goroutine never
\* meets a nil entry.
WaitGroupCountsApps ==
    NoUserClose =>
        /\ proc # "crashed"
        /\ shut \in {"loop", "closing", "waiting"} =>
               wg = Cardinality({a \in DOMAIN snapshot : fired[ShutdownCall[a]] = 0})

\* After the signal the process does exit (it does not wait forever for an app
\* that was closed), unless the program closes apps itself.
SignalLeadsToExit ==
    shut = "loop" ~> (proc = "exited" \/ ~NoUserClose)
=============================================================================
