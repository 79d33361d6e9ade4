----------------------------- MODULE TemplateCache -----------------------------
(***************************************************************************)
(* The parsed templates GetHTMLTmpl and GetTextTmpl keep for one path      *)
(* (mvc/view.go): an entry has a timer that every use resets and that runs *)
(* delHTMLCache on a goroutine of its own.  Requests look the template up, *)
(* parse the file without a lock when there is none, and store what they   *)
(* parsed; entries are named after the request that stored them.  How long *)
(* a timer takes is left open.  The two caches are the same code.          *)
(***************************************************************************)
EXTENDS Integers

CONSTANT Requests

VARIABLES
    cached,     \* the entry in the map, or NoEntry
    timer,      \* of each entry: none, armed, fired or stopped
    deleting,   \* of each entry: calls of delHTMLCache its timer has started
    pc          \* of each request

vars == <<cached, timer, deleting, pc>>

NoEntry == "no entry"

Init ==
    /\ cached = NoEntry
    /\ timer = [e \in Requests |-> "none"]
    /\ deleting = [e \in Requests |-> 0]
    /\ pc = [r \in Requests |-> "look"]

Go(r, label) == pc' = [pc EXCEPT ![r] = label]

\* Reset arms a timer again, one that has fired or that was stopped too.
Look(r) ==
    /\ pc[r] = "look"
    /\ IF cached # NoEntry THEN timer' = [timer EXCEPT ![cached] = "armed"] /\ Go(r, "done")
       ELSE Go(r, "parse") /\ UNCHANGED timer
    /\ UNCHANGED <<cached, deleting>>

\* A file that does not parse panics.
Parse(r) ==
    /\ pc[r] = "parse"
    /\ Go(r, "store") \/ Go(r, "done")
    /\ UNCHANGED <<cached, timer, deleting>>

\* A mutant: the entry that is replaced keeps its timer.
StoreBeside(r) ==
    /\ pc[r] = "store"
    /\ timer' = [timer EXCEPT ![r] = "armed"]
    /\ cached' = r /\ Go(r, "done")
    /\ UNCHANGED deleting

Store(r) ==
    /\ pc[r] = "store"
    /\ timer' = [e \in Requests |-> IF e = r THEN "armed" ELSE IF e = cached THEN "stopped" ELSE timer[e]]
    /\ cached' = r /\ Go(r, "done")
    /\ UNCHANGED deleting

Fire(e) ==
    /\ timer[e] = "armed"
    /\ timer' = [timer EXCEPT ![e] = "fired"]
    /\ deleting' = [deleting EXCEPT ![e] = @ + 1]
    /\ UNCHANGED <<cached, pc>>

\* A mutant: the timer is not stopped.
DeleteUnstopped(e) ==
    /\ deleting[e] > 0
    /\ deleting' = [deleting EXCEPT ![e] = @ - 1]
    /\ cached' = NoEntry
    /\ UNCHANGED <<timer, pc>>

\* Whichever entry has the path by now is deleted.
Delete(e) ==
    /\ deleting[e] > 0
    /\ deleting' = [deleting EXCEPT ![e] = @ - 1]
    /\ timer' = [c \in Requests |-> IF c = cached THEN "stopped" ELSE timer[c]]
    /\ cached' = NoEntry
    /\ UNCHANGED pc

GetTmpl(r) == Look(r) \/ Parse(r) \/ Store(r)

Next == \E r \in Requests : GetTmpl(r) \/ Fire(r) \/ Delete(r)

Spec == Init /\ [][Next]_vars

-----------------------------------------------------------------------------
(* The entry in the map is always on its way out: its timer runs, or a     *)
(* deletion that will take it has started.  And no timer of an entry that  *)
(* was replaced or deleted is left running to evict a later one, although  *)
(* a request may reset a timer that has fired and store over an entry that *)
(* is about to be deleted (view.go:152-183).                               *)
TemplatesExpire ==
    /\ cached # NoEntry => timer[cached] = "armed" \/ \E e \in Requests : deleting[e] > 0
    /\ \A e \in Requests : timer[e] = "armed" => e = cached
=============================================================================
