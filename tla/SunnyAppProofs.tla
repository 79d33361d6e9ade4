--------------------------- MODULE SunnyAppProofs ---------------------------
(***************************************************************************)
(* For any number of apps, requests and Close calls: the reference count   *)
(* is exact, an app is torn down only when nothing is served on it any     *)
(* more, and each callback runs at most once.                              *)
(*                                                                         *)
(* RunnersCountsHolders alone is not inductive: that the thread which sees *)
(* 0 may tear the app down needs that the winning Close call is unique     *)
(* (WinnerInv), that 0 is only seen once closed is 1, and that from then on*)
(* no request gets past the check of closed (DrainInv).                    *)
(***************************************************************************)
EXTENDS GracefulShutdown, FiniteSetTheorems, TLAPS

\* A thread that has begun works on an app that was created.
AppInv ==
    \A t \in Threads :
        pc[t] # "start" => app[t] \in Apps /\ servers[app[t]] # "none"

\* An app that was not created is not closed and nobody refers to it.
UnbornInv ==
    \A a \in Apps : servers[a] = "none" =>
        closed[a] = 0 /\ runners[a] = 0

\* The winner of an app is unique, and its app is closed.
WinnerInv ==
    /\ \A c, d \in Calls :
           (pc[c] = "won" /\ pc[d] = "won" /\ app[c] = app[d]) => c = d
    /\ \A c \in Calls : pc[c] = "won" => closed[app[c]] = 1

\* Someone has seen the count of app a at 0 after Close, or acted on it.
Drained(a) ==
    \/ servers[a] = "nil"
    \/ \E t \in Threads : app[t] = a /\ pc[t] \in {"zero", "removing", "calling"}
    \/ \E c \in Calls : app[c] = a /\ fired[c] > 0

DrainInv ==
    \A a \in Apps :
        Drained(a) => /\ closed[a] = 1
                      /\ \A r \in Requests : app[r] = a => pc[r] # "serving"

\* A stored callback belongs to a call on that app and was not run yet.
CallbackInv ==
    /\ \A a \in Apps : callback[a] # NoCallback =>
           /\ pc[callback[a]] # "start"
           /\ app[callback[a]] = a
           /\ fired[callback[a]] = 0
    /\ \A c \in Calls : /\ fired[c] \in {0, 1}
                        /\ pc[c] = "start" => fired[c] = 0

\* Where each kind of thread can be.
PhaseInv ==
    /\ \A r \in Requests : pc[r] \notin {"registered", "won"}
    /\ \A c \in Calls : pc[c] \notin {"entered", "serving", "leaving", "zero"}

IInv ==
    /\ TypeOK
    /\ AppInv
    /\ UnbornInv
    /\ WinnerInv
    /\ PhaseInv
    /\ RunnersCountsHolders
    /\ DrainInv
    /\ CallbackInv

-----------------------------------------------------------------------------
(* Counting requests.                                                      *)

\* A set of requests is finite, so its cardinality is a natural number, 0 only
\* for the empty set.
LEMMA RequestSets ==
    ASSUME NEW S, S \subseteq Requests
    PROVE  /\ IsFiniteSet(S)
           /\ Cardinality(S) \in Nat
           /\ Cardinality(S) = 0 <=> S = {}
  BY FS_Subset, FS_CardinalityType, FS_EmptySet, ThreadsAssumption

\* A request that takes a reference raises the count of holders by one.
LEMMA AddRequest ==
    ASSUME NEW S, S \subseteq Requests, NEW r \in Requests, r \notin S
    PROVE  Cardinality(S \cup {r}) = Cardinality(S) + 1
  BY RequestSets, FS_AddElement

\* A request that drops its reference lowers the count of holders by one.
LEMMA RemoveRequest ==
    ASSUME NEW S, S \subseteq Requests, NEW r \in S
    PROVE  Cardinality(S \ {r}) = Cardinality(S) - 1
  BY RequestSets, FS_RemoveElement

-----------------------------------------------------------------------------
(* Type correctness.                                                       *)

\* Every step of the lifecycle keeps the types.
LEMMA TypeStep == TypeOK /\ [Next]_vars => TypeOK'
<1> SUFFICES ASSUME TypeOK, [Next]_vars PROVE TypeOK'
  OBVIOUS
<1> USE DEF TypeOK, PCs, Threads
<1>1. ASSUME NEW a \in Apps, NewSunnyApp(a) PROVE TypeOK'
  BY <1>1 DEF NewSunnyApp
<1>2. ASSUME NEW a \in Apps, NEW r \in Requests, EnterRequest(r, a) PROVE TypeOK'
  BY <1>2, MaxAppsAssumption DEF EnterRequest, Apps
<1>3. ASSUME NEW a \in Apps, NEW c \in Calls, NEW given \in BOOLEAN,
             CloseRegister(c, a, given)
      PROVE  TypeOK'
  BY <1>3, MaxAppsAssumption DEF CloseRegister, Apps
<1>4. ASSUME NEW r \in Requests, RequestStep(r) PROVE TypeOK'
  BY <1>4 DEF RequestStep, CheckClosed, FinishRequest, DecRunners, DecCheckClosed
<1>5. ASSUME NEW c \in Calls, CloseStep(c) PROVE TypeOK'
  BY <1>5 DEF CloseStep, CloseCAS, CloseDec
<1>6. ASSUME NEW t \in Threads, RemoveSunnyApp(t) PROVE TypeOK'
  BY <1>6 DEF RemoveSunnyApp
<1>7. ASSUME NEW t \in Threads, RunCallback(t) PROVE TypeOK'
  <2>1. fired' \in [Calls -> Nat]
    <3> DEFINE c == callback[app[t]]
    <3>1. CASE c \in Calls
      <4>1. fired[c] + 1 \in Nat
        BY <3>1
      <4> QED
        BY <1>7, <3>1, <4>1 DEF RunCallback
    <3>2. CASE c \notin Calls
      BY <1>7, <3>2 DEF RunCallback
    <3> QED
      BY <3>1, <3>2
  <2>2. callback' \in [Apps -> Calls \cup {NoCallback}]
    BY <1>7 DEF RunCallback
  <2> QED
    BY <1>7, <2>1, <2>2 DEF RunCallback
<1>8. CASE UNCHANGED vars
  BY <1>8 DEF vars
<1> QED
  BY <1>1, <1>2, <1>3, <1>4, <1>5, <1>6, <1>7, <1>8 DEF Next, Arrive, RemovalStep

\* The variables of the lifecycle always have their types.
THEOREM TypeCorrect == Spec => []TypeOK
<1>1. Init => TypeOK
  BY DEF Init, TypeOK, PCs
<1> QED
  BY <1>1, TypeStep, PTL DEF Spec

-----------------------------------------------------------------------------
(* The inductive invariant holds initially and every action keeps it.      *)

\* The inductive invariant holds before anything happens.
LEMMA InitIInv == Init => IInv
<1> SUFFICES ASSUME Init PROVE IInv
  OBVIOUS
<1>1. TypeOK
  BY DEF Init, TypeOK, PCs
<1>2. AppInv /\ UnbornInv /\ WinnerInv /\ PhaseInv
  BY DEF Init, AppInv, UnbornInv, WinnerInv, PhaseInv, Threads
<1>3. RunnersCountsHolders
  <2> SUFFICES ASSUME NEW a \in Apps
               PROVE  runners[a] = OwnReference(a) + Cardinality(Holding(a))
    BY DEF RunnersCountsHolders
  <2>1. Holding(a) = {}
    BY DEF Init, Holding, Threads
  <2> QED
    BY <2>1, FS_EmptySet DEF Init, OwnReference
<1>4. DrainInv /\ CallbackInv
  BY DEF Init, DrainInv, Drained, CallbackInv, Threads
<1> QED
  BY <1>1, <1>2, <1>3, <1>4 DEF IInv

\* Creating an app.
LEMMA NewSunnyAppIInv ==
    ASSUME IInv, NEW a \in Apps, NewSunnyApp(a), TypeOK'
    PROVE  IInv'
<1> USE DEF IInv, TypeOK
<1>1. AppInv' /\ UnbornInv' /\ WinnerInv' /\ PhaseInv'
  BY DEF NewSunnyApp, AppInv, UnbornInv, WinnerInv, PhaseInv
<1>2. RunnersCountsHolders'
  <2> SUFFICES ASSUME NEW b \in Apps
               PROVE  runners'[b] = OwnReference(b)' + Cardinality(Holding(b)')
    BY DEF RunnersCountsHolders
  <2>1. Holding(b)' = Holding(b) /\ Closing(b)' = Closing(b)
    BY DEF NewSunnyApp, Holding, Closing
  <2>2. CASE b # a
    BY <2>1, <2>2 DEF NewSunnyApp, RunnersCountsHolders, OwnReference
  <2>3. CASE b = a
    <3>1. Holding(a) = {}
      BY DEF NewSunnyApp, Holding, AppInv, Threads
    <3>2. closed[a] = 0
      BY DEF NewSunnyApp, UnbornInv
    <3> QED
      BY <2>1, <2>3, <3>1, <3>2, FS_EmptySet DEF NewSunnyApp, OwnReference
  <2> QED
    BY <2>2, <2>3
<1>3. DrainInv'
  BY DEF NewSunnyApp, DrainInv, Drained
<1>4. CallbackInv'
  BY DEF NewSunnyApp, CallbackInv
<1> QED
  BY <1>1, <1>2, <1>3, <1>4

\* A request takes its reference.
LEMMA EnterRequestIInv ==
    ASSUME IInv, NEW a \in Apps, NEW r \in Requests, EnterRequest(r, a), TypeOK'
    PROVE  IInv'
<1> USE ThreadsAssumption DEF IInv, TypeOK, Threads
<1>1. AppInv' /\ UnbornInv' /\ WinnerInv' /\ PhaseInv'
  BY DEF EnterRequest, AppInv, UnbornInv, WinnerInv, PhaseInv
<1>2. RunnersCountsHolders'
  <2> SUFFICES ASSUME NEW b \in Apps
               PROVE  runners'[b] = OwnReference(b)' + Cardinality(Holding(b)')
    BY DEF RunnersCountsHolders
  <2>1. OwnReference(b)' = OwnReference(b)
    BY DEF EnterRequest, OwnReference, Closing
  <2>2. CASE b # a
    <3>1. Holding(b)' = Holding(b)
      BY <2>2 DEF EnterRequest, Holding
    <3> QED
      BY <2>1, <2>2, <3>1 DEF EnterRequest, RunnersCountsHolders
  <2>3. CASE b = a
    <3>1. Holding(b)' = Holding(b) \cup {r} /\ r \notin Holding(b)
      BY <2>3 DEF EnterRequest, Holding
    <3>2. Holding(b) \subseteq Requests
      BY DEF Holding
    <3>3. Cardinality(Holding(b)') = Cardinality(Holding(b)) + 1
      BY <3>1, <3>2, AddRequest
    <3>4. runners'[b] = runners[b] + 1
      BY <2>3 DEF EnterRequest
    <3>5. Cardinality(Holding(b)) \in Nat /\ OwnReference(b) \in Nat
      BY <3>2, RequestSets DEF OwnReference
    <3>6. runners[b] = OwnReference(b) + Cardinality(Holding(b))
      BY DEF RunnersCountsHolders
    <3> QED
      BY <2>1, <3>3, <3>4, <3>5, <3>6
  <2> QED
    BY <2>2, <2>3
<1>3. DrainInv'
  BY DEF EnterRequest, DrainInv, Drained
<1>4. CallbackInv'
  BY DEF EnterRequest, CallbackInv
<1> QED
  BY <1>1, <1>2, <1>3, <1>4

\* A Close call stores its callback.
LEMMA CloseRegisterIInv ==
    ASSUME IInv, NEW a \in Apps, NEW c \in Calls, NEW given \in BOOLEAN,
           CloseRegister(c, a, given), TypeOK'
    PROVE  IInv'
<1> USE ThreadsAssumption DEF IInv, TypeOK, Threads
<1>1. AppInv' /\ UnbornInv' /\ WinnerInv' /\ PhaseInv'
  BY DEF CloseRegister, AppInv, UnbornInv, WinnerInv, PhaseInv
<1>2. RunnersCountsHolders'
  <2>1. ASSUME NEW b \in Apps
        PROVE  Holding(b)' = Holding(b) /\ OwnReference(b)' = OwnReference(b)
    <3>1. Closing(b)' = Closing(b)
      BY DEF CloseRegister, Closing
    <3> QED
      BY <3>1 DEF CloseRegister, Holding, OwnReference
  <2> QED
    BY <2>1 DEF CloseRegister, RunnersCountsHolders
<1>3. DrainInv'
  BY DEF CloseRegister, DrainInv, Drained, CallbackInv
<1>4. CallbackInv'
  BY DEF CloseRegister, CallbackInv
<1> QED
  BY <1>1, <1>2, <1>3, <1>4

-----------------------------------------------------------------------------
\* A request is admitted or turned away, or has been served.
LEMMA AdmitIInv ==
    ASSUME IInv, NEW r \in Requests, CheckClosed(r) \/ FinishRequest(r), TypeOK'
    PROVE  IInv'
<1> USE ThreadsAssumption DEF IInv, TypeOK, Threads, CheckClosed, FinishRequest
<1>1. AppInv' /\ UnbornInv' /\ WinnerInv' /\ PhaseInv'
  BY DEF AppInv, UnbornInv, WinnerInv, PhaseInv
<1>2. RunnersCountsHolders'
  <2>1. ASSUME NEW b \in Apps
        PROVE  Holding(b)' = Holding(b) /\ OwnReference(b)' = OwnReference(b)
    <3>1. Closing(b)' = Closing(b)
      BY DEF Closing
    <3>2. Holding(b)' = Holding(b)
      BY DEF Holding
    <3> QED
      BY <3>1, <3>2 DEF OwnReference
  <2> QED
    BY <2>1 DEF RunnersCountsHolders
<1>3. DrainInv'
  BY DEF DrainInv, Drained
<1>4. CallbackInv'
  BY DEF CallbackInv
<1> QED
  BY <1>1, <1>2, <1>3, <1>4

\* A request drops its reference: if the count falls to 0, every reference is
\* gone, the app's own one included, so the app is closed and idle.
LEMMA DecRunnersIInv ==
    ASSUME IInv, NEW r \in Requests, DecRunners(r), TypeOK'
    PROVE  IInv'
<1> USE ThreadsAssumption DEF IInv, TypeOK, Threads
<1> PICK a \in Apps : a = app[r] /\ servers[a] # "none"
  BY DEF DecRunners, AppInv
<1>0. a \in Apps /\ a = app[r] /\ servers[a] # "none"
  OBVIOUS
<1>1. AppInv' /\ UnbornInv' /\ WinnerInv' /\ PhaseInv'
  BY <1>0 DEF DecRunners, AppInv, UnbornInv, WinnerInv, PhaseInv
<1>2. ASSUME NEW b \in Apps
      PROVE  /\ OwnReference(b)' = OwnReference(b)
             /\ b # a => Holding(b)' = Holding(b)
  BY DEF DecRunners, OwnReference, Closing, Holding
<1>3. Holding(a)' = Holding(a) \ {r} /\ r \in Holding(a) /\ Holding(a) \subseteq Requests
  BY DEF DecRunners, Holding
<1>4. /\ Cardinality(Holding(a)') = Cardinality(Holding(a)) - 1
      /\ Cardinality(Holding(a)) \in Nat
      /\ Cardinality(Holding(a)') \in Nat
      /\ Cardinality(Holding(a)') = 0 <=> Holding(a)' = {}
  BY <1>3, RemoveRequest, RequestSets
<1>5. runners'[a] = runners[a] - 1 /\ OwnReference(a) \in {0, 1}
  BY <1>0 DEF DecRunners, OwnReference
<1>6. runners[a] = OwnReference(a) + Cardinality(Holding(a))
  BY <1>0 DEF RunnersCountsHolders
<1>7. runners'[a] = OwnReference(a)' + Cardinality(Holding(a)')
  BY <1>0, <1>2, <1>4, <1>5, <1>6
<1>8. RunnersCountsHolders'
  <2> SUFFICES ASSUME NEW b \in Apps, b # a
               PROVE  runners'[b] = OwnReference(b)' + Cardinality(Holding(b)')
    BY <1>7 DEF RunnersCountsHolders, DecRunners
  <2> QED
    BY <1>2 DEF DecRunners, RunnersCountsHolders
<1>9. DrainInv'
  <2>1. CASE runners'[a] # 0
    BY <2>1 DEF DecRunners, DrainInv, Drained
  <2>2. CASE runners'[a] = 0
    <3>1. Holding(a)' = {} /\ OwnReference(a) = 0
      BY <1>0, <1>2, <1>4, <1>5, <1>7, <2>2
    <3>2. closed'[a] = 1
      BY <1>0, <3>1 DEF OwnReference, DecRunners
    <3>3. \A q \in Requests : app'[q] = a => pc'[q] # "serving"
      BY <3>1 DEF Holding
    <3>4. ASSUME NEW b \in Apps, b # a
          PROVE  Drained(b)' => Drained(b)
      BY <3>4 DEF DecRunners, Drained
    <3>5. ASSUME NEW b \in Apps, b # a, Drained(b)'
          PROVE  closed'[b] = 1 /\ \A q \in Requests : app'[q] = b => pc'[q] # "serving"
      BY <3>4, <3>5 DEF DecRunners, DrainInv
    <3> QED
      BY <3>2, <3>3, <3>5 DEF DrainInv
  <2> QED
    BY <2>1, <2>2
<1>10. CallbackInv'
  BY DEF DecRunners, CallbackInv
<1> QED
  BY <1>1, <1>8, <1>9, <1>10

\* The thread that saw 0 loads closed.
LEMMA DecCheckClosedIInv ==
    ASSUME IInv, NEW r \in Requests, DecCheckClosed(r), TypeOK'
    PROVE  IInv'
<1> USE ThreadsAssumption DEF IInv, TypeOK, Threads, DecCheckClosed
<1>1. AppInv' /\ UnbornInv' /\ WinnerInv' /\ PhaseInv'
  BY DEF AppInv, UnbornInv, WinnerInv, PhaseInv
<1>2. RunnersCountsHolders'
  <2>1. ASSUME NEW b \in Apps
        PROVE  Holding(b)' = Holding(b) /\ OwnReference(b)' = OwnReference(b)
    BY DEF Holding, OwnReference, Closing
  <2> QED
    BY <2>1 DEF RunnersCountsHolders
<1>3. DrainInv'
  BY DEF DrainInv, Drained
<1>4. CallbackInv'
  BY DEF CallbackInv
<1> QED
  BY <1>1, <1>2, <1>3, <1>4

-----------------------------------------------------------------------------
\* One Close call wins, the others return.
LEMMA CloseCASIInv ==
    ASSUME IInv, NEW c \in Calls, CloseCAS(c), TypeOK'
    PROVE  IInv'
<1> USE ThreadsAssumption DEF IInv, TypeOK, Threads
<1> PICK a \in Apps : a = app[c] /\ servers[a] # "none"
  BY DEF CloseCAS, AppInv
<1>0. a \in Apps /\ a = app[c] /\ servers[a] # "none"
  OBVIOUS
<1>1. AppInv' /\ UnbornInv' /\ PhaseInv'
  BY <1>0 DEF CloseCAS, AppInv, UnbornInv, PhaseInv
<1>2. WinnerInv'
  <2>1. CASE closed[a] = 1
    BY <1>0, <2>1 DEF CloseCAS, WinnerInv
  <2>2. CASE closed[a] = 0
    <3>1. \A d \in Calls : pc[d] = "won" => app[d] # a
      BY <2>2 DEF WinnerInv
    <3>2. closed'[a] = 1 /\ pc' = [pc EXCEPT ![c] = "won"] /\ app' = app
      BY <1>0, <2>2 DEF CloseCAS
    <3>3. \A d \in Calls : pc'[d] = "won" => d = c \/ app'[d] # a
      BY <3>1, <3>2
    <3>4. \A b \in Apps : b # a => closed'[b] = closed[b]
      BY <1>0, <2>2 DEF CloseCAS
    <3>5. \A d \in Calls : pc'[d] = "won" => closed'[app'[d]] = 1
      BY <1>0, <3>2, <3>4 DEF WinnerInv, AppInv
    <3> QED
      BY <1>0, <3>2, <3>3, <3>5 DEF WinnerInv
  <2> QED
    BY <2>1, <2>2
<1>3. RunnersCountsHolders'
  <2>1. ASSUME NEW b \in Apps
        PROVE  Holding(b)' = Holding(b) /\ OwnReference(b)' = OwnReference(b)
    <3>1. Holding(b)' = Holding(b)
      BY DEF CloseCAS, Holding
    <3>2. CASE closed[a] = 1 \/ b # a
      <4>1. Closing(b)' = Closing(b)
        BY <1>0, <3>2 DEF CloseCAS, Closing
      <4>2. closed'[b] = closed[b] /\ servers'[b] = servers[b]
        BY <1>0, <3>2 DEF CloseCAS
      <4> QED
        BY <3>1, <4>1, <4>2 DEF OwnReference
    <3>3. CASE closed[a] = 0 /\ b = a
      <4>1. c \in Closing(b)'
        BY <3>3 DEF CloseCAS, Closing
      <4> QED
        BY <1>0, <3>1, <3>3, <4>1 DEF CloseCAS, OwnReference
    <3> QED
      BY <1>0, <3>2, <3>3
  <2> QED
    BY <2>1 DEF CloseCAS, RunnersCountsHolders
<1>4. DrainInv'
  BY <1>0 DEF CloseCAS, DrainInv, Drained
<1>5. CallbackInv'
  BY DEF CloseCAS, CallbackInv
<1> QED
  BY <1>1, <1>2, <1>3, <1>4, <1>5

\* The winner drops the app's own reference.
LEMMA CloseDecIInv ==
    ASSUME IInv, NEW c \in Calls, CloseDec(c), TypeOK'
    PROVE  IInv'
<1> USE ThreadsAssumption DEF IInv, TypeOK, Threads
<1> PICK a \in Apps : a = app[c] /\ servers[a] # "none" /\ closed[a] = 1
  BY DEF CloseDec, AppInv, WinnerInv
<1>0. a \in Apps /\ a = app[c] /\ servers[a] # "none" /\ closed[a] = 1
  OBVIOUS
<1>1. AppInv' /\ UnbornInv' /\ WinnerInv' /\ PhaseInv'
  BY <1>0 DEF CloseDec, AppInv, UnbornInv, WinnerInv, PhaseInv
<1>2. ASSUME NEW b \in Apps PROVE Holding(b)' = Holding(b)
  BY DEF CloseDec, Holding
<1>3. ASSUME NEW b \in Apps, b # a PROVE OwnReference(b)' = OwnReference(b)
  <2>1. Closing(b)' = Closing(b)
    BY <1>3 DEF CloseDec, Closing
  <2> QED
    BY <1>3, <2>1 DEF CloseDec, OwnReference
<1>4. OwnReference(a) = 1 /\ OwnReference(a)' = 0
  <2>1. c \in Closing(a) /\ Closing(a)' = {}
    BY DEF CloseDec, Closing, WinnerInv
  <2> QED
    BY <1>0, <2>1 DEF CloseDec, OwnReference
<1>5. /\ Holding(a) \subseteq Requests
      /\ Cardinality(Holding(a)) \in Nat
      /\ Cardinality(Holding(a)) = 0 <=> Holding(a) = {}
  BY RequestSets DEF Holding
<1>6. runners'[a] = runners[a] - 1 /\ runners[a] = 1 + Cardinality(Holding(a))
  BY <1>0, <1>4 DEF CloseDec, RunnersCountsHolders
<1>7. RunnersCountsHolders'
  <2> SUFFICES ASSUME NEW b \in Apps
               PROVE  runners'[b] = OwnReference(b)' + Cardinality(Holding(b)')
    BY DEF RunnersCountsHolders
  <2>1. CASE b = a
    BY <1>2, <1>4, <1>5, <1>6, <2>1
  <2>2. CASE b # a
    BY <1>2, <1>3, <2>2 DEF CloseDec, RunnersCountsHolders
  <2> QED
    BY <2>1, <2>2
<1>8. DrainInv'
  <2>1. CASE runners'[a] # 0
    BY <2>1 DEF CloseDec, DrainInv, Drained
  <2>2. CASE runners'[a] = 0
    <3>1. Holding(a) = {}
      BY <1>5, <1>6, <2>2
    <3>2. \A q \in Requests : app'[q] = a => pc'[q] # "serving"
      BY <3>1 DEF Holding, CloseDec
    <3>3. ASSUME NEW b \in Apps, b # a, Drained(b)'
          PROVE  closed'[b] = 1 /\ \A q \in Requests : app'[q] = b => pc'[q] # "serving"
      <4>1. Drained(b)
        BY <3>3 DEF CloseDec, Drained
      <4> QED
        BY <4>1 DEF CloseDec, DrainInv
    <3>4. closed'[a] = 1
      BY <1>0 DEF CloseDec
    <3> QED
      BY <3>2, <3>3, <3>4 DEF DrainInv
  <2> QED
    BY <2>1, <2>2
<1>9. CallbackInv'
  BY DEF CloseDec, CallbackInv
<1> QED
  BY <1>1, <1>7, <1>8, <1>9

-----------------------------------------------------------------------------
\* The registry forgets the app.
LEMMA RemoveSunnyAppIInv ==
    ASSUME IInv, NEW t \in Threads, RemoveSunnyApp(t), TypeOK'
    PROVE  IInv'
<1> USE ThreadsAssumption DEF IInv, TypeOK, Threads
<1>0. app[t] \in Apps /\ servers[app[t]] # "none"
  BY DEF RemoveSunnyApp, AppInv
<1>1. AppInv' /\ UnbornInv' /\ WinnerInv' /\ PhaseInv'
  BY <1>0 DEF RemoveSunnyApp, AppInv, UnbornInv, WinnerInv, PhaseInv
<1>2. RunnersCountsHolders'
  <2>1. ASSUME NEW b \in Apps
        PROVE  Holding(b)' = Holding(b) /\ OwnReference(b)' = OwnReference(b)
    <3>1. Holding(b)' = Holding(b) /\ Closing(b)' = Closing(b)
      BY DEF RemoveSunnyApp, Holding, Closing
    <3>2. servers'[b] # "none" <=> servers[b] # "none"
      BY <1>0 DEF RemoveSunnyApp
    <3> QED
      BY <3>1, <3>2 DEF RemoveSunnyApp, OwnReference
  <2> QED
    BY <2>1 DEF RemoveSunnyApp, RunnersCountsHolders
<1>3. DrainInv'
  <2>1. ASSUME NEW b \in Apps, Drained(b)' PROVE Drained(b)
    BY <1>0, <2>1 DEF RemoveSunnyApp, Drained
  <2>2. \A q \in Requests : pc'[q] = "serving" => pc[q] = "serving"
    BY DEF RemoveSunnyApp
  <2> QED
    BY <2>1, <2>2 DEF RemoveSunnyApp, DrainInv
<1>4. CallbackInv'
  BY DEF RemoveSunnyApp, CallbackInv
<1> QED
  BY <1>1, <1>2, <1>3, <1>4

\* The stored callback runs and is dropped.
LEMMA RunCallbackIInv ==
    ASSUME IInv, NEW t \in Threads, RunCallback(t), TypeOK'
    PROVE  IInv'
<1> USE ThreadsAssumption DEF IInv, TypeOK, Threads
<1> DEFINE a == app[t]
<1>0. a \in Apps /\ servers[a] # "none" /\ Drained(a)
  BY DEF RunCallback, AppInv, Drained
<1>1. AppInv' /\ UnbornInv' /\ WinnerInv' /\ PhaseInv'
  BY <1>0 DEF RunCallback, AppInv, UnbornInv, WinnerInv, PhaseInv
<1>2. RunnersCountsHolders'
  <2>1. ASSUME NEW b \in Apps
        PROVE  Holding(b)' = Holding(b) /\ OwnReference(b)' = OwnReference(b)
    <3>1. Holding(b)' = Holding(b) /\ Closing(b)' = Closing(b)
      BY DEF RunCallback, Holding, Closing
    <3> QED
      BY <3>1 DEF RunCallback, OwnReference
  <2> QED
    BY <2>1 DEF RunCallback, RunnersCountsHolders
<1>3. CallbackInv'
  <2>1. ASSUME NEW b \in Apps, callback'[b] # NoCallback
        PROVE  /\ pc'[callback'[b]] # "start"
               /\ app'[callback'[b]] = b
               /\ fired'[callback'[b]] = 0
    <3>1. b # a /\ callback'[b] = callback[b] /\ callback[b] \in Calls
      BY <1>0, <2>1 DEF RunCallback
    <3>2. pc[callback[b]] # "start" /\ app[callback[b]] = b /\ fired[callback[b]] = 0
      BY <2>1, <3>1 DEF CallbackInv
    <3>3. callback[a] # NoCallback => app[callback[a]] = a
      BY <1>0 DEF CallbackInv
    <3> QED
      BY <3>1, <3>2, <3>3 DEF RunCallback
  <2>2. ASSUME NEW c \in Calls
        PROVE  fired'[c] \in {0, 1} /\ (pc'[c] = "start" => fired'[c] = 0)
    <3>1. callback[a] # NoCallback => fired[callback[a]] = 0 /\ pc[callback[a]] # "start"
      BY <1>0 DEF CallbackInv
    <3>2. fired[c] \in {0, 1} /\ (pc[c] = "start" => fired[c] = 0)
      BY DEF CallbackInv
    <3> QED
      BY <3>1, <3>2 DEF RunCallback
  <2> QED
    BY <2>1, <2>2 DEF CallbackInv
<1>4. DrainInv'
  <2>1. ASSUME NEW b \in Apps, Drained(b)' PROVE Drained(b)
    <3>1. CASE b = a
      BY <1>0, <3>1
    <3>2. CASE b # a
      <4>1. callback[a] # NoCallback => app[callback[a]] = a
        BY <1>0 DEF CallbackInv
      <4>2. ASSUME NEW c \in Calls, app[c] = b PROVE fired'[c] = fired[c]
        BY <3>2, <4>1, <4>2 DEF RunCallback
      <4> QED
        BY <2>1, <4>2 DEF RunCallback, Drained
    <3> QED
      BY <3>1, <3>2
  <2>2. \A q \in Requests : pc'[q] = "serving" => pc[q] = "serving"
    BY DEF RunCallback
  <2> QED
    BY <2>1, <2>2 DEF RunCallback, DrainInv
<1> QED
  BY <1>1, <1>2, <1>3, <1>4

-----------------------------------------------------------------------------
(* The theorems.                                                           *)

\* Every step keeps the inductive invariant.
LEMMA IInvStep == IInv /\ [Next]_vars => IInv'
<1> SUFFICES ASSUME IInv, [Next]_vars PROVE IInv'
  OBVIOUS
<1>0. TypeOK'
  BY TypeStep DEF IInv
<1>1. ASSUME NEW a \in Apps, NewSunnyApp(a) PROVE IInv'
  BY <1>0, <1>1, NewSunnyAppIInv
<1>2. ASSUME NEW a \in Apps, NEW r \in Requests, EnterRequest(r, a) PROVE IInv'
  BY <1>0, <1>2, EnterRequestIInv
<1>3. ASSUME NEW a \in Apps, NEW c \in Calls, NEW given \in BOOLEAN,
             CloseRegister(c, a, given)
      PROVE  IInv'
  BY <1>0, <1>3, CloseRegisterIInv
<1>4. ASSUME NEW r \in Requests, RequestStep(r) PROVE IInv'
  BY <1>0, <1>4, AdmitIInv, DecRunnersIInv, DecCheckClosedIInv DEF RequestStep
<1>5. ASSUME NEW c \in Calls, CloseStep(c) PROVE IInv'
  BY <1>0, <1>5, CloseCASIInv, CloseDecIInv DEF CloseStep
<1>6. ASSUME NEW t \in Threads, RemovalStep(t) PROVE IInv'
  BY <1>0, <1>6, RemoveSunnyAppIInv, RunCallbackIInv DEF RemovalStep
<1>7. CASE UNCHANGED vars
  BY <1>7 DEF vars, IInv, TypeOK, AppInv, UnbornInv, WinnerInv, PhaseInv,
              RunnersCountsHolders, OwnReference, Holding, Closing, DrainInv,
              Drained, CallbackInv
<1> QED
  BY <1>1, <1>2, <1>3, <1>4, <1>5, <1>6, <1>7 DEF Next, Arrive

\* The inductive invariant holds in every state of the lifecycle.
LEMMA Invariance == Spec => []IInv
  BY InitIInv, IInvStep, PTL DEF Spec

\* runners is the app's own reference plus one for each request that holds one,
\* for any number of apps, requests and Close calls.
THEOREM RunnersExact == Spec => []RunnersCountsHolders
<1>1. IInv => RunnersCountsHolders
  BY DEF IInv
<1> QED
  BY <1>1, Invariance, PTL

\* No request is being served, or can be admitted, on an app that a thread is
\* about to clear or has cleared.
THEOREM TeardownSafe == Spec => []NoServingAfterTeardown
<1>1. IInv => NoServingAfterTeardown
  BY DEF IInv, DrainInv, Drained, NoServingAfterTeardown, TornDown
<1> QED
  BY <1>1, Invariance, PTL

\* Each callback given to Close runs at most once, when its app is idle.
THEOREM CallbackSafe == Spec => []CallbackOnceWhenIdle
<1>1. IInv => CallbackOnceWhenIdle
  <2> SUFFICES ASSUME IInv, NEW c \in Calls, fired[c] > 0
               PROVE  /\ fired[c] = 1
                      /\ closed[app[c]] = 1
                      /\ \A r \in Requests : app[r] = app[c] => pc[r] # "serving"
    BY DEF CallbackOnceWhenIdle
  <2>1. fired[c] = 1 /\ pc[c] # "start"
    BY DEF IInv, CallbackInv
  <2>2. app[c] \in Apps
    BY <2>1 DEF IInv, AppInv, Threads
  <2>3. Drained(app[c])
    BY DEF Drained
  <2> QED
    BY <2>1, <2>2, <2>3 DEF IInv, DrainInv
<1> QED
  BY <1>1, Invariance, PTL

-----------------------------------------------------------------------------
(* SunnyApp implements the safety part of AppLife.                         *)

\* The requests being served change only when one is admitted or finishes.
LEMMA ServingUnchanged ==
    ASSUME \A r \in Requests : (pc[r] = "serving") = (pc'[r] = "serving"),
           \A r \in Requests : pc[r] = "serving" => app'[r] = app[r]
    PROVE  LifeServing' = LifeServing
  BY DEF LifeServing

\* An app on which a thread works that has not been closed is open.
LEMMA OpenPhase ==
    ASSUME IInv, NEW t \in Threads, pc[t] # "start", closed[app[t]] = 0
    PROVE  app[t] \in Apps /\ servers[app[t]] = "live" /\ LifePhase[app[t]] = "open"
<1>1. app[t] \in Apps /\ servers[app[t]] # "none"
  BY DEF IInv, AppInv
<1>2. servers[app[t]] # "nil"
  BY <1>1 DEF IInv, DrainInv, Drained
<1> QED
  BY <1>1, <1>2 DEF IInv, TypeOK, LifePhase

\* Every step of the lifecycle is a step of AppLife, or changes nothing there.
LEMMA LifeStep == IInv /\ IInv' /\ [Next]_vars => [Life!Next]_(Life!life)
<1> SUFFICES ASSUME IInv, IInv', [Next]_vars
             PROVE  Life!Next \/ UNCHANGED <<LifePhase, LifeServing>>
  BY DEF Life!life
<1> USE DEF Threads
<1>t. TypeOK
  BY DEF IInv
<1>1. ASSUME NEW a \in Apps, NewSunnyApp(a) PROVE Life!Create(a)
  <2>1. LifeServing' = LifeServing
    BY <1>1, ServingUnchanged DEF NewSunnyApp
  <2>2. LifePhase[a] = "none"
    BY <1>1 DEF NewSunnyApp, LifePhase
  <2>3. closed[a] = 0
    BY <1>1 DEF NewSunnyApp, IInv, UnbornInv
  <2>4. LifePhase' = [LifePhase EXCEPT ![a] = "open"]
    BY <1>1, <1>t, <2>3 DEF NewSunnyApp, LifePhase, TypeOK
  <2> QED
    BY <2>1, <2>2, <2>4 DEF Life!Create
<1>2. ASSUME NEW a \in Apps, NEW r \in Requests, EnterRequest(r, a)
      PROVE  UNCHANGED <<LifePhase, LifeServing>>
  <2>1. LifePhase' = LifePhase
    BY <1>2 DEF EnterRequest, LifePhase
  <2>2. LifeServing' = LifeServing
    BY <1>2, <1>t, ServingUnchanged DEF EnterRequest, TypeOK
  <2> QED
    BY <2>1, <2>2
<1>3. ASSUME NEW a \in Apps, NEW c \in Calls, NEW given \in BOOLEAN,
             CloseRegister(c, a, given)
      PROVE  UNCHANGED <<LifePhase, LifeServing>>
  <2>1. LifePhase' = LifePhase
    BY <1>3 DEF CloseRegister, LifePhase
  <2>2. LifeServing' = LifeServing
    BY <1>3, <1>t, ServingUnchanged, ThreadsAssumption DEF CloseRegister, TypeOK
  <2> QED
    BY <2>1, <2>2
<1>4. ASSUME NEW r \in Requests, CheckClosed(r)
      PROVE  Life!Next \/ UNCHANGED <<LifePhase, LifeServing>>
  <2>1. LifePhase' = LifePhase
    BY <1>4 DEF CheckClosed, LifePhase
  <2>2. CASE pc'[r] # "serving"
    <3>1. LifeServing' = LifeServing
      BY <1>4, <2>2, <1>t, ServingUnchanged DEF CheckClosed, TypeOK
    <3> QED
      BY <2>1, <3>1
  <2>3. CASE pc'[r] = "serving"
    <3>1. app[r] \in Apps
      BY <1>4 DEF CheckClosed, IInv, AppInv
    <3>2. closed[app[r]] = 0
      BY <1>4, <2>3, <3>1, <1>t DEF CheckClosed, TypeOK
    <3>3. LifePhase[app[r]] = "open"
      BY <1>4, <3>2, OpenPhase DEF CheckClosed
    <3>4. {q \in Requests : pc'[q] = "serving"} = {q \in Requests : pc[q] = "serving"} \cup {r}
      BY <1>4, <2>3, <1>t DEF CheckClosed, TypeOK
    <3>5. LifeServing' = LifeServing \cup {<<r, app[r]>>}
      BY <1>4, <3>4 DEF CheckClosed, LifeServing
    <3> QED
      BY <2>1, <3>1, <3>3, <3>5 DEF Life!Admit, Life!Next
  <2> QED
    BY <2>2, <2>3
<1>5. ASSUME NEW r \in Requests, FinishRequest(r)
      PROVE  Life!Next
  <2>1. LifePhase' = LifePhase
    BY <1>5 DEF FinishRequest, LifePhase
  <2>2. app[r] \in Apps
    BY <1>5 DEF FinishRequest, IInv, AppInv
  <2>3. <<r, app[r]>> \in LifeServing
    BY <1>5 DEF FinishRequest, LifeServing
  <2>4. {q \in Requests : pc'[q] = "serving"} = {q \in Requests : pc[q] = "serving"} \ {r}
    BY <1>5, <1>t DEF FinishRequest, TypeOK
  <2>5. LifeServing' = LifeServing \ {<<r, app[r]>>}
    BY <1>5, <2>4 DEF FinishRequest, LifeServing
  <2> QED
    BY <2>1, <2>2, <2>3, <2>5 DEF Life!Finish, Life!Next
<1>6. ASSUME NEW r \in Requests, DecRunners(r) \/ DecCheckClosed(r)
      PROVE  UNCHANGED <<LifePhase, LifeServing>>
  <2>1. LifePhase' = LifePhase
    BY <1>6 DEF DecRunners, DecCheckClosed, LifePhase
  <2>2. LifeServing' = LifeServing
    BY <1>6, <1>t, ServingUnchanged DEF DecRunners, DecCheckClosed, TypeOK
  <2> QED
    BY <2>1, <2>2
<1>7. ASSUME NEW c \in Calls, CloseCAS(c)
      PROVE  Life!Next \/ UNCHANGED <<LifePhase, LifeServing>>
  <2>1. LifeServing' = LifeServing
    BY <1>7, <1>t, ServingUnchanged, ThreadsAssumption DEF CloseCAS, TypeOK
  <2>2. CASE closed[app[c]] # 0
    <3>1. LifePhase' = LifePhase
      BY <1>7, <2>2 DEF CloseCAS, LifePhase
    <3> QED
      BY <2>1, <3>1
  <2>3. CASE closed[app[c]] = 0
    <3>1. app[c] \in Apps /\ servers[app[c]] = "live" /\ LifePhase[app[c]] = "open"
      BY <1>7, <2>3, OpenPhase DEF CloseCAS
    <3>2. /\ closed' = [closed EXCEPT ![app[c]] = 1]
          /\ UNCHANGED servers
      BY <1>7, <2>3 DEF CloseCAS
    <3>3. \A a \in Apps : LifePhase'[a] = IF a = app[c] THEN "draining" ELSE LifePhase[a]
      BY <3>1, <3>2, <1>t DEF LifePhase, TypeOK
    <3>4. LifePhase' = [LifePhase EXCEPT ![app[c]] = "draining"]
      BY <3>1, <3>3 DEF LifePhase
    <3> QED
      BY <2>1, <3>1, <3>4 DEF Life!Close, Life!Next
  <2> QED
    BY <2>2, <2>3
<1>8. ASSUME NEW c \in Calls, CloseDec(c)
      PROVE  UNCHANGED <<LifePhase, LifeServing>>
  <2>1. LifePhase' = LifePhase
    BY <1>8 DEF CloseDec, LifePhase
  <2>2. LifeServing' = LifeServing
    BY <1>8, <1>t, ServingUnchanged, ThreadsAssumption DEF CloseDec, TypeOK
  <2> QED
    BY <2>1, <2>2
<1>9. ASSUME NEW t \in Threads, RemoveSunnyApp(t)
      PROVE  Life!Next \/ UNCHANGED <<LifePhase, LifeServing>>
  <2>1. LifeServing' = LifeServing
    BY <1>9, <1>t, ServingUnchanged DEF RemoveSunnyApp, TypeOK
  <2>2. CASE ~(app[t] > 0 /\ servers[app[t]] = "live")
    <3>1. LifePhase' = LifePhase
      BY <1>9, <2>2 DEF RemoveSunnyApp, LifePhase
    <3> QED
      BY <2>1, <3>1
  <2>3. CASE app[t] > 0 /\ servers[app[t]] = "live"
    <3>1. app[t] \in Apps \ {0}
      BY <1>9, <2>3 DEF RemoveSunnyApp, IInv, AppInv
    <3>2. /\ closed[app[t]] = 1
          /\ \A r \in Requests : app[r] = app[t] => pc[r] # "serving"
      BY <1>9, <3>1 DEF RemoveSunnyApp, IInv, DrainInv, Drained
    <3>3. LifePhase[app[t]] = "draining"
      BY <2>3, <3>1, <3>2 DEF LifePhase
    <3>4. \A r \in Requests : <<r, app[t]>> \notin LifeServing
      BY <3>2 DEF LifeServing
    <3>5. LifePhase' = [LifePhase EXCEPT ![app[t]] = "gone"]
      BY <1>9, <2>3, <3>1, <1>t DEF RemoveSunnyApp, LifePhase, TypeOK
    <3> QED
      BY <2>1, <3>1, <3>3, <3>4, <3>5 DEF Life!Remove, Life!Next
  <2> QED
    BY <2>2, <2>3
<1>10. ASSUME NEW t \in Threads, RunCallback(t)
       PROVE  UNCHANGED <<LifePhase, LifeServing>>
  <2>1. LifePhase' = LifePhase
    BY <1>10 DEF RunCallback, LifePhase
  <2>2. LifeServing' = LifeServing
    BY <1>10, <1>t, ServingUnchanged DEF RunCallback, TypeOK
  <2> QED
    BY <2>1, <2>2
<1>11. CASE UNCHANGED vars
  BY <1>11 DEF vars, LifePhase, LifeServing
<1>12. CASE Arrive
  BY <1>12, <1>1, <1>2, <1>3 DEF Arrive, Life!Next
<1>13. CASE \E r \in Requests : RequestStep(r)
  BY <1>13, <1>4, <1>5, <1>6 DEF RequestStep
<1>14. CASE \E c \in Calls : CloseStep(c)
  BY <1>14, <1>7, <1>8 DEF CloseStep
<1>15. CASE \E t \in Threads : RemovalStep(t)
  BY <1>15, <1>9, <1>10 DEF RemovalStep
<1> QED
  BY <1>11, <1>12, <1>13, <1>14, <1>15 DEF Next

\* The counter, the flag and the registry implement AppLife: nothing is admitted
\* by an app that Close has won, and an app goes only when it serves no one.
THEOREM ImplementsLife == Spec => Life!Spec
<1>1. Init => Life!Init
  <2> SUFFICES ASSUME Init PROVE LifePhase = [a \in Apps |-> "none"] /\ LifeServing = {}
    BY DEF Life!Init
  <2>1. LifePhase = [a \in Apps |-> "none"]
    BY DEF Init, LifePhase
  <2>2. \A r \in Requests : pc[r] # "serving"
    BY DEF Init, Threads
  <2>3. LifeServing = {}
    BY <2>2 DEF LifeServing
  <2> QED
    BY <2>1, <2>3
<1> QED
  BY <1>1, LifeStep, Invariance, PTL DEF Spec, Life!Spec

-----------------------------------------------------------------------------
(* For any number of apps and requests: as long as the shutdown goroutine  *)
(* is the only one that closes apps, its WaitGroup counts the apps whose   *)
(* callback is still to come, no counter goes below 0, and the process     *)
(* exits only when nothing is served any more.                             *)
(*                                                                         *)
(* Every step of the composition but a w.Done() that panics is a step of   *)
(* SunnyApp, so its inductive invariant IInv is kept; and while the        *)
(* program closes nothing itself, no w.Done() panics.                      *)

Looping == {"loop", "closing", "waiting"}

\* The apps of the snapshot whose w.Done() is still to come.
Pending == {a \in DOMAIN snapshot : fired[ShutdownCall[a]] = 0}

ShutTypeOK ==
    /\ shut \in {"off", "armed"} \cup Looping
    /\ DOMAIN snapshot \subseteq Apps
    /\ shut = "closing" => next \in DOMAIN snapshot

\* The goroutine closes apps of its snapshot only, each with the call that is
\* that app's.
BegunInv ==
    \A a \in Apps : pc[ShutdownCall[a]] # "start" =>
        shut \in Looping /\ a \in DOMAIN snapshot /\ app[ShutdownCall[a]] = a

\* An app is closed by its own call, which therefore wins.
OnlyCloserInv ==
    \A a \in Apps :
        /\ closed[a] = 1 => pc[ShutdownCall[a]] \notin {"start", "registered"}
        /\ ret[ShutdownCall[a]] # "false"

\* No app was removed before the signal came.
LiveInv == \A a \in DOMAIN snapshot : snapshot[a] = "live"

CountInv == shut \in Looping => wg = Cardinality(Pending)

ExitInv == /\ proc # "crashed"
           /\ proc = "exited" => shut = "waiting" /\ wg = 0

AloneInv == IInv /\ BegunInv /\ OnlyCloserInv /\ LiveInv /\ CountInv /\ ExitInv

GInv == TypeOK /\ ShutTypeOK /\ (NoUserClose => AloneInv)

-----------------------------------------------------------------------------
\* A shutdown call is a call, and belongs to one app.
LEMMA CallOfApp ==
    ASSUME NEW a \in Apps
    PROVE  /\ ShutdownCall[a] \in Calls
           /\ ShutdownCall[a] \in Threads
           /\ ShutdownCall[a] \notin Requests
           /\ \A b \in Apps : ShutdownCall[a] = ShutdownCall[b] => a = b
  BY ShutdownCallAssumption, ThreadsAssumption DEF Threads

\* Sets of apps are finite.
LEMMA AppSets ==
    ASSUME NEW S, S \subseteq Apps
    PROVE  IsFiniteSet(S) /\ Cardinality(S) \in Nat /\ (Cardinality(S) = 0 <=> S = {})
<1>1. IsFiniteSet(Apps)
  BY MaxAppsAssumption, FS_Interval DEF Apps
<1>2. IsFiniteSet(S)
  BY <1>1, FS_Subset
<1> QED
  BY <1>2, FS_CardinalityType, FS_EmptySet

\* Only a Close call of the program's own, or a shutdown call that has begun,
\* is past its start.
LEMMA BegunCalls ==
    ASSUME NoUserClose, BegunInv, NEW c \in Calls, pc[c] # "start"
    PROVE  app[c] \in Apps /\ c = ShutdownCall[app[c]]
  BY DEF NoUserClose, UserCalls, ShutdownCalls, BegunInv

\* A step of the composition is one of SunnyApp's, or a w.Done() that panics.
LEMMA StepKinds ==
    ASSUME ShutTypeOK, GNext
    PROVE  [Next]_vars \/ \E t \in Threads : DoneCallbackPanics(t)
<1> USE DEF Next
<1>1. CASE GArrive
  BY <1>1 DEF GArrive, Arrive, UserCalls
<1>2. CASE GracefulShutDown
  BY <1>2 DEF GracefulShutDown
<1>3. CASE Goroutine
  <2>1. CASE LoopClose
    <3>1. next \in Apps
      BY <2>1 DEF LoopClose, ShutTypeOK
    <3>2. CloseRegister(ShutdownCall[next], next, TRUE)
      BY <2>1 DEF LoopClose
    <3> QED
      BY <3>1, <3>2, CallOfApp DEF Arrive
  <2>2. CASE TakeSignal \/ LoopNilServer \/ LoopReturn \/ LoopEnd \/ WaitAndExit
    BY <2>2 DEF TakeSignal, LoopNilServer, LoopReturn, LoopEnd, WaitAndExit
  <2> QED
    BY <1>3, <2>1, <2>2 DEF Goroutine
<1>4. CASE \E r \in Requests : RequestStep(r)
  BY <1>4
<1>5. CASE \E c \in Calls : CloseStep(c)
  BY <1>5
<1>6. ASSUME NEW t \in Threads, GRemovalStep(t)
      PROVE  [Next]_vars \/ \E u \in Threads : DoneCallbackPanics(u)
  BY <1>6 DEF GRemovalStep, RemovalStep, OtherCallback, DoneCallback
<1> QED
  BY <1>1, <1>2, <1>3, <1>4, <1>5, <1>6 DEF GNext

\* Types are kept, by the panic too.
LEMMA GTypeStep ==
    ASSUME TypeOK, ShutTypeOK, [GNext]_allVars
    PROVE  TypeOK' /\ ShutTypeOK'
<1>1. TypeOK'
  <2>1. CASE [Next]_vars
    BY <2>1, TypeStep
  <2>2. ASSUME NEW t \in Threads, DoneCallbackPanics(t) PROVE TypeOK'
    <3>1. callback[app[t]] \in Calls
      BY <2>2, ShutdownCallAssumption DEF DoneCallbackPanics, ShutdownCalls
    <3> QED
      BY <2>2, <3>1 DEF DoneCallbackPanics, TypeOK, PCs
  <2>3. CASE UNCHANGED allVars
    BY <2>3, TypeStep DEF allVars
  <2> QED
    BY <2>1, <2>2, <2>3, StepKinds
<1>2. ShutTypeOK'
  <2> USE DEF ShutTypeOK, Looping
  <2>1. CASE UNCHANGED shutVars
    BY <2>1 DEF shutVars
  <2>2. CASE TakeSignal
    BY <2>2 DEF TakeSignal
  <2>3. CASE GracefulShutDown \/ LoopClose \/ LoopNilServer \/ LoopReturn \/ LoopEnd \/ WaitAndExit
    BY <2>3 DEF GracefulShutDown, LoopClose, LoopNilServer, LoopReturn, LoopEnd, WaitAndExit
  <2>4. ASSUME NEW t \in Threads, GRemovalStep(t) PROVE ShutTypeOK'
    BY <2>4 DEF GRemovalStep, OtherCallback, DoneCallback, DoneCallbackPanics, shutVars
  <2>5. CASE UNCHANGED allVars
    BY <2>5 DEF allVars, shutVars
  <2> QED
    BY <2>1, <2>2, <2>3, <2>4, <2>5 DEF GNext, Goroutine
<1> QED
  BY <1>1, <1>2

\* Whoever has begun never goes back to the start.
LEMMA NoUserCloseBefore ==
    ASSUME TypeOK, ShutTypeOK, [GNext]_allVars, NoUserClose'
    PROVE  NoUserClose
<1>1. SUFFICES ASSUME NEW t \in Threads, pc[t] # "start" PROVE pc'[t] # "start"
  BY DEF NoUserClose, UserCalls, Threads
<1> USE DEF TypeOK
<1>2. CASE [Next]_vars
  <2>2. CASE Arrive
    BY <2>2, <1>1 DEF Arrive, NewSunnyApp, EnterRequest, CloseRegister, Threads
  <2>3. ASSUME NEW r \in Requests, RequestStep(r) PROVE pc'[t] # "start"
    BY <2>3, <1>1 DEF RequestStep, CheckClosed, FinishRequest, DecRunners, DecCheckClosed
  <2>4. ASSUME NEW c \in Calls, CloseStep(c) PROVE pc'[t] # "start"
    BY <2>4, <1>1 DEF CloseStep, CloseCAS, CloseDec
  <2>5. ASSUME NEW u \in Threads, RemovalStep(u) PROVE pc'[t] # "start"
    BY <2>5, <1>1 DEF RemovalStep, RemoveSunnyApp, RunCallback
  <2> QED
    BY <1>2, <1>1, <2>2, <2>3, <2>4, <2>5 DEF Next, vars
<1>3. ASSUME NEW u \in Threads, DoneCallbackPanics(u) PROVE pc'[t] # "start"
  BY <1>3, <1>1 DEF DoneCallbackPanics
<1>4. CASE UNCHANGED allVars
  BY <1>4, <1>1 DEF allVars, vars
<1> QED
  BY <1>2, <1>3, <1>4, StepKinds

-----------------------------------------------------------------------------
(* The goroutine's steps.                                                  *)

\* While no shutdown call has begun no app is closed, and none was removed.
LEMMA NothingClosedYet ==
    ASSUME TypeOK, AloneInv, shut \notin Looping, NEW a \in Apps
    PROVE  /\ pc[ShutdownCall[a]] = "start"
           /\ fired[ShutdownCall[a]] = 0
           /\ servers[a] # "nil"
<1>1. pc[ShutdownCall[a]] = "start"
  BY DEF AloneInv, BegunInv
<1>2. fired[ShutdownCall[a]] = 0
  BY <1>1, CallOfApp DEF AloneInv, IInv, CallbackInv
<1>3. closed[a] # 1
  BY <1>1 DEF AloneInv, OnlyCloserInv
<1> QED
  BY <1>1, <1>2, <1>3 DEF AloneInv, IInv, DrainInv, Drained

\* The copy of servers holds no nil entry, and the WaitGroup starts at its size.
LEMMA TakeSignalAlone ==
    ASSUME TypeOK, AloneInv, IInv', TakeSignal
    PROVE  AloneInv'
<1> USE DEF TakeSignal
<1>1. UNCHANGED vars /\ proc' = proc
  OBVIOUS
<1>2. shut \notin Looping /\ shut' = "loop"
  BY DEF Looping
<1>3. \A a \in Apps : pc[ShutdownCall[a]] = "start" /\ fired[ShutdownCall[a]] = 0 /\ servers[a] # "nil"
  BY <1>2, NothingClosedYet
<1>4. BegunInv' /\ OnlyCloserInv'
  BY <1>1, <1>3 DEF BegunInv, AloneInv, OnlyCloserInv, vars
<1>5. DOMAIN snapshot' = {b \in Apps : servers[b] # "none"}
  OBVIOUS
<1>6. LiveInv'
  <2> SUFFICES ASSUME NEW a \in DOMAIN snapshot' PROVE snapshot'[a] = "live"
    BY DEF LiveInv
  <2>1. a \in Apps /\ snapshot'[a] = servers[a] /\ servers[a] # "none"
    OBVIOUS
  <2> QED
    BY <2>1, <1>3 DEF TypeOK
<1>7. CountInv'
  <2>1. Pending' = DOMAIN snapshot'
    BY <1>1, <1>3, <1>5 DEF Pending, vars
  <2> QED
    BY <2>1 DEF CountInv
<1>8. ExitInv'
  BY <1>1, <1>2 DEF ExitInv, AloneInv, Looping
<1> QED
  BY <1>4, <1>6, <1>7, <1>8 DEF AloneInv

\* The call that begins is that of an app in the snapshot which nobody closed.
LEMMA LoopCloseAlone ==
    ASSUME TypeOK, ShutTypeOK, AloneInv, IInv', LoopClose
    PROVE  AloneInv'
<1> USE DEF LoopClose, CloseRegister, AloneInv
<1>1. next \in Apps /\ next \in DOMAIN snapshot
  BY DEF ShutTypeOK
<1>2. \A a \in Apps \ {next} : pc'[ShutdownCall[a]] = pc[ShutdownCall[a]] /\ app'[ShutdownCall[a]] = app[ShutdownCall[a]]
  BY <1>1, CallOfApp DEF TypeOK
<1>3. pc'[ShutdownCall[next]] = "registered" /\ app'[ShutdownCall[next]] = next
  BY <1>1, CallOfApp DEF TypeOK
<1>4. BegunInv'
  BY <1>1, <1>2, <1>3 DEF BegunInv, Looping
<1>5. OnlyCloserInv'
  <2>1. closed[next] # 1
    BY <1>1 DEF OnlyCloserInv
  <2> QED
    BY <2>1, <1>1, <1>2, <1>3 DEF OnlyCloserInv
<1>6. LiveInv' /\ CountInv' /\ ExitInv'
  BY DEF LiveInv, CountInv, Looping, Pending, ExitInv
<1> QED
  BY <1>4, <1>5, <1>6

\* Close was not beaten to the app, so the goroutine does not call Done itself.
LEMMA LoopReturnAlone ==
    ASSUME ShutTypeOK, AloneInv, IInv', LoopReturn
    PROVE  AloneInv'
<1> USE DEF LoopReturn, AloneInv
<1>0. next \in Apps
  BY DEF ShutTypeOK
<1>1. ret[ShutdownCall[next]] # "false"
  BY <1>0 DEF OnlyCloserInv
<1>2. wg' = wg /\ wg \in Nat
  <2>1. Pending \subseteq Apps
    BY DEF Pending, ShutTypeOK
  <2> QED
    BY <1>1, <2>1, AppSets DEF CountInv, Looping
<1>3. UNCHANGED vars /\ snapshot' = snapshot /\ shut' = "loop" /\ proc' = proc
  BY <1>2
<1> QED
  BY <1>2, <1>3 DEF vars, BegunInv, OnlyCloserInv, LiveInv, CountInv, Pending, ExitInv, Looping

\* The goroutine never meets a nil entry; what else it does changes no app.
LEMMA GoroutineAlone ==
    ASSUME TypeOK, ShutTypeOK, AloneInv, IInv', GracefulShutDown \/ Goroutine
    PROVE  AloneInv'
<1>1. CASE GracefulShutDown \/ LoopEnd \/ WaitAndExit
  <2>1. UNCHANGED <<vars, snapshot, wg>> /\ proc' # "crashed"
    BY <1>1 DEF GracefulShutDown, LoopEnd, WaitAndExit, AloneInv, ExitInv
  <2>2. BegunInv'
    BY <1>1, <2>1 DEF GracefulShutDown, LoopEnd, WaitAndExit, AloneInv, BegunInv, Looping, vars
  <2>3. OnlyCloserInv' /\ LiveInv'
    BY <2>1 DEF AloneInv, OnlyCloserInv, LiveInv, vars
  <2>4. CountInv' /\ ExitInv'
    BY <1>1, <2>1 DEF GracefulShutDown, LoopEnd, WaitAndExit, AloneInv, CountInv, ExitInv, Pending, Looping, vars
  <2> QED
    BY <2>2, <2>3, <2>4 DEF AloneInv
<1>2. ~LoopNilServer
  BY DEF LoopNilServer, AloneInv, LiveInv
<1> QED
  BY <1>1, <1>2, TakeSignalAlone, LoopCloseAlone, LoopReturnAlone DEF Goroutine

-----------------------------------------------------------------------------
(* The apps' own steps.                                                    *)

\* A step that leaves the goroutine alone and runs no callback keeps what is
\* said of the goroutine, if no call begins and the closers stay the closers.
LEMMA Apart ==
    ASSUME AloneInv, IInv', OnlyCloserInv', UNCHANGED shutVars, fired' = fired,
           \A a \in Apps : /\ app'[ShutdownCall[a]] = app[ShutdownCall[a]]
                           /\ pc[ShutdownCall[a]] = "start" => pc'[ShutdownCall[a]] = "start"
    PROVE  AloneInv'
<1> USE DEF AloneInv, shutVars
<1>1. BegunInv'
  BY DEF BegunInv
<1>2. LiveInv' /\ CountInv' /\ ExitInv'
  BY DEF LiveInv, CountInv, Pending, ExitInv
<1> QED
  BY <1>1, <1>2

\* Requests and new apps do not touch the calls.
LEMMA RequestAlone ==
    ASSUME TypeOK, AloneInv, IInv', NoUserClose', UNCHANGED shutVars,
           GArrive \/ \E r \in Requests : RequestStep(r)
    PROVE  AloneInv'
<1> DEFINE Kept == /\ UNCHANGED <<closed, ret, fired>>
                   /\ \A a \in Apps : /\ app'[ShutdownCall[a]] = app[ShutdownCall[a]]
                                      /\ pc'[ShutdownCall[a]] = pc[ShutdownCall[a]]
<1>1. Kept
  <2> USE CallOfApp DEF TypeOK
  <2>1. ASSUME NEW a \in Apps, NewSunnyApp(a) \/ \E r \in Requests : EnterRequest(r, a)
        PROVE  Kept
    BY <2>1 DEF NewSunnyApp, EnterRequest
  <2>2. ASSUME NEW a \in Apps, NEW c \in UserCalls, NEW given \in BOOLEAN, CloseRegister(c, a, given)
        PROVE  FALSE
    <3>1. c \in Threads
      BY DEF UserCalls, Threads
    <3>2. pc'[c] = "registered"
      BY <2>2, <3>1 DEF CloseRegister
    <3> QED
      BY <3>2 DEF NoUserClose
  <2>3. ASSUME NEW r \in Requests, RequestStep(r) PROVE Kept
    BY <2>3 DEF RequestStep, CheckClosed, FinishRequest, DecRunners, DecCheckClosed
  <2> QED
    BY <2>1, <2>2, <2>3 DEF GArrive
<1>2. OnlyCloserInv'
  BY <1>1 DEF AloneInv, OnlyCloserInv
<1> QED
  BY <1>1, <1>2, Apart

\* The only call for an app finds it open, so it wins.
LEMMA CloseAlone ==
    ASSUME TypeOK, AloneInv, IInv', NoUserClose, UNCHANGED shutVars,
           NEW c \in Calls, CloseStep(c)
    PROVE  AloneInv'
<1>1. pc[c] \in {"registered", "won"}
  BY DEF CloseStep, CloseCAS, CloseDec
<1>2. PICK b \in Apps : c = ShutdownCall[b] /\ app[c] = b
  BY <1>1, BegunCalls DEF AloneInv
<1>3. \A a \in Apps \ {b} : pc'[ShutdownCall[a]] = pc[ShutdownCall[a]]
  BY <1>2, CallOfApp DEF TypeOK, CloseStep, CloseCAS, CloseDec
<1>4. /\ pc'[c] \notin {"start", "registered"}
      /\ ret'[c] # "false"
      /\ \A a \in Apps \ {b} : closed'[a] = closed[a] /\ ret'[ShutdownCall[a]] = ret[ShutdownCall[a]]
  <2>1. CASE CloseCAS(c)
    <3>1. closed[b] = 0
      BY <2>1, <1>2 DEF CloseCAS, AloneInv, OnlyCloserInv, TypeOK
    <3>2. ret' = ret /\ closed' = [closed EXCEPT ![b] = 1] /\ pc' = [pc EXCEPT ![c] = "won"]
      BY <2>1, <3>1, <1>2 DEF CloseCAS
    <3> QED
      BY <3>2, <1>2, CallOfApp DEF TypeOK, AloneInv, OnlyCloserInv
  <2>2. CASE CloseDec(c)
    <3>1. closed' = closed /\ ret' \in {ret, [ret EXCEPT ![c] = "true"]}
          /\ pc' \in {[pc EXCEPT ![c] = "removing"], [pc EXCEPT ![c] = "done"]}
      BY <2>2 DEF CloseDec
    <3> QED
      BY <3>1, <1>2, CallOfApp DEF TypeOK, AloneInv, OnlyCloserInv
  <2> QED
    BY <2>1, <2>2 DEF CloseStep
<1>5. OnlyCloserInv'
  BY <1>2, <1>3, <1>4 DEF AloneInv, OnlyCloserInv
<1>6. fired' = fired /\ app' = app
  BY DEF CloseStep, CloseCAS, CloseDec
<1> QED
  BY <1>1, <1>2, <1>3, <1>5, <1>6, Apart

\* A callback in store is that of an app whose w.Done() is still to come.
LEMMA StoredIsPending ==
    ASSUME AloneInv, NEW t \in Threads, pc[t] = "calling", NEW b \in Apps, callback[app[t]] = ShutdownCall[b]
    PROVE  /\ b \in Pending /\ shut \in Looping
           /\ app[t] \in Apps
<1>1. app[t] \in Apps
  BY DEF AloneInv, IInv, AppInv
<1>2. ShutdownCall[b] # NoCallback
  BY CallOfApp, ThreadsAssumption
<1>3. pc[ShutdownCall[b]] # "start" /\ fired[ShutdownCall[b]] = 0
  BY <1>1, <1>2 DEF AloneInv, IInv, CallbackInv
<1> QED
  BY <1>1, <1>3 DEF AloneInv, BegunInv, Pending

\* So the counter is above 0 whenever a w.Done() of a callback is due.
LEMMA NoDonePanics ==
    ASSUME ShutTypeOK, AloneInv, NEW t \in Threads
    PROVE  ~DoneCallbackPanics(t)
<1> SUFFICES ASSUME DoneCallbackPanics(t) PROVE FALSE
  OBVIOUS
<1>1. PICK b \in Apps : callback[app[t]] = ShutdownCall[b]
  BY DEF DoneCallbackPanics, ShutdownCalls
<1>2. b \in Pending /\ shut \in Looping
  BY <1>1, StoredIsPending DEF DoneCallbackPanics
<1>3. wg \in Nat /\ wg # 0
  BY <1>2, AppSets DEF AloneInv, CountInv, Pending, ShutTypeOK
<1> QED
  BY <1>3 DEF DoneCallbackPanics

\* What is left of the calls when a thread ends its callback.
LEMMA RemovalCloser ==
    ASSUME TypeOK, AloneInv, NEW t \in Threads, RemovalStep(t)
    PROVE  /\ OnlyCloserInv'
           /\ app' = app
           /\ \A a \in Apps : pc[ShutdownCall[a]] = "start" => pc'[ShutdownCall[a]] = "start"
<1> USE CallOfApp DEF TypeOK, RemovalStep, RemoveSunnyApp, RunCallback
<1>1. \A a \in Apps : \/ pc'[ShutdownCall[a]] = pc[ShutdownCall[a]]
                      \/ /\ pc[ShutdownCall[a]] \in {"removing", "calling"}
                         /\ pc'[ShutdownCall[a]] \in {"calling", "done"}
  OBVIOUS
<1>2. closed' = closed /\ app' = app
  OBVIOUS
<1>3. \A a \in Apps : ret'[ShutdownCall[a]] \in {ret[ShutdownCall[a]], "true"}
  OBVIOUS
<1> QED
  BY <1>1, <1>2, <1>3 DEF AloneInv, OnlyCloserInv

\* w.Done() counts down for one pending app; other threads find no callback.
LEMMA RemovalAlone ==
    ASSUME TypeOK, ShutTypeOK, AloneInv, IInv', NoUserClose, NEW t \in Threads, GRemovalStep(t)
    PROVE  AloneInv'
<1>1. CASE RemoveSunnyApp(t) /\ UNCHANGED shutVars
  <2>1. RemovalStep(t) /\ fired' = fired
    BY <1>1 DEF RemovalStep, RemoveSunnyApp
  <2> QED
    BY <1>1, <2>1, RemovalCloser, Apart
<1>2. CASE OtherCallback(t)
  <2>1. RemovalStep(t) /\ UNCHANGED shutVars /\ pc[t] = "calling"
    BY <1>2 DEF OtherCallback, RemovalStep, RunCallback
  <2>2. app[t] \in Apps
    BY <2>1 DEF AloneInv, IInv, AppInv
  <2>3. callback[app[t]] = NoCallback
    <3> SUFFICES ASSUME callback[app[t]] # NoCallback PROVE FALSE
      OBVIOUS
    <3>1. callback[app[t]] \in Calls /\ pc[callback[app[t]]] # "start"
      BY <2>2 DEF TypeOK, AloneInv, IInv, CallbackInv
    <3>2. callback[app[t]] \in ShutdownCalls
      BY <3>1, BegunCalls DEF AloneInv, ShutdownCalls
    <3> QED
      BY <3>2, <1>2 DEF OtherCallback
  <2>4. fired' = fired
    BY <1>2, <2>3 DEF OtherCallback, RunCallback
  <2> QED
    BY <2>1, <2>4, RemovalCloser, Apart
<1>3. CASE DoneCallback(t)
  <2>1. RemovalStep(t) /\ pc[t] = "calling"
    BY <1>3 DEF DoneCallback, RemovalStep, RunCallback
  <2>2. PICK b \in Apps : callback[app[t]] = ShutdownCall[b]
    BY <1>3 DEF DoneCallback, ShutdownCalls
  <2>3. b \in Pending /\ shut \in Looping
    BY <2>1, <2>2, StoredIsPending
  <2>4. fired' = [fired EXCEPT ![ShutdownCall[b]] = @ + 1]
    BY <1>3, <2>2, CallOfApp, ThreadsAssumption DEF DoneCallback, RunCallback
  <2>5. UNCHANGED <<shut, snapshot, proc>> /\ wg' = wg - 1
    BY <1>3 DEF DoneCallback
  <2>6. Pending' = Pending \ {b}
    <3>1. \A a \in DOMAIN snapshot : fired'[ShutdownCall[a]] = IF a = b THEN fired[ShutdownCall[a]] + 1 ELSE fired[ShutdownCall[a]]
      BY <2>4, CallOfApp DEF TypeOK, ShutTypeOK
    <3> QED
      BY <3>1, <2>3, <2>5 DEF Pending
  <2>7. Cardinality(Pending') = Cardinality(Pending) - 1
    <3>1. IsFiniteSet(Pending)
      BY AppSets DEF Pending, ShutTypeOK
    <3> QED
      BY <3>1, <2>3, <2>6, FS_RemoveElement
  <2>8. CountInv'
    BY <2>3, <2>5, <2>7 DEF AloneInv, CountInv
  <2>9. OnlyCloserInv' /\ BegunInv' /\ LiveInv'
    BY <2>1, <2>5, RemovalCloser DEF AloneInv, BegunInv, LiveInv
  <2>10. ExitInv'
    <3>1. proc # "exited"
      BY <1>3 DEF DoneCallback, AloneInv, ExitInv
    <3> QED
      BY <3>1, <2>5 DEF AloneInv, ExitInv
  <2> QED
    BY <2>8, <2>9, <2>10 DEF AloneInv
<1>4. ~DoneCallbackPanics(t)
  BY NoDonePanics
<1> QED
  BY <1>1, <1>2, <1>3, <1>4 DEF GRemovalStep

-----------------------------------------------------------------------------
\* While only the goroutine closes apps, every step keeps what they agree on.
LEMMA AloneStep ==
    ASSUME TypeOK, TypeOK', ShutTypeOK, NoUserClose, NoUserClose', AloneInv, [GNext]_allVars
    PROVE  AloneInv'
<1>1. \A t \in Threads : ~DoneCallbackPanics(t)
  BY NoDonePanics
<1>2. IInv'
  <2>1. [Next]_vars
    BY <1>1, StepKinds DEF allVars
  <2> QED
    BY <2>1, IInvStep DEF AloneInv
<1>3. CASE UNCHANGED allVars
  <2>1. UNCHANGED <<pc, app, ret, fired, closed>> /\ UNCHANGED shutVars
    BY <1>3 DEF allVars, vars
  <2> QED
    BY <2>1, <1>2, Apart DEF AloneInv, OnlyCloserInv
<1>4. CASE GArrive /\ UNCHANGED shutVars
  BY <1>4, <1>2, RequestAlone
<1>5. CASE GracefulShutDown \/ Goroutine
  BY <1>5, <1>2, GoroutineAlone
<1>6. ASSUME NEW r \in Requests, RequestStep(r), UNCHANGED shutVars PROVE AloneInv'
  BY <1>6, <1>2, RequestAlone
<1>7. ASSUME NEW c \in Calls, CloseStep(c), UNCHANGED shutVars PROVE AloneInv'
  BY <1>7, <1>2, CloseAlone
<1>8. ASSUME NEW t \in Threads, GRemovalStep(t) PROVE AloneInv'
  BY <1>8, <1>2, RemovalAlone
<1> QED
  BY <1>3, <1>4, <1>5, <1>6, <1>7, <1>8 DEF GNext

\* Nothing has begun, so nothing is to be counted.
LEMMA GInitInv == GInit => GInv
<1> SUFFICES ASSUME GInit PROVE GInv
  OBVIOUS
<1>1. IInv
  BY InitIInv DEF GInit
<1>2. \A a \in Apps : pc[ShutdownCall[a]] = "start" /\ closed[a] = 0 /\ ret[ShutdownCall[a]] = "none"
  BY CallOfApp DEF GInit, Init
<1>3. snapshot = [a \in {} |-> "nil"] /\ shut = "off" /\ proc = "running"
  BY DEF GInit
<1>4. DOMAIN snapshot = {}
  BY <1>3
<1>5. BegunInv /\ OnlyCloserInv
  BY <1>2 DEF BegunInv, OnlyCloserInv
<1>6. LiveInv /\ CountInv /\ ExitInv /\ ShutTypeOK
  BY <1>3, <1>4 DEF LiveInv, CountInv, ExitInv, ShutTypeOK, Looping
<1> QED
  BY <1>1, <1>5, <1>6 DEF GInv, AloneInv, IInv

LEMMA GInvariance == GSpec => []GInv
<1>1. GInv /\ [GNext]_allVars => GInv'
  <2> SUFFICES ASSUME GInv, [GNext]_allVars PROVE GInv'
    OBVIOUS
  <2>1. TypeOK /\ ShutTypeOK /\ TypeOK' /\ ShutTypeOK'
    BY GTypeStep DEF GInv
  <2>2. NoUserClose' => AloneInv'
    BY <2>1, NoUserCloseBefore, AloneStep DEF GInv
  <2> QED
    BY <2>1, <2>2 DEF GInv
<1> QED
  BY <1>1, GInitInv, PTL DEF GSpec

\* The WaitGroup counts exactly the apps of the snapshot whose callback is still
\* to come, so w.Done() never drives it below 0, and no nil entry is met
\* (sunny_graceterm.go:25-38), for any number of apps and requests.
THEOREM WaitGroupExact == GSpec => []WaitGroupCountsApps
<1>1. GInv => WaitGroupCountsApps
  BY DEF GInv, AloneInv, ExitInv, CountInv, Pending, Looping, WaitGroupCountsApps
<1> QED
  BY <1>1, GInvariance, PTL

\* The process exits only when no app of the snapshot serves a request: each
\* w.Done() was that of an app whose callback ran, and such an app is idle for
\* good (sunny_graceterm.go:31-37).
THEOREM ExitSafe == GSpec => []ExitsOnlyWhenIdle
<1>1. GInv => ExitsOnlyWhenIdle
  <2> SUFFICES ASSUME TypeOK, ShutTypeOK, AloneInv, proc = "exited",
                      NEW r \in Requests, app[r] \in DOMAIN snapshot
               PROVE  pc[r] # "serving"
    BY DEF GInv, ExitsOnlyWhenIdle
  <2> DEFINE a == app[r]
  <2>1. a \in Apps
    BY DEF ShutTypeOK
  <2>2. Pending = {}
    <3>1. Cardinality(Pending) = 0
      BY DEF AloneInv, ExitInv, CountInv, Looping
    <3> QED
      BY <3>1, AppSets DEF Pending, ShutTypeOK
  <2>3. fired[ShutdownCall[a]] # 0
    BY <2>2 DEF Pending
  <2>4. fired[ShutdownCall[a]] > 0 /\ pc[ShutdownCall[a]] # "start"
    BY <2>1, <2>3, CallOfApp DEF AloneInv, IInv, CallbackInv
  <2>5. app[ShutdownCall[a]] = a
    BY <2>1, <2>4 DEF AloneInv, BegunInv
  <2>6. Drained(a)
    BY <2>1, <2>4, <2>5, CallOfApp DEF Drained
  <2> QED
    BY <2>1, <2>6 DEF AloneInv, IInv, DrainInv
<1> QED
  BY <1>1, GInvariance, PTL
=============================================================================
