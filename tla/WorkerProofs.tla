---------------------------- MODULE WorkerProofs ----------------------------
(***************************************************************************)
(* Proofs about Worker, for every set of requests and every routing of     *)
(* them.  The properties are not inductive: that a request is handled once *)
(* needs to know that none is given to the process before its fetch, and   *)
(* what is answered needs to know how far the process is set up while a    *)
(* request is with it.                                                     *)
(***************************************************************************)
EXTENDS Worker, TLAPS

(* Requests the process was not given yet. *)
BeforeFetch == {"idle", "asking", "starting", "fetching"}

Given ==
    \A r \in Requests :
        /\ worker[r] \in BeforeFetch => handled[r] = 0
        /\ worker[r] = "handling" => handled[r] = 1 /\ process = "listening"
        /\ worker[r] # "done" => reply[r] = 0

SetUp ==
    process \in {"binding", "listening"} => SettingsInOrder /\ routes = RegisteredRoutes

Inv == WorkerTypeOK /\ HandledOnce /\ AnsweredBySetUp /\ Given /\ SetUp

(* The invariant holds before the first request. *)
LEMMA InitInv == WorkerInit => Inv
<1> SUFFICES ASSUME WorkerInit PROVE Inv
    OBVIOUS
<1> USE DEF WorkerInit
<1>1. WorkerTypeOK
    BY DEF WorkerTypeOK, Waiting
<1>2. HandledOnce /\ AnsweredBySetUp /\ Given /\ SetUp
    BY DEF HandledOnce, AnsweredBySetUp, Given, SetUp
<1> QED
    BY <1>1, <1>2 DEF Inv

(* A request that moves on without an answer and without being given to the  *)
(* process, which does not change: index.ts before its fetch.                *)
LEMMA MoveInv ==
    ASSUME Inv, NEW r \in Requests, NEW stage \in BeforeFetch, worker[r] \in BeforeFetch,
           Goto(r, stage), UNCHANGED <<env, process, routes, handled, reply>>,
           status' \in {"stopped", "running", "healthy"}
    PROVE  Inv'
<1>1. \A q \in Requests : worker'[q] = IF q = r THEN stage ELSE worker[q]
    BY DEF Inv, WorkerTypeOK, Goto
<1>2. WorkerTypeOK'
    BY DEF Inv, WorkerTypeOK, Goto, Waiting, BeforeFetch
<1>3. HandledOnce' /\ AnsweredBySetUp' /\ SetUp'
    BY DEF Inv, HandledOnce, AnsweredBySetUp, SetUp, SettingsInOrder, RegisteredRoutes
<1>4. Given'
    BY <1>1 DEF Inv, Given, BeforeFetch
<1> QED
    BY <1>2, <1>3, <1>4 DEF Inv

(* The process or its status changes, and no request is with it afterwards   *)
(* that was not before.                                                      *)
LEMMA ProcessInv ==
    ASSUME Inv, UNCHANGED <<env, handled, reply>>,
           process' \in {"down", "starting", "binding", "listening"},
           routes' \subseteq Routes, status' \in {"stopped", "running", "healthy"},
           worker' \in [Requests -> Waiting \cup {"idle", "done"}],
           \A r \in Requests :
               /\ worker'[r] \in BeforeFetch => worker[r] \in BeforeFetch
               /\ worker'[r] = "handling" => worker[r] = "handling" /\ process' = "listening"
               /\ worker[r] = "done" => worker'[r] = "done"
               /\ worker'[r] = "done" => worker[r] = "done",
           SetUp'
    PROVE  Inv'
<1>1. WorkerTypeOK'
    BY DEF Inv, WorkerTypeOK
<1>2. HandledOnce' /\ AnsweredBySetUp'
    BY DEF Inv, HandledOnce, AnsweredBySetUp
<1>3. Given'
    BY DEF Inv, Given
<1> QED
    BY <1>1, <1>2, <1>3 DEF Inv

(* A request that is answered: its answer is all that changes. *)
LEMMA AnswerInv ==
    ASSUME Inv, NEW r \in Requests, NEW code \in {200, 404, 502}, worker[r] \in Waiting,
           Answer(r, code), UNCHANGED <<env, processVars, handled>>,
           code \in {200, 404} => handled[r] = 1 /\ SettingsInOrder,
           code = 404 => RouteOf[r] = "mirror" /\ ~env.mirrorSecret
    PROVE  Inv'
<1>1. /\ \A q \in Requests : worker'[q] = IF q = r THEN "done" ELSE worker[q]
      /\ \A q \in Requests : reply'[q] = IF q = r THEN code ELSE reply[q]
    BY DEF Inv, WorkerTypeOK, Answer, Goto
<1>2. WorkerTypeOK'
    BY DEF Inv, WorkerTypeOK, Answer, Goto, processVars
<1>3. HandledOnce'
    BY <1>1 DEF Inv, HandledOnce
<1>4. AnsweredBySetUp'
    BY <1>1 DEF Inv, AnsweredBySetUp, SettingsInOrder
<1>5. Given'
    BY <1>1 DEF Inv, Given, BeforeFetch, processVars
<1>6. SetUp'
    BY DEF Inv, SetUp, SettingsInOrder, RegisteredRoutes, processVars
<1> QED
    BY <1>2, <1>3, <1>4, <1>5, <1>6 DEF Inv

(* Every step keeps the invariant: one case per action. *)
LEMMA NextInv == Inv /\ [WorkerNext]_workerVars => Inv'
<1> SUFFICES ASSUME Inv, [WorkerNext]_workerVars PROVE Inv'
    OBVIOUS
<1> USE DEF processVars
<1>1. ASSUME NEW r \in Requests, Arrive(r) PROVE Inv'
    <2>1. /\ worker[r] \in BeforeFetch /\ "asking" \in BeforeFetch
          /\ status' \in {"stopped", "running", "healthy"}
        BY <1>1 DEF Arrive, BeforeFetch, Inv, WorkerTypeOK
    <2> QED
        BY <1>1, <2>1, MoveInv DEF Arrive
<1>2. ASSUME NEW r \in Requests, GetState(r) PROVE Inv'
    <2> DEFINE stage == IF status = "healthy" THEN "fetching" ELSE "starting"
    <2>1. /\ worker[r] \in BeforeFetch /\ stage \in BeforeFetch
          /\ status' \in {"stopped", "running", "healthy"}
        BY <1>2 DEF GetState, BeforeFetch, Inv, WorkerTypeOK
    <2>2. Goto(r, stage) /\ UNCHANGED <<env, process, routes, handled, reply>>
        BY <1>2 DEF GetState
    <2> HIDE DEF stage
    <2> QED
        BY <2>1, <2>2, MoveInv
<1>3. ASSUME NEW r \in Requests, PortsReady(r) PROVE Inv'
    <2>1. /\ worker[r] \in BeforeFetch /\ "fetching" \in BeforeFetch
          /\ status' \in {"stopped", "running", "healthy"}
        BY <1>3 DEF PortsReady, BeforeFetch
    <2> QED
        BY <1>3, <2>1, MoveInv DEF PortsReady
<1>4. ASSUME NEW r \in Requests, StartProcess(r) PROVE Inv'
    <2>1. \A q \in Requests : worker[q] # "handling"
        BY <1>4 DEF StartProcess, Inv, Given
    <2>2. SetUp'
        BY <1>4 DEF StartProcess, SetUp
    <2> QED
        BY <1>4, <2>1, <2>2, ProcessInv DEF StartProcess, Inv, WorkerTypeOK
<1>5. ASSUME NEW r \in Requests, Fetch(r) PROVE Inv'
    <2>1. /\ \A q \in Requests : worker'[q] = IF q = r THEN "handling" ELSE worker[q]
          /\ \A q \in Requests : handled'[q] = IF q = r THEN 1 ELSE handled[q]
          /\ reply[r] = 0
        BY <1>5 DEF Fetch, Goto, Inv, WorkerTypeOK, Given, BeforeFetch
    <2>2. WorkerTypeOK'
        BY <1>5 DEF Fetch, Goto, Inv, WorkerTypeOK, Waiting
    <2>3. HandledOnce' /\ AnsweredBySetUp'
        BY <1>5, <2>1 DEF Fetch, Inv, HandledOnce, AnsweredBySetUp
    <2>4. Given'
        BY <1>5, <2>1 DEF Fetch, Inv, Given, BeforeFetch
    <2>5. SetUp'
        BY <1>5 DEF Fetch, Inv, SetUp, SettingsInOrder, RegisteredRoutes
    <2> QED
        BY <2>2, <2>3, <2>4, <2>5 DEF Inv
<1>6. ASSUME NEW r \in Requests, Respond(r) PROVE Inv'
    <2> DEFINE code == IF RouteOf[r] \in routes THEN 200 ELSE 404
    <2>1. handled[r] = 1 /\ SettingsInOrder /\ routes = RegisteredRoutes
        BY <1>6 DEF Respond, Inv, Given, SetUp
    <2>2. code = 404 => RouteOf[r] = "mirror" /\ ~env.mirrorSecret
        BY <2>1, RouteAssumption DEF RegisteredRoutes, Routes
    <2>3. /\ code \in {200, 404, 502} /\ worker[r] \in Waiting
          /\ Answer(r, code) /\ UNCHANGED <<env, processVars, handled>>
        BY <1>6 DEF Respond, Waiting
    <2> HIDE DEF code
    <2> QED
        BY <2>1, <2>2, <2>3, AnswerInv
<1>7. ASSUME NEW r \in Requests, Catch(r) PROVE Inv'
    BY <1>7, AnswerInv DEF Catch
<1>8. CASE Register
    <2>1. \A q \in Requests : worker[q] # "handling"
        BY <1>8 DEF Register, Inv, Given
    <2>2. routes' \subseteq Routes
        <3>1. RegisteredRoutes \subseteq Routes
            BY Z3 DEF RegisteredRoutes, Routes
        <3>2. routes' \in {routes, RegisteredRoutes}
            BY <1>8 DEF Register
        <3> QED
            BY <3>1, <3>2 DEF Inv, WorkerTypeOK
    <2>3. SetUp'
        BY <1>8 DEF Register, SetUp, SettingsInOrder, RegisteredRoutes
    <2> QED
        BY <1>8, <2>1, <2>2, <2>3, ProcessInv DEF Register, Inv, WorkerTypeOK
<1>9. CASE Listen
    <2>1. \A q \in Requests : worker[q] # "handling"
        BY <1>9 DEF Listen, Inv, Given
    <2>2. SetUp'
        BY <1>9 DEF Listen, Inv, SetUp, SettingsInOrder, RegisteredRoutes
    <2> QED
        BY <1>9, <2>1, <2>2, ProcessInv DEF Listen, Inv, WorkerTypeOK
<1>10. CASE ProcessEnds
    <2>1. worker' \in [Requests -> Waiting \cup {"idle", "done"}]
        BY <1>10 DEF ProcessEnds, Inv, WorkerTypeOK, Waiting
    <2>2. \A q \in Requests :
              worker'[q] = IF worker[q] = "handling" THEN "lost" ELSE worker[q]
        BY <1>10 DEF ProcessEnds
    <2>3. SetUp'
        BY <1>10 DEF ProcessEnds, SetUp
    <2>4. \A q \in Requests :
              /\ worker'[q] \in BeforeFetch => worker[q] \in BeforeFetch
              /\ worker'[q] # "handling"
              /\ worker'[q] = "done" <=> worker[q] = "done"
        BY <2>2 DEF BeforeFetch
    <2> QED
        BY <1>10, <2>1, <2>3, <2>4, ProcessInv DEF ProcessEnds, Inv, WorkerTypeOK
<1>11. CASE NoticeStop
    <2>1. SetUp'
        BY <1>11 DEF NoticeStop, SetUp
    <2>2. \A q \in Requests : worker[q] # "handling"
        BY <1>11 DEF NoticeStop, Inv, Given
    <2> QED
        BY <1>11, <2>1, <2>2, ProcessInv DEF NoticeStop, Inv, WorkerTypeOK
<1>12. CASE UNCHANGED workerVars
    BY <1>12 DEF workerVars, Inv, WorkerTypeOK, HandledOnce, AnsweredBySetUp, Given, SetUp,
                 SettingsInOrder, RegisteredRoutes
<1> QED
    BY <1>1, <1>2, <1>3, <1>4, <1>5, <1>6, <1>7, <1>8, <1>9, <1>10, <1>11, <1>12
    DEF WorkerNext, Progress

(* However the container stops and starts under the requests, the invariant  *)
(* of index.ts and server.ts holds.                                          *)
THEOREM Invariance == WorkerSpec => []Inv
BY InitInv, NextInv, PTL DEF WorkerSpec

(* No request is given to the process twice, and only those given to it get  *)
(* a route's answer (index.ts, fetch).                                       *)
THEOREM NeverTwice == WorkerSpec => []HandledOnce
<1>1. Inv => HandledOnce
    BY DEF Inv
<1> QED
    BY <1>1, Invariance, PTL

(* Only a process with its settings in order and all its routes registered   *)
(* answers (server.ts, main).                                                *)
THEOREM SetUpFirst == WorkerSpec => []AnsweredBySetUp
<1>1. Inv => AnsweredBySetUp
    BY DEF Inv
<1> QED
    BY <1>1, Invariance, PTL

(* Every variable keeps its type. *)
THEOREM TypeCorrect == WorkerSpec => []WorkerTypeOK
<1>1. Inv => WorkerTypeOK
    BY DEF Inv
<1> QED
    BY <1>1, Invariance, PTL
=============================================================================
