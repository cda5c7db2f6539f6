---------------------------- MODULE LibClient_proof ----------------------------
(***************************************************************************)
(* What the client library keeps, however many sessions follow one         *)
(* another, whichever way each is begun and whichever of its calls fail.   *)
(***************************************************************************)
EXTENDS LibClient, FiniteSetTheorems, TLAPS

Handles == Sessions \cup {App}

\* Where the application's call has got to, and what it has made by then.
SessionInv ==
    /\ pc \in {"registering", "creating", "attaching", "calling"} => session \in Sessions
    /\ pc \in {"creating", "attaching", "calling"} => gServiceHandle # None
    /\ pc = "creating" => gMainLoop = None

\* No loop is used again once the reference to it was dropped.
LoopInv ==
    /\ \A l \in released : l <= session
    /\ gMainLoop \in Sessions => gMainLoop <= session
    /\ pc \in {"registering", "creating"} => session \notin released

\* The handles whose calls are not the library's to end, or no longer.
Exempt == left \cup {App}

\* What there is on the library's handles is on the one in use, and the one
\* subscription to the status is the one it has the token of.
CallsInv ==
    /\ \A c \in statusCalls : c.handle \notin Exempt =>
          c.handle = gServiceHandle /\ (~c.stray => c.token = helper_token)
    /\ watching \subseteq Exempt \cup {gServiceHandle}
    /\ identifying \subseteq Exempt \cup {gServiceHandle}

\* Once it has been unregistered there is nothing on that one either.
DroppingInv == pc = "dropping" => NoCallsOn({gServiceHandle} \ Exempt)

IInv == TypeOK /\ SessionInv /\ LoopInv /\ OwnershipIsKnown /\ CallsInv /\ DroppingInv

LEMMA Constants ==
    /\ App \notin Sessions /\ None \notin Sessions /\ App # None
    /\ \A s \in Sessions : s \in Nat /\ s # 0
    /\ MaxSessions \in Nat
  BY BoundsAssumption DEF Sessions, App, None

LEMMA IInvInit == Init => IInv
  <1> SUFFICES ASSUME Init PROVE IInv
    OBVIOUS
  <1>1. session \in 0..MaxSessions /\ helper_token \in 0..MaxTokens
    BY BoundsAssumption DEF Init
  <1>2. attached \in [Sessions \cup {App} -> Sessions \cup {App, None}]
    BY DEF Init
  <1>3. TypeOK
    BY <1>1, <1>2 DEF Init, TypeOK
  <1>4. SessionInv /\ LoopInv /\ CallsInv /\ DroppingInv
    BY Constants DEF Init, SessionInv, LoopInv, CallsInv, DroppingInv
  <1>5. OwnershipIsKnown
    BY Constants DEF Init, OwnershipIsKnown
  <1> QED BY <1>3, <1>4, <1>5 DEF IInv

--------------------------------------------------------------------------------
(***************************************************************************)
(* Becoming a client.                                                      *)
(***************************************************************************)

\* The next session is one that no loop was made in.
LEMMA SessionBegins ==
    ASSUME IInv, BeginSession,
           \/ UNCHANGED <<gServiceHandle, gOwnLunaService>>
           \/ /\ gServiceHandle \in {None, App}
              /\ gServiceHandle' = App /\ gOwnLunaService' = TRUE
    PROVE  IInv'
  <1>1. session' = session + 1 /\ session \in 0..MaxSessions /\ session < MaxSessions
        /\ pc = "idle" /\ pc' = "registering"
    BY DEF BeginSession, IInv, TypeOK
  <1>2. session' \in Sessions /\ session' \in 0..MaxSessions /\ session < session'
    BY <1>1, BoundsAssumption DEF Sessions
  <1>3. TypeOK'
    BY <1>1, <1>2 DEF BeginSession, IInv, TypeOK, globals, loopVars, busVars
  <1>4. SessionInv'
    BY <1>1, <1>2 DEF SessionInv
  <1>5. LoopInv'
    <2>1. \A l \in released : l \in Sessions /\ l <= session
      BY DEF IInv, TypeOK, LoopInv
    <2>2. \A l \in Sessions : l <= session => l <= session' /\ l # session'
      BY <1>1, Constants
    <2>3. released' = released /\ gMainLoop' = gMainLoop
      BY DEF BeginSession, loopVars
    <2> QED BY <2>1, <2>2, <2>3 DEF IInv, LoopInv
  <1>6. OwnershipIsKnown' /\ CallsInv' /\ DroppingInv'
    <2>1. UNCHANGED <<gMainLoop, gOwnMainLoop, helper_token, statusCalls, watching, identifying, left>>
      BY DEF BeginSession, busVars
    <2>2. OwnershipIsKnown' /\ DroppingInv'
      BY <1>1, <2>1, Constants DEF IInv, OwnershipIsKnown, DroppingInv
    <2>3. CallsInv'
      BY <2>1, Constants DEF IInv, TypeOK, StatusCall, CallsInv, Exempt
    <2> QED BY <2>2, <2>3
  <1> QED BY <1>3, <1>4, <1>5, <1>6 DEF IInv

LEMMA RegisterHandleKeeps ==
    ASSUME IInv, RegisterHandle
    PROVE  IInv'
  <1> USE DEF IInv, RegisterHandle, loopVars, busVars
  <1>1. session \in Sessions
    BY DEF SessionInv
  <1>2. TypeOK'
    BY <1>1 DEF TypeOK
  <1>3. SessionInv'
    BY <1>1, Constants DEF SessionInv
  <1>4. LoopInv'
    BY DEF LoopInv
  <1>5. OwnershipIsKnown'
    BY <1>1, Constants DEF OwnershipIsKnown
  <1>6. CallsInv' /\ DroppingInv'
    BY Constants DEF TypeOK, StatusCall, CallsInv, DroppingInv, Exempt
  <1> QED BY <1>2, <1>3, <1>4, <1>5, <1>6

LEMMA CreateLoopKeeps ==
    ASSUME IInv, CreateLoopAndThread
    PROVE  IInv'
  <1> USE DEF IInv, CreateLoopAndThread, busVars
  <1>1. session \in Sessions /\ session \in Nat /\ session \notin released
    BY Constants DEF SessionInv, LoopInv
  <1>2. TypeOK'
    BY <1>1 DEF TypeOK
  <1>3. SessionInv' /\ LoopInv'
    BY <1>1 DEF SessionInv, LoopInv
  <1>4. OwnershipIsKnown'
    BY <1>1, Constants DEF OwnershipIsKnown, SessionInv
  <1>5. CallsInv' /\ DroppingInv'
    BY DEF CallsInv, DroppingInv, Exempt
  <1> QED BY <1>2, <1>3, <1>4, <1>5

LEMMA AttachLoopKeeps ==
    ASSUME IInv, AttachLoop
    PROVE  IInv'
  <1> USE DEF IInv, AttachLoop, globals, loopVars
  <1>1. gServiceHandle \in Sessions \cup {App}
    BY DEF TypeOK, SessionInv
  <1>2. TypeOK'
    BY <1>1 DEF TypeOK
  <1>3. SessionInv' /\ LoopInv'
    BY DEF SessionInv, LoopInv
  <1>4. OwnershipIsKnown' /\ CallsInv' /\ DroppingInv'
    BY DEF OwnershipIsKnown, CallsInv, DroppingInv, NoCallsOn, Exempt
  <1> QED BY <1>2, <1>3, <1>4

LEMMA CallKeeps ==
    ASSUME IInv, CallRegisterServerStatus
    PROVE  IInv'
  <1> USE DEF IInv, CallRegisterServerStatus, globals, loopVars
  <1>1. gServiceHandle \in Sessions \cup {App}
    BY DEF TypeOK, SessionInv
  <1>2. TypeOK'
    BY <1>1 DEF TypeOK
  <1>3. SessionInv' /\ LoopInv'
    BY DEF SessionInv, LoopInv
  <1>4. OwnershipIsKnown' /\ CallsInv' /\ DroppingInv'
    BY DEF OwnershipIsKnown, CallsInv, DroppingInv, NoCallsOn, Exempt
  <1> QED BY <1>2, <1>3, <1>4

LEMMA ClientInitKeeps ==
    ASSUME IInv, BatterydClientInit \/ BatterydClientInitLunaService
    PROVE  IInv'
  BY SessionBegins DEF BatterydClientInit, BatterydClientInitLunaService

LEMMA GmainAttachKeeps ==
    ASSUME IInv, BatterydGmainAttach
    PROVE  IInv'
  <1> USE DEF IInv, BatterydGmainAttach, loopVars, busVars
  <1>1. TypeOK'
    BY Constants DEF TypeOK
  <1>2. SessionInv' /\ LoopInv'
    BY Constants DEF SessionInv, LoopInv
  <1>3. OwnershipIsKnown' /\ CallsInv' /\ DroppingInv'
    BY Constants DEF OwnershipIsKnown, CallsInv, DroppingInv, NoCallsOn, Exempt
  <1> QED BY <1>1, <1>2, <1>3

--------------------------------------------------------------------------------
(***************************************************************************)
(* The subscription to the status.                                         *)
(***************************************************************************)

\* Whether or not the earlier subscription could be cancelled, what is left is
\* the application's own calls, stray ones, and those on handles given up.
LEMMA CancelLeaves ==
    ASSUME IInv, NEW remaining \in SignalCancel
    PROVE  /\ remaining \subseteq StatusCall
           /\ \A c \in remaining : c.handle \notin Exempt => c.stray /\ c.handle = gServiceHandle
  <1> DEFINE strays == {[c EXCEPT !.stray = TRUE] : c \in Cancelled}
  <1>1. statusCalls \subseteq StatusCall
    BY DEF IInv, TypeOK
  <1>2. \A c \in strays : c \in StatusCall /\ c.stray /\ c.handle = gServiceHandle
    BY <1>1 DEF Cancelled, StatusCall
  <1>3. \A c \in statusCalls \ Cancelled :
           c.handle \notin Exempt => c.stray /\ c.handle = gServiceHandle
    BY <1>1 DEF IInv, CallsInv, Cancelled, StatusCall
  <1>4. remaining \subseteq (statusCalls \ Cancelled) \cup strays
    BY DEF SignalCancel
  <1> HIDE DEF strays
  <1> QED BY <1>1, <1>2, <1>3, <1>4

LEMMA StatusRegisterKeeps ==
    ASSUME IInv, BatterydBatteryStatusRegister
    PROVE  IInv'
  <1>1. UNCHANGED <<pc, session, globals, clientId, loopVars,
                    attached, watching, identifying, left>> /\ pc = "idle"
    BY DEF BatterydBatteryStatusRegister
  <1>2. PICK remaining \in SignalCancel : SignalRegister(remaining)
    BY DEF BatterydBatteryStatusRegister
  <1>3. /\ remaining \subseteq StatusCall
        /\ \A c \in remaining : c.handle \notin Exempt => c.stray /\ c.handle = gServiceHandle
    BY <1>2, CancelLeaves
  <1>4. /\ helper_token' \in 0..MaxTokens
        /\ \/ statusCalls' = remaining
           \/ /\ gServiceHandle # None /\ helper_token' \in 1..MaxTokens
              /\ statusCalls' = remaining \cup
                    {[token |-> helper_token', handle |-> gServiceHandle, stray |-> FALSE]}
    BY <1>2, BoundsAssumption DEF SignalRegister
  <1>5. statusCalls' \subseteq StatusCall
    <2>1. CASE statusCalls' = remaining
      BY <1>3, <2>1
    <2>2. CASE /\ gServiceHandle # None /\ helper_token' \in 1..MaxTokens
               /\ statusCalls' = remaining \cup
                     {[token |-> helper_token', handle |-> gServiceHandle, stray |-> FALSE]}
      <3>1. gServiceHandle \in Sessions \cup {App}
        BY <2>2 DEF IInv, TypeOK
      <3>2. [token |-> helper_token', handle |-> gServiceHandle, stray |-> FALSE] \in StatusCall
        BY <2>2, <3>1 DEF StatusCall
      <3> QED BY <1>3, <2>2, <3>2
    <2> QED BY <1>4, <2>1, <2>2
  <1>6. \A c \in statusCalls' : c.handle \notin Exempt =>
           c.handle = gServiceHandle /\ (~c.stray => c.token = helper_token')
    BY <1>3, <1>4
  <1>7. TypeOK'
    BY <1>1, <1>4, <1>5 DEF IInv, TypeOK, globals, loopVars
  <1>8. CallsInv' /\ DroppingInv'
    BY <1>1, <1>6 DEF IInv, CallsInv, DroppingInv, Exempt, globals
  <1> QED
    BY <1>1, <1>7, <1>8 DEF IInv, SessionInv, LoopInv, OwnershipIsKnown, globals, loopVars

--------------------------------------------------------------------------------
(***************************************************************************)
(* Ceasing to be a client.                                                 *)
(***************************************************************************)

LEMMA QuitKeeps ==
    ASSUME IInv, BatterydClientDeinit \/ QuitLoop
    PROVE  IInv'
  <1> USE DEF IInv, BatterydClientDeinit, QuitLoop, globals, loopVars, busVars
  <1>1. TypeOK'
    BY DEF TypeOK
  <1>2. SessionInv' /\ LoopInv'
    BY DEF SessionInv, LoopInv
  <1>3. OwnershipIsKnown' /\ CallsInv' /\ DroppingInv'
    BY DEF OwnershipIsKnown, CallsInv, DroppingInv, NoCallsOn, Exempt
  <1> QED BY <1>1, <1>2, <1>3

LEMMA ForgetLoopKeeps ==
    ASSUME IInv, ForgetLoop
    PROVE  IInv'
  <1> USE DEF IInv, ForgetLoop, busVars
  <1>1. TypeOK'
    BY Constants DEF TypeOK
  <1>2. SessionInv' /\ LoopInv'
    BY Constants DEF SessionInv, LoopInv
  <1>3. OwnershipIsKnown' /\ CallsInv' /\ DroppingInv'
    BY Constants DEF OwnershipIsKnown, CallsInv, DroppingInv, NoCallsOn, Exempt
  <1> QED BY <1>1, <1>2, <1>3

LEMMA UnregisterKeeps ==
    ASSUME IInv, UnregisterHandle
    PROVE  IInv'
  <1>1. /\ pc = "unregistering" /\ pc' = "dropping"
        /\ UNCHANGED <<session, globals, clientId, helper_token, loopVars>>
    BY DEF UnregisterHandle
  <1>2. SessionInv' /\ LoopInv' /\ OwnershipIsKnown'
    BY <1>1 DEF IInv, SessionInv, LoopInv, OwnershipIsKnown, globals, loopVars
  <1>3. CASE /\ Unregisters
             /\ attached' = [attached EXCEPT ![gServiceHandle] = None]
             /\ statusCalls' = {c \in statusCalls : c.handle # gServiceHandle}
             /\ watching' = watching \ {gServiceHandle}
             /\ identifying' = identifying \ {gServiceHandle}
             /\ UNCHANGED left
    <2>1. TypeOK'
      BY <1>1, <1>3 DEF IInv, TypeOK, globals, loopVars
    <2>2. CallsInv' /\ DroppingInv'
      BY <1>1, <1>3 DEF IInv, CallsInv, DroppingInv, NoCallsOn, Exempt, globals
    <2> QED BY <1>2, <2>1, <2>2 DEF IInv
  <1>4. CASE /\ Unregisters
             /\ left' = left \cup {gServiceHandle}
             /\ UNCHANGED <<attached, statusCalls, watching, identifying>>
    <2>1. gServiceHandle \in Sessions
      BY <1>4, Constants DEF IInv, TypeOK, OwnershipIsKnown, Unregisters
    <2>2. TypeOK'
      BY <1>1, <1>4, <2>1 DEF IInv, TypeOK, globals, loopVars
    <2>3. CallsInv' /\ DroppingInv'
      BY <1>1, <1>4 DEF IInv, CallsInv, DroppingInv, NoCallsOn, Exempt, globals
    <2> QED BY <1>2, <2>2, <2>3 DEF IInv
  <1>5. CASE ~Unregisters /\ UNCHANGED busVars
    <2>1. gServiceHandle \in {None, App}
      BY <1>5 DEF IInv, OwnershipIsKnown, Unregisters
    <2>2. TypeOK'
      BY <1>1, <1>5 DEF IInv, TypeOK, globals, loopVars, busVars
    <2>3. CallsInv'
      BY <1>1, <1>5 DEF IInv, CallsInv, Exempt, globals, busVars
    <2>4. DroppingInv'
      BY <1>1, <1>5, <2>1, Constants
      DEF IInv, TypeOK, StatusCall, DroppingInv, NoCallsOn, Exempt, globals, busVars
    <2> QED BY <1>2, <2>2, <2>3, <2>4 DEF IInv
  <1> QED BY <1>3, <1>4, <1>5 DEF UnregisterHandle

LEMMA ForgetHandleKeeps ==
    ASSUME IInv, ForgetHandle
    PROVE  IInv'
  <1> USE DEF IInv, ForgetHandle, loopVars, busVars
  <1>1. TypeOK'
    BY Constants DEF TypeOK
  <1>2. SessionInv' /\ LoopInv'
    BY Constants DEF SessionInv, LoopInv
  <1>3. OwnershipIsKnown' /\ DroppingInv'
    BY Constants DEF OwnershipIsKnown, DroppingInv
  <1>4. CallsInv'
    BY DEF CallsInv, DroppingInv, NoCallsOn, Exempt
  <1> QED BY <1>1, <1>2, <1>3, <1>4

--------------------------------------------------------------------------------
(***************************************************************************)
(* Threads, callbacks and batteryd.                                        *)
(***************************************************************************)

LEMMA ThreadKeeps ==
    ASSUME IInv, NEW s \in Sessions, ThreadStarts(s) \/ ThreadRuns(s) \/ ThreadEnds(s)
    PROVE  IInv'
  <1>1. /\ UNCHANGED <<pc, session, globals, clientId, helper_token, target, released, busVars>>
        /\ \/ UNCHANGED runs
           \/ runs' = [runs EXCEPT ![s] = gMainLoop]
        /\ \E t \in {"entering", "running", "ended"} : thread' = [thread EXCEPT ![s] = t]
        /\ \/ UNCHANGED is_running
           \/ is_running' = [l \in Sessions |-> is_running[l] \/ l = runs[s]]
    BY DEF ThreadStarts, ThreadRuns, ThreadEnds
  <1>2. TypeOK'
    <2>1. runs' \in [Sessions -> Sessions \cup {App, None}]
      BY <1>1 DEF IInv, TypeOK
    <2>2. thread' \in [Sessions -> {"none", "created", "entering", "ended"} \cup InLoop]
      BY <1>1 DEF IInv, TypeOK, InLoop
    <2>3. is_running' \in [Sessions -> BOOLEAN]
      <3>1. is_running \in [Sessions -> BOOLEAN]
        BY DEF IInv, TypeOK
      <3>2. CASE UNCHANGED is_running
        BY <3>1, <3>2
      <3>3. CASE is_running' = [l \in Sessions |-> is_running[l] \/ l = runs[s]]
        <4>1. \A l \in Sessions : (is_running[l] \/ l = runs[s]) \in BOOLEAN
          OBVIOUS
        <4> QED
          BY <3>3, <4>1
      <3> QED
        BY <1>1, <3>2, <3>3
    <2> QED
      BY <1>1, <2>1, <2>2, <2>3 DEF IInv, TypeOK, globals, busVars
  <1>3. SessionInv' /\ LoopInv'
    BY <1>1 DEF IInv, SessionInv, LoopInv, globals
  <1>4. OwnershipIsKnown' /\ CallsInv' /\ DroppingInv'
    BY <1>1 DEF IInv, OwnershipIsKnown, CallsInv, DroppingInv, NoCallsOn, Exempt, globals, busVars
  <1> QED BY <1>2, <1>3, <1>4 DEF IInv

\* A call on whatever handle a callback has looked up is one on the handle in
\* use, or on the application's, or makes its handle one that was left.
LEMMA SendMessageKeeps ==
    ASSUME IInv, NEW sh \in Sessions \cup {App, None}, SendMessage(sh),
           UNCHANGED <<pc, globals, helper_token, statusCalls, watching>>
    PROVE  /\ identifying' \subseteq Sessions \cup {App}
           /\ left' \subseteq Sessions
           /\ CallsInv' /\ DroppingInv'
  <1> USE DEF IInv, TypeOK, CallsInv, DroppingInv, NoCallsOn, Exempt, globals
  <1>1. CASE /\ sh # None
             /\ identifying' = identifying \cup {sh}
             /\ left' = IF GivenUp(sh) THEN left \cup {sh} ELSE left
    <2>1. CASE GivenUp(sh)
      BY <1>1, <2>1 DEF GivenUp
    <2>2. CASE ~GivenUp(sh)
      <3>1. sh = App \/ (sh = gServiceHandle /\ pc # "dropping")
        BY <1>1, <2>2 DEF GivenUp
      <3> QED BY <1>1, <2>2, <3>1
    <2> QED BY <2>1, <2>2
  <1>2. CASE UNCHANGED <<identifying, left>>
    BY <1>2
  <1> QED BY <1>1, <1>2 DEF SendMessage

\* The three steps of _batteryd_server_up() on a thread of the library's.
LEMMA ThreadCallbackKeeps ==
    ASSUME IInv, NEW s \in Sessions,
           \/ \E h \in Sessions \cup {App} : ServerUpBegins(s, h)
           \/ LookUpHandle(s)
           \/ SendIdentify(s)
    PROVE  IInv'
  <1>1. /\ UNCHANGED <<pc, session, globals, clientId, helper_token, runs, is_running,
                       released, attached, statusCalls, watching>>
        /\ \E t \in InLoop : thread' = [thread EXCEPT ![s] = t]
        /\ \E sh \in {None, gServiceHandle, target[s]} : target' = [target EXCEPT ![s] = sh]
    <2>1. \A h \in Sessions \cup {App} : ServerUpBegins(s, h) => target' = [target EXCEPT ![s] = target[s]]
      BY DEF ServerUpBegins, IInv, TypeOK
    <2> QED BY <2>1 DEF ServerUpBegins, LookUpHandle, SendIdentify, InLoop, busVars
  <1>2. target[s] \in Sessions \cup {App, None}
    BY DEF IInv, TypeOK
  <1>3. /\ identifying' \subseteq Sessions \cup {App}
        /\ left' \subseteq Sessions
        /\ CallsInv' /\ DroppingInv'
    <2>1. CASE SendIdentify(s)
      BY <1>1, <1>2, <2>1, SendMessageKeeps DEF SendIdentify
    <2>2. CASE UNCHANGED <<identifying, left>>
      BY <1>1, <2>2 DEF IInv, TypeOK, CallsInv, DroppingInv, NoCallsOn, Exempt, globals
    <2> QED BY <2>1, <2>2 DEF ServerUpBegins, LookUpHandle, busVars
  <1>4. thread' \in [Sessions -> {"none", "created", "entering", "ended"} \cup InLoop]
        /\ target' \in [Sessions -> Sessions \cup {App, None}]
    BY <1>1, <1>2 DEF IInv, TypeOK
  <1>5. TypeOK'
    BY <1>1, <1>3, <1>4 DEF IInv, TypeOK, globals
  <1>6. SessionInv' /\ LoopInv' /\ OwnershipIsKnown'
    BY <1>1 DEF IInv, SessionInv, LoopInv, OwnershipIsKnown, globals
  <1> QED BY <1>3, <1>5, <1>6 DEF IInv

\* On the application's thread the three are one step.
LEMMA ServerUpKeeps ==
    ASSUME IInv, NEW h \in Sessions \cup {App}, _batteryd_server_up(h)
    PROVE  IInv'
  <1>1. /\ UNCHANGED <<pc, session, globals, clientId, helper_token, loopVars,
                       attached, statusCalls, watching>>
        /\ SendMessage(gServiceHandle)
    BY DEF _batteryd_server_up
  <1>2. gServiceHandle \in Sessions \cup {App, None}
    BY DEF IInv, TypeOK
  <1>3. /\ identifying' \subseteq Sessions \cup {App}
        /\ left' \subseteq Sessions
        /\ CallsInv' /\ DroppingInv'
    BY <1>1, <1>2, SendMessageKeeps
  <1>4. TypeOK'
    BY <1>1, <1>3 DEF IInv, TypeOK, globals, loopVars
  <1>5. SessionInv' /\ LoopInv' /\ OwnershipIsKnown'
    BY <1>1 DEF IInv, SessionInv, LoopInv, OwnershipIsKnown, globals, loopVars
  <1> QED BY <1>3, <1>4, <1>5 DEF IInv

LEMMA IdentifyKeeps ==
    ASSUME IInv, NEW h \in Sessions \cup {App}, _identify_callback(h) \/ UNCHANGED vars
    PROVE  IInv'
  <1> USE DEF IInv, _identify_callback, vars, globals, loopVars, busVars
  <1>1. TypeOK'
    BY DEF TypeOK
  <1>2. SessionInv' /\ LoopInv'
    BY DEF SessionInv, LoopInv
  <1>3. OwnershipIsKnown' /\ CallsInv' /\ DroppingInv'
    BY DEF OwnershipIsKnown, CallsInv, DroppingInv, NoCallsOn, Exempt
  <1> QED BY <1>1, <1>2, <1>3

\* However sessions, threads and callbacks interleave, each step of the library
\* keeps its books (BatterydClientInit,
\* BatterydClientDeinit, _BatterydClientIPCRun).
THEOREM ClientInvHolds == Spec => []IInv
  <1>1. IInv /\ [Next]_vars => IInv'
    BY ClientInitKeeps, RegisterHandleKeeps, CreateLoopKeeps, AttachLoopKeeps, CallKeeps,
       GmainAttachKeeps, StatusRegisterKeeps, QuitKeeps, ForgetLoopKeeps, UnregisterKeeps,
       ForgetHandleKeeps, ThreadKeeps, ThreadCallbackKeeps, ServerUpKeeps, IdentifyKeeps
    DEF Next, ClientStep, ThreadStep, Callback
  <1> QED BY <1>1, IInvInit, PTL DEF Spec

\* What init.c and commands.c keep in their static variables is always a loop, a
\* handle and a token that they made or were given, or none, and the loop in use
\* is not one that they have dropped.
THEOREM ClientTypes == Spec => []TypeOK
  BY ClientInvHolds, PTL DEF IInv

\* The library knows whether the loop and the handle in use are the application's
\* (BatterydGmainAttach, BatterydClientInitLunaService, _BatterydClientIPCRun), for
\* any number of sessions of either kind.
THEOREM OwnershipHolds == Spec => []OwnershipIsKnown
  BY ClientInvHolds, PTL DEF IInv

\* Once the application has ceased to be a client (BatterydClientDeinit), no call of
\* any session is left on a handle that the library has made, wherever in
\* _batteryd_server_up() its threads are, except on those that LSUnregister() failed
\* on and those that such a callback called on after they were unregistered
\* (commands.c:425-432, :130).
THEOREM OwnCallsHaveEnded == Spec => []OwnCallsEnd
  <1>1. IInv => OwnCallsEnd
    BY Constants
    DEF IInv, TypeOK, StatusCall, CallsInv, Exempt, OwnCallsEnd, Disconnected, IsClient, NoCallsOn
  <1> QED BY <1>1, ClientInvHolds, PTL

\* On the handles that the library has made and not failed to unregister, there are
\* never two subscriptions to the battery's status that it has not tried to cancel
\* (SignalRegister, SignalCancel), for any number of sessions and of tokens the bus
\* may give.
THEOREM StatusComesOnce == Spec => []OneStatusSubscription
  <1> DEFINE own == {c \in statusCalls : ~c.stray /\ c.handle \notin left \cup {App}}
             it == [token |-> helper_token, handle |-> gServiceHandle, stray |-> FALSE]
  <1>1. IInv => own \subseteq {it}
    BY DEF IInv, TypeOK, StatusCall, CallsInv, Exempt
  <1>2. own \subseteq {it} => Cardinality(own) <= 1
    <2> HIDE DEF own, it
    <2>1. IsFiniteSet({it}) /\ Cardinality({it}) = 1
      BY FS_Singleton
    <2> QED BY <2>1, FS_Subset
  <1>3. IInv => OneStatusSubscription
    BY <1>1, <1>2 DEF OneStatusSubscription
  <1> QED BY <1>3, ClientInvHolds, PTL
================================================================================
