------------------------------- MODULE LibClient -------------------------------
(***************************************************************************)
(* The client library (src/libbatteryd/init.c and commands.c): how an      *)
(* application becomes a client of batteryd, is told of its battery, and   *)
(* stops being one.                                                        *)
(*                                                                         *)
(* The application may bring its own main loop or its own bus handle;      *)
(* otherwise the library makes them, and a detached thread to run the      *)
(* loop.  That thread, the callbacks it runs, and the application's calls  *)
(* interleave; no lock is taken by either.                                 *)
(***************************************************************************)
EXTENDS Integers, FiniteSets

CONSTANTS
    MaxSessions,    \* bound: how often the application becomes a client
    MaxTokens,      \* bound: subscriptions to the status alive at a time
    ClientInits,    \* the ways it does so: which of the two calls
    CallsMayFail    \* the bus may refuse calls, and the system a thread

ASSUME BoundsAssumption == MaxSessions \in Nat \ {0} /\ MaxTokens \in Nat \ {0}
ASSUME ClientInitsAssumption ==
    ClientInits \subseteq {"BatterydClientInit", "BatterydClientInitLunaService"}
ASSUME CallsAssumption == CallsMayFail \in BOOLEAN

\* Loops, threads and handles that the library makes are numbered by the session
\* that makes them; the application's own loop and handle are both App.
Sessions == 1..MaxSessions
App == 0
None == -1

VARIABLES
    pc,                 \* how far the application's call has got
    session,            \* how often it has become a client
    gMainLoop, gOwnMainLoop, gServiceHandle, gOwnLunaService,
    clientId,           \* batteryd has given the client an id
    helper_token,       \* of the last subscription to the status; 0 for none
    thread, runs,       \* per session: state of the thread, and its loop
    target,             \* per thread: the handle it is about to make a call on
    is_running,         \* per loop: it was told to run and not to quit
    released,           \* the loops the library has dropped its reference to
    attached,           \* per handle: the loop that serves it
    statusCalls,        \* live subscriptions to the battery's status
    watching,           \* the handles that are told when batteryd comes up
    identifying,        \* the handles an identify call is out on
    left                \* history: the handles LSUnregister() failed on, or a
                        \*   callback in progress made a call on after it

globals == <<gMainLoop, gOwnMainLoop, gServiceHandle, gOwnLunaService>>
loopVars == <<thread, runs, target, is_running, released>>
busVars == <<attached, statusCalls, watching, identifying, left>>
vars == <<pc, session, globals, clientId, helper_token, loopVars, busVars>>

\* A thread that runs a loop, and where it is in _batteryd_server_up(): about
\* to look up the handle, or to make the call on the one it has looked up.
InLoop == {"running", "notified", "calling"}

\* A subscription whose LSCallCancel() has failed is stray.
StatusCall == [token : 1..MaxTokens, handle : Sessions \cup {App}, stray : BOOLEAN]

TypeOK ==
    /\ pc \in {"idle", "registering", "creating", "attaching", "calling",
               "quitting", "forgetting", "unregistering", "dropping"}
    /\ session \in 0..MaxSessions
    /\ gMainLoop \in Sessions \cup {App, None}
    /\ gServiceHandle \in Sessions \cup {App, None}
    /\ gOwnMainLoop \in BOOLEAN
    /\ gOwnLunaService \in BOOLEAN
    /\ clientId \in BOOLEAN
    /\ helper_token \in 0..MaxTokens
    /\ thread \in [Sessions -> {"none", "created", "entering", "ended"} \cup InLoop]
    /\ runs \in [Sessions -> Sessions \cup {App, None}]
    /\ target \in [Sessions -> Sessions \cup {App, None}]
    /\ is_running \in [Sessions -> BOOLEAN]
    /\ released \subseteq Sessions \ {gMainLoop}
    /\ attached \in [Sessions \cup {App} -> Sessions \cup {App, None}]
    /\ statusCalls \subseteq StatusCall
    /\ watching \subseteq Sessions \cup {App}
    /\ identifying \subseteq Sessions \cup {App}
    /\ left \subseteq Sessions

Init ==
    /\ pc = "idle"
    /\ session = 0
    /\ gMainLoop = None /\ gOwnMainLoop = FALSE
    /\ gServiceHandle = None /\ gOwnLunaService = FALSE
    /\ clientId = FALSE
    /\ helper_token = 0
    /\ thread = [s \in Sessions |-> "none"]
    /\ runs = [s \in Sessions |-> None]
    /\ target = [s \in Sessions |-> None]
    /\ is_running = [s \in Sessions |-> FALSE]
    /\ released = {}
    /\ attached = [h \in Sessions \cup {App} |-> IF h = App THEN App ELSE None]
    /\ statusCalls = {} /\ watching = {} /\ identifying = {} /\ left = {}

--------------------------------------------------------------------------------
(***************************************************************************)
(* Becoming a client.                                                      *)
(***************************************************************************)

\* As documented, only before becoming a client.
BatterydGmainAttach ==
    /\ pc = "idle" /\ gServiceHandle = None
    /\ \/ gMainLoop' = App /\ gOwnMainLoop' = TRUE
       \/ gMainLoop' = None /\ gOwnMainLoop' = FALSE
    /\ UNCHANGED <<pc, session, gServiceHandle, gOwnLunaService, clientId, helper_token,
                   loopVars, busVars>>

\* BatterydHandleInit() and the call of _BatterydClientIPCRun().
BeginSession ==
    /\ pc = "idle"
    /\ session < MaxSessions
    /\ session' = session + 1
    /\ pc' = "registering"
    /\ clientId' = FALSE
    /\ UNCHANGED <<gMainLoop, gOwnMainLoop, helper_token, loopVars, busVars>>

BatterydClientInit ==
    /\ "BatterydClientInit" \in ClientInits
    /\ BeginSession
    /\ UNCHANGED <<gServiceHandle, gOwnLunaService>>

\* As documented, not with a handle of the library's.
BatterydClientInitLunaService ==
    /\ "BatterydClientInitLunaService" \in ClientInits
    /\ gServiceHandle \in {None, App}
    /\ BeginSession
    /\ gServiceHandle' = App /\ gOwnLunaService' = TRUE

\* A handle there is already is taken to be served already.
RegisterHandle ==
    /\ pc = "registering"
    /\ \/ /\ gServiceHandle # None
          /\ pc' = "calling"
          /\ UNCHANGED gServiceHandle
       \/ /\ gServiceHandle = None
          /\ gServiceHandle' = session
          /\ pc' = IF gMainLoop = None THEN "creating" ELSE "attaching"
       \/ /\ gServiceHandle = None /\ CallsMayFail
          /\ pc' = "idle"
          /\ UNCHANGED gServiceHandle
    /\ UNCHANGED <<session, gMainLoop, gOwnMainLoop, gOwnLunaService, clientId,
                   helper_token, loopVars, busVars>>

\* What pthread_create() returns is not looked at.
CreateLoopAndThread ==
    /\ pc = "creating"
    /\ pc' = "attaching"
    /\ gMainLoop' = session
    /\ \/ thread' = [thread EXCEPT ![session] = "created"]
       \/ CallsMayFail /\ UNCHANGED thread
    /\ UNCHANGED <<session, gOwnMainLoop, gServiceHandle, gOwnLunaService, clientId,
                   helper_token, runs, target, is_running, released, busVars>>

AttachLoop ==
    /\ pc = "attaching"
    /\ \/ /\ attached' = [attached EXCEPT ![gServiceHandle] = gMainLoop]
          /\ pc' = "calling"
       \/ /\ CallsMayFail
          /\ pc' = "idle"
          /\ UNCHANGED attached
    /\ UNCHANGED <<session, globals, clientId, helper_token, loopVars,
                   statusCalls, watching, identifying, left>>

CallRegisterServerStatus ==
    /\ pc = "calling"
    /\ pc' = "idle"
    /\ \/ /\ watching' = watching \cup {gServiceHandle}
       \/ /\ CallsMayFail
          /\ UNCHANGED watching
    /\ UNCHANGED <<session, globals, clientId, helper_token, loopVars,
                   attached, statusCalls, identifying, left>>

--------------------------------------------------------------------------------
(***************************************************************************)
(* BatterydBatteryStatusRegister().                                        *)
(***************************************************************************)

\* The one SignalCancel() is about: on the handle of now, which the token may
\* not be of.
Cancelled ==
    {c \in statusCalls : c.token = helper_token /\ c.handle = gServiceHandle}

\* What SignalCancel() may leave of the calls: its own failure is printed.
SignalCancel ==
    {statusCalls \ Cancelled}
    \cup IF CallsMayFail
           THEN {(statusCalls \ Cancelled)
                 \cup {[c EXCEPT !.stray = TRUE] : c \in Cancelled}}
           ELSE {}

\* SignalRegister(), after which these calls remain of the earlier ones.
SignalRegister(remaining) ==
    \/ \E t \in 1..MaxTokens :
          /\ gServiceHandle # None
          /\ \A c \in remaining : c.token # t
          /\ helper_token' = t
          /\ statusCalls' = remaining \cup
                {[token |-> t, handle |-> gServiceHandle, stray |-> FALSE]}
    \/ /\ gServiceHandle = None \/ CallsMayFail
       /\ helper_token' = 0
       /\ statusCalls' = remaining

\* Fault: the earlier subscription is not given up.
SubscribeAgain ==
    /\ pc = "idle"
    /\ SignalRegister(statusCalls)
    /\ UNCHANGED <<pc, session, globals, clientId, loopVars,
                   attached, watching, identifying, left>>

\* The token is zeroed whether or not the cancel has succeeded.
BatterydBatteryStatusRegister ==
    /\ pc = "idle"
    /\ \E remaining \in SignalCancel : SignalRegister(remaining)
    /\ UNCHANGED <<pc, session, globals, clientId, loopVars,
                   attached, watching, identifying, left>>

--------------------------------------------------------------------------------
(***************************************************************************)
(* Ceasing to be one.                                                      *)
(***************************************************************************)

BatterydClientDeinit ==
    /\ pc = "idle"
    /\ pc' = IF gMainLoop = None THEN "unregistering" ELSE "quitting"
    /\ clientId' = FALSE
    /\ UNCHANGED <<session, globals, helper_token, loopVars, busVars>>

\* An application's own loop goes on.  The library's is told to quit whether or
\* not its thread has come to run it.
QuitLoop ==
    /\ pc = "quitting"
    /\ pc' = "forgetting"
    /\ is_running' = [s \in Sessions |->
                        is_running[s] /\ ~(s = gMainLoop /\ ~gOwnMainLoop)]
    /\ UNCHANGED <<session, globals, clientId, helper_token, thread, runs, target, released,
                   busVars>>

\* Fault: the reference is dropped and the loop kept.
ReleaseLoop ==
    /\ pc = "forgetting"
    /\ pc' = "unregistering"
    /\ released' = released \cup ({gMainLoop} \cap Sessions)
    /\ UNCHANGED <<session, globals, clientId, helper_token, thread, runs, target, is_running,
                   busVars>>

\* Fault: whose loop it was is remembered.
ForgetLoopOnly ==
    /\ pc = "forgetting"
    /\ pc' = "unregistering"
    /\ released' = released \cup ({gMainLoop} \cap Sessions)
    /\ gMainLoop' = None
    /\ UNCHANGED <<session, gOwnMainLoop, gServiceHandle, gOwnLunaService, clientId,
                   helper_token, thread, runs, target, is_running, busVars>>

ForgetLoop ==
    /\ pc = "forgetting"
    /\ pc' = "unregistering"
    /\ released' = released \cup ({gMainLoop} \cap Sessions)
    /\ gMainLoop' = None /\ gOwnMainLoop' = FALSE
    /\ UNCHANGED <<session, gServiceHandle, gOwnLunaService, clientId, helper_token,
                   thread, runs, target, is_running, busVars>>

Unregisters == gServiceHandle # None /\ ~gOwnLunaService

\* Fault: the handle is forgotten without being unregistered.
SkipUnregister ==
    /\ pc = "unregistering"
    /\ pc' = "dropping"
    /\ UNCHANGED <<session, globals, clientId, helper_token, loopVars, busVars>>

\* LSUnregister() ends all calls on the handle, or fails and ends none.  An
\* application's own handle is left alone, and so are the calls on it.
UnregisterHandle ==
    /\ pc = "unregistering"
    /\ pc' = "dropping"
    /\ \/ /\ Unregisters
          /\ attached' = [attached EXCEPT ![gServiceHandle] = None]
          /\ statusCalls' = {c \in statusCalls : c.handle # gServiceHandle}
          /\ watching' = watching \ {gServiceHandle}
          /\ identifying' = identifying \ {gServiceHandle}
          /\ UNCHANGED left
       \/ /\ Unregisters /\ CallsMayFail
          /\ left' = left \cup {gServiceHandle}
          /\ UNCHANGED <<attached, statusCalls, watching, identifying>>
       \/ /\ ~Unregisters
          /\ UNCHANGED busVars
    /\ UNCHANGED <<session, globals, clientId, helper_token, loopVars>>

\* The handle is forgotten, whatever has become of it.
ForgetHandle ==
    /\ pc = "dropping"
    /\ pc' = "idle"
    /\ gServiceHandle' = None /\ gOwnLunaService' = FALSE
    /\ UNCHANGED <<session, gMainLoop, gOwnMainLoop, clientId, helper_token, loopVars, busVars>>

--------------------------------------------------------------------------------
(***************************************************************************)
(* The library's threads, and the callbacks a served handle gets.          *)
(***************************************************************************)

\* _BatterydIPCThread() looks up the loop only once it runs.
ThreadStarts(s) ==
    /\ thread[s] = "created"
    /\ runs' = [runs EXCEPT ![s] = gMainLoop]
    /\ thread' = [thread EXCEPT ![s] = "entering"]
    /\ UNCHANGED <<pc, session, globals, clientId, helper_token, target, is_running,
                   released, busVars>>

\* A loop that nobody holds a reference to any more has been freed.
Freed(l) == l \in released /\ \A s \in Sessions : runs[s] = l => thread[s] \notin InLoop

\* g_main_loop_run(): an earlier quit does not count.  Without a loop it returns
\* at once; on the application's loop, attached meanwhile, it stays; on a freed
\* one it does the one or the other.
ThreadRuns(s) ==
    /\ thread[s] = "entering"
    /\ \/ /\ runs[s] = None \/ Freed(runs[s])
          /\ thread' = [thread EXCEPT ![s] = "ended"]
          /\ UNCHANGED is_running
       \/ /\ runs[s] # None
          /\ thread' = [thread EXCEPT ![s] = "running"]
          /\ is_running' = [l \in Sessions |-> is_running[l] \/ l = runs[s]]
    /\ UNCHANGED <<pc, session, globals, clientId, helper_token, runs, target, released,
                   busVars>>

ThreadEnds(s) ==
    /\ thread[s] = "running"
    /\ runs[s] \in Sessions /\ ~is_running[runs[s]]
    /\ thread' = [thread EXCEPT ![s] = "ended"]
    /\ UNCHANGED <<pc, session, globals, clientId, helper_token, runs, target, is_running,
                   released, busVars>>

\* A loop dispatches one thing at a time.
Busy(loop) == \E s \in Sessions : runs[s] = loop /\ thread[s] \in InLoop \ {"running"}

\* The application's loop is where the application is between two calls.
AppDispatches(h) == attached[h] = App /\ pc = "idle" /\ ~Busy(App)

\* A loop that was told to quit finishes what it has begun to dispatch.
ThreadDispatches(s, h) ==
    /\ thread[s] = "running"
    /\ runs[s] # None /\ runs[s] = attached[h]
    /\ ~Busy(runs[s])

\* What comes in on handle h is dispatched: by one of the library's threads, or
\* by the application.
Served(h) ==
    \/ attached[h] = App
    \/ /\ attached[h] \in Sessions
       /\ is_running[attached[h]]
       /\ \E s \in Sessions : thread[s] \in InLoop /\ runs[s] = attached[h]

\* LSUnregister() was called on it, or it has been forgotten since.
GivenUp(sh) == sh \in Sessions /\ (sh # gServiceHandle \/ pc = "dropping")

\* SendMessage() of an identify call.  On a handle that was unregistered this is
\* undefined behaviour: here it may leave a call, or do nothing.
SendMessage(sh) ==
    \/ /\ sh # None
       /\ identifying' = identifying \cup {sh}
       /\ left' = IF GivenUp(sh) THEN left \cup {sh} ELSE left
    \/ /\ sh = None \/ GivenUp(sh) \/ CallsMayFail
       /\ UNCHANGED <<identifying, left>>

\* batteryd is up, for the first time or after a crash, which the bus may announce
\* at any time: send it the client's name, on whatever handle there is now.
\* On the application's own thread nothing comes in between.
_batteryd_server_up(h) ==
    /\ h \in watching
    /\ AppDispatches(h)
    /\ SendMessage(gServiceHandle)
    /\ UNCHANGED <<pc, session, globals, clientId, helper_token, loopVars,
                   attached, statusCalls, watching>>

\* On a thread of the library's, the application's calls may.
ServerUpBegins(s, h) ==
    /\ h \in watching
    /\ ThreadDispatches(s, h)
    /\ thread' = [thread EXCEPT ![s] = "notified"]
    /\ UNCHANGED <<pc, session, globals, clientId, helper_token, runs, target, is_running,
                   released, attached, statusCalls, watching, identifying, left>>

LookUpHandle(s) ==
    /\ thread[s] = "notified"
    /\ thread' = [thread EXCEPT ![s] = "calling"]
    /\ target' = [target EXCEPT ![s] = gServiceHandle]
    /\ UNCHANGED <<pc, session, globals, clientId, helper_token, runs, is_running,
                   released, busVars>>

SendIdentify(s) ==
    /\ thread[s] = "calling"
    /\ thread' = [thread EXCEPT ![s] = "running"]
    /\ target' = [target EXCEPT ![s] = None]
    /\ SendMessage(target[s])
    /\ UNCHANGED <<pc, session, globals, clientId, helper_token, runs, is_running,
                   released, attached, statusCalls, watching>>

\* What batteryd has registered on the bus.
Methods == {"batteryStatusQuery", "chargerStatusQuery"}

\* The reply: an id, or an error that the callback only logs.
_identify_callback(h) ==
    /\ h \in identifying
    /\ AppDispatches(h) \/ \E s \in Sessions : ThreadDispatches(s, h)
    /\ identifying' = identifying \ {h}
    /\ \E answered \in BOOLEAN :
          clientId' = (clientId \/ (answered /\ "identify" \in Methods))
    /\ UNCHANGED <<pc, session, globals, helper_token, loopVars,
                   attached, statusCalls, watching, left>>

\* What goes on by itself, once the application has made a call.
ClientStep ==
    \/ RegisterHandle
    \/ CreateLoopAndThread
    \/ AttachLoop
    \/ CallRegisterServerStatus
    \/ QuitLoop
    \/ ForgetLoop
    \/ UnregisterHandle
    \/ ForgetHandle

ThreadStep(s) ==
    \/ ThreadStarts(s)
    \/ ThreadRuns(s)
    \/ LookUpHandle(s)
    \/ SendIdentify(s)
    \/ ThreadEnds(s)

Callback(h) ==
    \/ _batteryd_server_up(h)
    \/ \E s \in Sessions : ServerUpBegins(s, h)
    \/ _identify_callback(h)

Next ==
    \/ BatterydGmainAttach
    \/ BatterydClientInit
    \/ BatterydClientInitLunaService
    \/ BatterydBatteryStatusRegister
    \/ BatterydClientDeinit
    \/ ClientStep
    \/ \E s \in Sessions : ThreadStep(s)
    \/ \E h \in Sessions \cup {App} : Callback(h)

\* The application finishes the calls it has made, and threads are scheduled.
\* Nobody has to make a call, or to announce batteryd.
Fairness ==
    /\ WF_vars(ClientStep)
    /\ \A s \in Sessions : WF_vars(ThreadStep(s))

Spec == Init /\ [][Next]_vars /\ Fairness

--------------------------------------------------------------------------------
(***************************************************************************)
(* Properties.                                                             *)
(***************************************************************************)

IsClient == gServiceHandle # None
Disconnected == pc = "idle" /\ ~IsClient

NoCallsOn(handles) ==
    /\ \A c \in statusCalls : c.handle \notin handles
    /\ watching \cap handles = {} /\ identifying \cap handles = {}

\* init.c:139-143: a client that has stopped being one is heard no more on the
\* handles that the library has made and hears nothing on them, whatever sessions
\* came before and wherever in a callback the library's threads are, except on
\* a handle that LSUnregister() failed on (commands.c:425-432 forgets it all the
\* same) or that such a callback made a call on after it.
OwnCallsEnd == Disconnected => NoCallsOn(Sessions \ left)

\* commands.c:61-74 and init.c:97-110: however sessions of all kinds follow one
\* another, the library knows whose the loop and the handle in use are, so that
\* it never quits or unregisters what is the application's, nor keeps what is not.
OwnershipIsKnown ==
    /\ gOwnMainLoop <=> gMainLoop = App
    /\ gOwnLunaService <=> gServiceHandle = App

\* commands.c:234-237: however often the application registers a callback, and
\* whatever else fails and is begun anew in between, the library's handles deliver
\* each status once, but for subscriptions that LSCallCancel() failed to cancel
\* (commands.c:83-90 forgets their tokens) and handles that LSUnregister() failed on.
OneStatusSubscription ==
    Cardinality({c \in statusCalls : ~c.stray /\ c.handle \notin left \cup {App}}) <= 1

\* The loop a handle is attached to was given somebody to run it.
HasThread(h) == attached[h] \in Sessions => thread[attached[h]] # "none"

\* commands.c:380-384: an application that stays a client, on a handle of the
\* library's that could be attached, is served if the thread could be created:
\* some thread runs the very loop that the handle is attached to, however quickly
\* the application stopped and began before and however late the threads of earlier
\* sessions come.
ClientIsServed ==
    \A h \in Sessions :
        <>[](pc = "idle" /\ gServiceHandle = h /\ attached[h] # None /\ HasThread(h))
            => <>[]Served(h)
================================================================================
