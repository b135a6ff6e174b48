--------------------------- MODULE SharedEngine ---------------------------
(***************************************************************************)
(* The one engine that the native clients of a process share: the registry *)
(* of crates/native-ffi/src/lib.rs (nipworker_shared_acquire, _release,    *)
(* _process_acquire, _process_release, shared_engine_callback, the engine  *)
(* thread of nipworker_init and nipworker_deinit) and its React Native     *)
(* client, EngineHost of NipworkerReactNativeJSI.cpp, which passes packets *)
(* on to Delivery.                                                         *)
(*                                                                         *)
(* Locks: `lifecycle` (SHARED_ENGINE_LIFECYCLE) is held for a whole call   *)
(* of the registry, even while it waits for callbacks and joins the engine *)
(* thread; `hostMutex` (EngineHost::Impl::mutex) for all of configure.     *)
(* What is done under the registry's own mutex, which no call keeps while  *)
(* it waits, is one step.                                                  *)
(*                                                                         *)
(* A client is known by its context, the userdata of its callback: a       *)
(* member of Clients, or a generation of EngineHost.  The code that makes  *)
(* no engine, when nipworker_init fails or when process_acquire finds no   *)
(* engine, is not reached by these clients.                                *)
(***************************************************************************)
EXTENDS Delivery

CONSTANTS
    Clients,      \* clients of the C interface, each a thread with one context
    HostThreads,  \* threads that call EngineHost
    None,
    MaxReferences,  \* bound: acquires of one client
    MaxCalls,       \* bound: calls by clients, host threads and JavaScript
    MaxPackets      \* bound: packets the engine sends

ASSUME SharedAssumption ==
    /\ MaxReferences \in Nat /\ MaxCalls \in Nat /\ MaxPackets \in Nat
    /\ Clients \intersect (Nat \union HostThreads \union {None}) = {}
    /\ None \notin Nat \union HostThreads

Threads == Clients \union HostThreads
Generations == 1 .. MaxCalls
Contexts == Clients \union Generations
Engines == 1 .. MaxCalls

VARIABLES
    lifecycle,   \* the thread that holds it, or None
    handle,      \* SharedEngineState.handle: the engine, 0 for none
    anchored,    \* process_anchored
    references,  \* references[c]: of the client c, 0 when it is not in `clients`
    inFlight,    \* callbacks_in_flight
    run,         \* run[h]: "none", "up", "stopping" (Shutdown sent) or "done"
    sending,     \* sending[h]: the callback the engine thread is in
    op,          \* op[t]: the step of thread t, and the context it is about
    hostMutex,   \* the thread that holds it, or None
    hostHandle,  \* EngineHost::Impl::handle
    generation,  \* EngineHost::Impl::engineGeneration
    bound,       \* activeTransport is set
    live,        \* contexts that are allocated
    calls, sent

registry == <<lifecycle, handle, anchored, references>>
host == <<hostMutex, hostHandle, generation>>
svars == <<registry, inFlight, run, sending, op, host, bound, live, calls, sent>>
allVars == <<dvars, svars>>

Resting == [step |-> "idle", ctx |-> None]
Quiet == [step |-> "idle", packet |-> Control, left |-> {}]

SharedInit ==
    /\ DeliveryInit
    /\ lifecycle = None /\ handle = 0 /\ anchored = FALSE
    /\ references = [c \in Contexts |-> 0] /\ inFlight = 0
    /\ run = [h \in Engines |-> "none"]
    /\ sending = [h \in Engines |-> Quiet]
    /\ op = [t \in Threads |-> Resting]
    /\ hostMutex = None /\ hostHandle = 0 /\ generation = 0 /\ bound = TRUE
    /\ live = {} /\ calls = 0 /\ sent = 0

Registered == {c \in Contexts : references[c] > 0}
OpGoto(t, step) == op' = [op EXCEPT ![t].step = step]

-----------------------------------------------------------------------------
\* A call of the registry returns: to its client, which may then free the
\* context of a last release, or into EngineHost.
AcquireReturns(t) == OpGoto(t, IF op[t].ctx \in Generations THEN "anchor" ELSE "idle")
ReleaseReturns(t) ==
    /\ OpGoto(t, IF op[t].ctx \in Generations THEN "erase" ELSE "idle")
    /\ live' = live \ ({op[t].ctx} \intersect Clients)

\* nipworker_shared_acquire: reuse the engine, or add the client and create it.
Acquire(t) ==
    /\ op[t].step = "acquire" /\ lifecycle = None
    /\ references' = [references EXCEPT ![op[t].ctx] = @ + 1]
    /\ IF handle # 0 THEN AcquireReturns(t) /\ UNCHANGED lifecycle
       ELSE OpGoto(t, "create") /\ lifecycle' = t
    /\ UNCHANGED <<dvars, handle, anchored, inFlight, run, sending, host, bound, live, calls, sent>>

\* nipworker_init_with_options: the engine thread runs before acquire has
\* stored the handle.
Create(t) ==
    /\ op[t].step = "create"
    /\ \E h \in Engines :
         /\ run[h] = "none" /\ \A g \in Engines : g < h => run[g] # "none"
         /\ run' = [run EXCEPT ![h] = "up"]
    /\ OpGoto(t, "created")
    /\ UNCHANGED <<dvars, registry, inFlight, sending, host, bound, live, calls, sent>>

Created(t) ==
    /\ op[t].step = "created"
    /\ handle' = CHOOSE h \in Engines : run[h] = "up"
    /\ lifecycle' = None
    /\ AcquireReturns(t)
    /\ UNCHANGED <<dvars, anchored, references, inFlight, run, sending, host, bound, live, calls, sent>>

\* nipworker_shared_process_acquire; the last call of EngineHost::configure.
Anchor(t) ==
    /\ op[t].step = "anchor" /\ lifecycle = None
    /\ anchored' = TRUE
    /\ OpGoto(t, "idle")
    /\ IF t \in HostThreads THEN hostMutex' = None /\ hostHandle' = handle
       ELSE UNCHANGED <<hostMutex, hostHandle>>
    /\ UNCHANGED <<dvars, lifecycle, handle, references, inFlight, run, sending, generation, bound,
                   live, calls, sent>>

\* nipworker_shared_release, up to its wait; a release without a reference is
\* ignored.
Release(t) ==
    /\ op[t].step = "release" /\ lifecycle = None
    /\ LET c == op[t].ctx
       IN  /\ references' = [references EXCEPT ![c] = IF @ = 0 THEN 0 ELSE @ - 1]
           /\ IF references[c] = 1 THEN OpGoto(t, "wait") /\ lifecycle' = t
              ELSE OpGoto(t, "idle") /\ UNCHANGED lifecycle
    /\ UNCHANGED <<dvars, handle, anchored, inFlight, run, sending, host, bound, live, calls, sent>>

\* nipworker_shared_process_release, up to its wait.
Unanchor(t) ==
    /\ op[t].step = "unanchor" /\ lifecycle = None
    /\ anchored' = FALSE
    /\ IF anchored /\ Registered = {} THEN OpGoto(t, "wait") /\ lifecycle' = t
       ELSE OpGoto(t, "idle") /\ UNCHANGED lifecycle
    /\ UNCHANGED <<dvars, handle, references, inFlight, run, sending, host, bound, live, calls, sent>>

\* Variants of Wait, each with one plausible slip.
WaitForNobody(t) ==
    /\ op[t].step = "wait"
    /\ IF Registered # {} \/ anchored
       THEN lifecycle' = None /\ ReleaseReturns(t) /\ UNCHANGED <<handle, run>>
       ELSE /\ OpGoto(t, "join")
            /\ handle' = 0 /\ run' = [run EXCEPT ![handle] = "stopping"]
            /\ UNCHANGED <<lifecycle, live>>
    /\ UNCHANGED <<dvars, anchored, references, inFlight, sending, host, bound, calls, sent>>

WaitThenStop(t) ==
    /\ op[t].step = "wait" /\ inFlight = 0
    /\ IF anchored
       THEN lifecycle' = None /\ ReleaseReturns(t) /\ UNCHANGED <<handle, run>>
       ELSE /\ OpGoto(t, "join")
            /\ handle' = 0 /\ run' = [run EXCEPT ![handle] = "stopping"]
            /\ UNCHANGED <<lifecycle, live>>
    /\ UNCHANGED <<dvars, anchored, references, inFlight, sending, host, bound, calls, sent>>

\* changed.wait until no callback is in flight.  Without clients and anchor,
\* nipworker_deinit then stops the engine thread and joins it.
Wait(t) ==
    /\ op[t].step = "wait" /\ inFlight = 0
    /\ IF Registered # {} \/ anchored
       THEN lifecycle' = None /\ ReleaseReturns(t) /\ UNCHANGED <<handle, run>>
       ELSE /\ OpGoto(t, "join")
            /\ handle' = 0 /\ run' = [run EXCEPT ![handle] = "stopping"]
            /\ UNCHANGED <<lifecycle, live>>
    /\ UNCHANGED <<dvars, anchored, references, inFlight, sending, host, bound, calls, sent>>

Join(t) ==
    /\ op[t].step = "join" /\ \A h \in Engines : run[h] # "stopping"
    /\ lifecycle' = None
    /\ ReleaseReturns(t)
    /\ UNCHANGED <<dvars, handle, anchored, references, inFlight, run, sending, host, bound, calls, sent>>

-----------------------------------------------------------------------------
\* Calls of the clients: each acquire is paired with a release.
Begin(t, step, ctx) ==
    /\ op[t].step = "idle" /\ calls < MaxCalls
    /\ op' = [op EXCEPT ![t] = [step |-> step, ctx |-> ctx]]
    /\ calls' = calls + 1
    /\ UNCHANGED <<dvars, registry, inFlight, run, sending, sent>>

ClientAcquires(c) ==
    /\ Begin(c, "acquire", c)
    /\ references[c] < MaxReferences
    /\ live' = live \union {c}
    /\ UNCHANGED <<host, bound>>

ClientCalls(c) ==
    /\ references[c] > 0
    /\ \E step \in {"release", "anchor"} : Begin(c, step, c)
    /\ UNCHANGED <<host, bound, live>>

Shutdown(t) == Begin(t, "unanchor", None) /\ UNCHANGED <<host, bound, live>>

\* EngineHost::configure: with an engine it does nothing; else it keeps the
\* mutex while it acquires and anchors one.
Configure(t) ==
    /\ hostMutex = None /\ hostHandle = 0
    /\ Begin(t, "acquire", generation + 1)
    /\ hostMutex' = t /\ generation' = generation + 1
    /\ live' = live \union {generation + 1}
    /\ UNCHANGED <<hostHandle, bound>>

\* EngineHost::deinit: the handle is taken under the mutex, the context of its
\* generation looked up under it again, released without it and then erased.
Deinit(t) ==
    /\ hostMutex = None
    /\ Begin(t, IF hostHandle # 0 THEN "find" ELSE "erase", generation)
    /\ hostHandle' = 0 /\ generation' = generation + 1 /\ bound' = FALSE
    /\ UNCHANGED <<hostMutex, live>>

Find(t) ==
    /\ op[t].step = "find" /\ hostMutex = None
    /\ OpGoto(t, "release")
    /\ UNCHANGED <<dvars, registry, inFlight, run, sending, host, bound, live, calls, sent>>

Erase(t) ==
    /\ op[t].step = "erase" /\ hostMutex = None
    /\ live' = live \ {op[t].ctx}
    /\ OpGoto(t, "idle")
    /\ UNCHANGED <<dvars, registry, inFlight, run, sending, host, bound, calls, sent>>

\* EngineHost::unbind, the first step of RuntimeTransport::invalidate.
Unbind ==
    /\ hostMutex = None /\ bound
    /\ bound' = FALSE
    /\ UNCHANGED <<dvars, registry, inFlight, run, sending, op, host, live, calls, sent>>

\* setWakeHandler of the JavaScript side.
SetHandler(installed) ==
    /\ calls < MaxCalls /\ calls' = calls + 1
    /\ SetSchedule(installed)
    /\ UNCHANGED <<registry, inFlight, run, sending, op, host, bound, live, sent>>

-----------------------------------------------------------------------------
\* The engine thread.  It looks at `alive` before each callback.
SendGoto(h, step) == sending' = [sending EXCEPT ![h].step = step]

Emit(h, p) ==
    /\ run[h] = "up" /\ sending[h].step = "idle" /\ sent < MaxPackets
    /\ sending' = [sending EXCEPT ![h] = [Quiet EXCEPT !.step = "checked", !.packet = p]]
    /\ sent' = sent + 1
    /\ UNCHANGED <<dvars, registry, inFlight, run, op, host, bound, live, calls>>

\* shared_engine_callback: the clients of the moment are called, in the order
\* of a list that is left open here.
Snapshot(h) ==
    /\ sending[h].step = "checked"
    /\ IF Registered = {} THEN SendGoto(h, "idle") /\ UNCHANGED inFlight
       ELSE /\ sending' = [sending EXCEPT ![h].step = "calling", ![h].left = Registered]
            /\ inFlight' = inFlight + 1
    /\ UNCHANGED <<dvars, registry, run, op, host, bound, live, calls, sent>>

\* The callback of a client, and EngineHost::callback, which finds no transport
\* in an old generation.
CallClient(h, c) ==
    /\ sending[h].step = "calling" /\ c \in sending[h].left
    /\ c \in Generations => hostMutex = None
    /\ sending' = [sending EXCEPT ![h] =
                     [step |-> IF c = generation /\ bound THEN "found" ELSE "calling",
                      packet |-> @.packet, left |-> @.left \ {c}]]
    /\ UNCHANGED <<dvars, registry, inFlight, run, op, host, bound, live, calls, sent>>

HandOver(h) ==
    /\ sending[h].step = "found"
    /\ Accept(sending[h].packet)
    /\ SendGoto(h, "handed")
    /\ UNCHANGED <<registry, inFlight, run, op, host, bound, live, calls, sent>>

HandedOver(h) ==
    /\ sending[h].step = "handed" /\ at["engine"] = "idle"
    /\ SendGoto(h, "calling")
    /\ UNCHANGED <<dvars, registry, inFlight, run, op, host, bound, live, calls, sent>>

EndCallback(h) ==
    /\ sending[h].step = "calling" /\ sending[h].left = {}
    /\ SendGoto(h, "idle")
    /\ inFlight' = inFlight - 1
    /\ UNCHANGED <<dvars, registry, run, op, host, bound, live, calls, sent>>

\* The command loop reads Shutdown; the thread ends.
Stop(h) ==
    /\ run[h] = "stopping" /\ sending[h].step = "idle"
    /\ run' = [run EXCEPT ![h] = "done"]
    /\ UNCHANGED <<dvars, registry, inFlight, sending, op, host, bound, live, calls, sent>>

-----------------------------------------------------------------------------
Step(t) ==
    \/ Acquire(t) \/ Create(t) \/ Created(t) \/ Anchor(t)
    \/ Release(t) \/ Unanchor(t) \/ Wait(t) \/ Join(t) \/ Find(t) \/ Erase(t)

EngineStep(h) ==
    Snapshot(h) \/ (\E c \in Contexts : CallClient(h, c)) \/ HandOver(h) \/ HandedOver(h)
        \/ EndCallback(h) \/ Stop(h)

SharedNext ==
    \/ \E t \in Threads : Step(t) \/ Shutdown(t)
    \/ \E c \in Clients : ClientAcquires(c) \/ ClientCalls(c)
    \/ \E t \in HostThreads : Configure(t) \/ Deinit(t)
    \/ Unbind
    \/ \E h \in Engines : EngineStep(h) \/ \E p \in Packets : Emit(h, p)
    \/ \E b \in BOOLEAN : SetHandler(b)
    \/ (DeliveryStep \/ (~bound /\ Kill)) /\ UNCHANGED svars

\* Each thread goes on with what it has begun, and a scheduler that throws does
\* not do so for ever.
SharedFairness ==
    /\ \A t \in Threads : WF_allVars(Step(t))
    /\ \A h \in Engines : WF_allVars(EngineStep(h))
    /\ WF_allVars((Enqueue \/ RequestWake("engine")) /\ UNCHANGED svars)
    /\ SF_allVars(Call("engine") /\ wakes' > wakes /\ UNCHANGED svars)

SharedSpec == SharedInit /\ [][SharedNext]_allVars /\ SharedFairness

-----------------------------------------------------------------------------
\* "Removal waits for every callback snapshot that could still reference
\* userdata, so wrappers may reclaim their callback context on return."
\* (nipworker_shared_release): a context that a callback is still to be made
\* with has not been freed, although the snapshot was taken before the release.
CallbackContextLive == \A h \in Engines : sending[h].left \subseteq live

\* A handle stays good until its holder releases it: whoever else acquires,
\* releases or drops the anchor meanwhile, a client with a reference, and the
\* host with a handle, have a running engine, and there is no second one beside
\* it (shared_registry_prevents_overlap_and_anchor_survives_runtime_reload).
HandleHeld ==
    /\ hostHandle # 0 => hostHandle = handle
    /\ \A c \in Clients : references[c] > 0 /\ op[c].step = "idle" => handle # 0
    /\ handle # 0 => run[handle] = "up"
    /\ \A g, h \in Engines :
         run[g] \in {"up", "stopping"} /\ run[h] \in {"up", "stopping"} => g = h

\* An acquire, release, configure or deinit that was begun returns: the lifecycle
\* mutex, the wait for callbacks in flight, the join of the engine thread and
\* the mutex of the host never wait for each other in a circle ("shared_release
\* waits for callback snapshots that reference this context", EngineHost::deinit).
LifecycleReturns == \A t \in Threads : op[t].step # "idle" ~> op[t].step = "idle"
=============================================================================
