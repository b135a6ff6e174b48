----------------------------- MODULE Delivery -----------------------------
(***************************************************************************)
(* How packets of the engine reach JavaScript in a React Native runtime:   *)
(* DeliveryState (react-native/cpp/NipworkerReactNativeTransport.cpp) and  *)
(* the wake-ups of RuntimeTransport (NipworkerReactNativeJSI.cpp).  The    *)
(* engine thread queues packets, the JavaScript thread drains them when it *)
(* is woken, and the thread that reloads the runtime invalidates it.       *)
(*                                                                         *)
(* A step is what a thread does under the mutex or with one operation on   *)
(* an atomic flag; at[t] is the step that t does next.  Both sides go      *)
(* through requestWake, whose flag wakeScheduled lets one of them through. *)
(* The handler of the runtime and the scheduler of the state are set in    *)
(* one call and are one variable.                                          *)
(***************************************************************************)
EXTENDS Naturals, FiniteSets

CONSTANTS
    Routes,          \* subscription ids, which a route wake names
    MaxDirtyRoutes,  \* DeliveryLimits
    MaxControls

ASSUME DeliveryAssumption == MaxDirtyRoutes \in Nat /\ MaxControls \in Nat

Control == "control"
Packets == Routes \union {Control}
DeliveryThreads == {"engine", "js", "reload"}

VARIABLES
    dirty,          \* dirtyRouteSet_
    controls,       \* number of packets in controlPackets_
    alive,
    schedule,       \* a handler is installed
    wakeScheduled,
    wakes,          \* calls of runWake queued on the JavaScript thread
    at,             \* at[t]: the step of t, "idle" outside of this code
    arriving        \* the packet that the engine thread brings

dvars == <<dirty, controls, alive, schedule, wakeScheduled, wakes, at, arriving>>

DeliveryTypeOK ==
    /\ dirty \subseteq Routes
    /\ controls \in Nat
    /\ alive \in BOOLEAN /\ schedule \in BOOLEAN /\ wakeScheduled \in BOOLEAN
    /\ wakes \in Nat
    /\ at \in [DeliveryThreads ->
         {"idle", "enqueue", "ask", "claim", "pick", "call", "clear", "retry",
          "handler", "finish", "check", "discard"}]
    /\ arriving \in Packets

DeliveryInit ==
    /\ dirty = {} /\ controls = 0
    /\ alive = TRUE /\ schedule = FALSE /\ wakeScheduled = FALSE
    /\ wakes = 0
    /\ at = [t \in DeliveryThreads |-> "idle"]
    /\ arriving = Control

Pending == dirty # {} \/ controls > 0
Goto(t, step) == at' = [at EXCEPT ![t] = step]

-----------------------------------------------------------------------------
\* Variants of the definitions below, each with one plausible slip.
FinishWakeForgetful ==
    /\ at["js"] = "finish"
    /\ wakeScheduled' = FALSE
    /\ Goto("js", "idle")
    /\ UNCHANGED <<dirty, controls, alive, schedule, wakes, arriving>>

-----------------------------------------------------------------------------
\* The callback has found the transport and hands it a packet.
Accept(p) ==
    /\ at["engine"] = "idle"
    /\ arriving' = p
    /\ Goto("engine", "enqueue")
    /\ UNCHANGED <<dirty, controls, alive, schedule, wakeScheduled, wakes>>

\* accepts, enqueueRoute and enqueueControl: a packet for a dead runtime or
\* beyond a limit is dropped, and a route that is dirty already asks for no
\* wake of its own.
Enqueue ==
    /\ at["engine"] = "enqueue"
    /\ LET fits == IF arriving = Control THEN controls < MaxControls
                   ELSE arriving \notin dirty /\ Cardinality(dirty) < MaxDirtyRoutes
           queued == alive /\ fits
       IN  /\ dirty' = IF queued /\ arriving # Control THEN dirty \union {arriving} ELSE dirty
           /\ controls' = IF queued /\ arriving = Control THEN controls + 1 ELSE controls
           /\ Goto("engine", IF queued THEN "ask" ELSE "idle")
    /\ UNCHANGED <<alive, schedule, wakeScheduled, wakes, arriving>>

\* requestWake, step by step.
Ask(t) ==
    /\ at[t] = "ask"
    /\ Goto(t, IF alive THEN "claim" ELSE "idle")
    /\ UNCHANGED <<dirty, controls, alive, schedule, wakeScheduled, wakes, arriving>>

Claim(t) ==
    /\ at[t] = "claim"
    /\ wakeScheduled' = TRUE
    /\ Goto(t, IF wakeScheduled THEN "idle" ELSE "pick")
    /\ UNCHANGED <<dirty, controls, alive, schedule, wakes, arriving>>

Pick(t) ==
    /\ at[t] = "pick"
    /\ Goto(t, IF schedule THEN "call" ELSE "clear")
    /\ UNCHANGED <<dirty, controls, alive, schedule, wakeScheduled, wakes, arriving>>

\* scheduleWake: invokeAsync takes the call or throws.  For a dead runtime it
\* is finishWake, which finds nothing more to do.
Call(t) ==
    /\ at[t] = "call"
    /\ \/ alive /\ wakes' = wakes + 1 /\ Goto(t, "idle") /\ UNCHANGED wakeScheduled
       \/ alive /\ Goto(t, "clear") /\ UNCHANGED <<wakes, wakeScheduled>>
       \/ ~alive /\ wakeScheduled' = FALSE /\ Goto(t, "idle") /\ UNCHANGED wakes
    /\ UNCHANGED <<dirty, controls, alive, schedule, arriving>>

Clear(t) ==
    /\ at[t] = "clear"
    /\ wakeScheduled' = FALSE
    /\ Goto(t, "retry")
    /\ UNCHANGED <<dirty, controls, alive, schedule, wakes, arriving>>

Retry(t) ==
    /\ at[t] = "retry"
    /\ Goto(t, IF alive /\ schedule /\ Pending THEN "ask" ELSE "idle")
    /\ UNCHANGED <<dirty, controls, alive, schedule, wakeScheduled, wakes, arriving>>

RequestWake(t) == Ask(t) \/ Claim(t) \/ Pick(t) \/ Call(t) \/ Clear(t) \/ Retry(t)

-----------------------------------------------------------------------------
\* setWakeHandler and setSchedule, on the JavaScript thread.
SetSchedule(installed) ==
    /\ at["js"] = "idle"
    /\ schedule' = installed
    /\ Goto("js", "check")
    /\ UNCHANGED <<dirty, controls, alive, wakeScheduled, wakes, arriving>>

\* hasPending, after setSchedule or finishWake.
Check ==
    /\ at["js"] = "check"
    /\ Goto("js", IF Pending THEN "ask" ELSE "idle")
    /\ UNCHANGED <<dirty, controls, alive, schedule, wakeScheduled, wakes, arriving>>

\* runWake calls the handler, which drains the queues; then finishWake.
RunWake ==
    /\ at["js"] = "idle" /\ wakes > 0
    /\ wakes' = wakes - 1
    /\ Goto("js", IF alive THEN "handler" ELSE "idle")
    /\ UNCHANGED <<dirty, controls, alive, schedule, wakeScheduled, arriving>>

Drain ==
    /\ at["js"] = "handler"
    /\ IF alive /\ schedule THEN dirty' = {} /\ controls' = 0 ELSE UNCHANGED <<dirty, controls>>
    /\ Goto("js", "finish")
    /\ UNCHANGED <<alive, schedule, wakeScheduled, wakes, arriving>>

FinishWake ==
    /\ at["js"] = "finish"
    /\ wakeScheduled' = FALSE
    /\ Goto("js", "check")
    /\ UNCHANGED <<dirty, controls, alive, schedule, wakes, arriving>>

\* DeliveryState::invalidate: the flag first, then the queues under the mutex.
Kill ==
    /\ at["reload"] = "idle" /\ alive
    /\ alive' = FALSE
    /\ Goto("reload", "discard")
    /\ UNCHANGED <<dirty, controls, schedule, wakeScheduled, wakes, arriving>>

Discard ==
    /\ at["reload"] = "discard"
    /\ dirty' = {} /\ controls' = 0
    /\ schedule' = FALSE /\ wakeScheduled' = FALSE
    /\ Goto("reload", "idle")
    /\ UNCHANGED <<alive, wakes, arriving>>

DeliveryStep ==
    \/ Enqueue \/ RequestWake("engine")
    \/ RequestWake("js") \/ Check \/ RunWake \/ Drain \/ FinishWake
    \/ Discard

DeliveryNext ==
    \/ \E p \in Packets : Accept(p)
    \/ \E b \in BOOLEAN : SetSchedule(b)
    \/ Kill
    \/ DeliveryStep

DeliverySpec == DeliveryInit /\ [][DeliveryNext]_dvars

-----------------------------------------------------------------------------
\* "pending work is never stranded" (requestWake): while the runtime lives and
\* a handler is installed, a queued packet has a wake on its way, or a thread
\* is inside requestWake or finishWake and will see the packet, whatever the
\* order in which arrivals, drains, the clearing of the flag, a change of the
\* handler and a scheduler that throws meet.
NotStranded ==
    alive /\ schedule /\ Pending =>
        wakes > 0 \/ \E t \in {"engine", "js"} : at[t] \notin {"idle", "enqueue"}
=============================================================================
