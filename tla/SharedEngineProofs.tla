------------------------ MODULE SharedEngineProofs ------------------------
(***************************************************************************)
(* NotStranded, CallbackContextLive and HandleHeld for any number of       *)
(* clients, host threads, routes, calls and packets, and any limits of the *)
(* queues.                                                                 *)
(***************************************************************************)
EXTENDS SharedEngine, TLAPS

-----------------------------------------------------------------------------
\* Delivery.  The flag is set only while a wake is queued or running or a
\* thread is about to queue one, and where it is not set a thread that will
\* look at the queues again is on its way.
DeliveryInv ==
    /\ DeliveryTypeOK
    /\ at["reload"] = "discard" => ~alive
    /\ alive /\ wakeScheduled =>
         \/ wakes > 0 \/ at["js"] \in {"handler", "finish"}
         \/ \E t \in {"engine", "js"} : at[t] \in {"pick", "call", "clear"}
    /\ alive /\ schedule /\ Pending =>
         wakeScheduled \/ \E t \in {"engine", "js"} : at[t] \in {"ask", "claim", "retry", "check"}

-----------------------------------------------------------------------------
\* The registry and the host.
OpSteps == {"idle", "acquire", "create", "created", "anchor", "find", "release", "unanchor",
            "wait", "join", "erase"}

Ops == [Threads -> [step : OpSteps, ctx : Contexts \union {0, None}]]
Sendings == [Engines -> [step : {"idle", "checked", "calling", "found", "handed"},
                         packet : Packets, left : SUBSET Contexts]]

SharedTypeOK ==
    /\ lifecycle \in Threads \union {None}
    /\ handle \in Engines \union {0}
    /\ references \in [Contexts -> Nat] /\ inFlight \in Nat
    /\ run \in [Engines -> {"none", "up", "stopping", "done"}]
    /\ sending \in Sendings /\ op \in Ops
    /\ hostMutex \in HostThreads \union {None}
    /\ hostHandle \in Engines \union {0}
    /\ generation \in Nat /\ calls \in Nat /\ generation <= calls /\ calls <= MaxCalls
    /\ live \subseteq Contexts

\* Who holds the locks, and the context each call is about: a client's its own,
\* in configure the newest generation, in deinit an older one.
OpInv ==
    /\ \A t \in Threads :
         /\ lifecycle = t <=> op[t].step \in {"create", "created", "wait", "join"}
         /\ op[t].step = "unanchor" => op[t].ctx = None
    /\ \A t \in HostThreads :
         hostMutex = t <=> op[t].step \in {"acquire", "create", "created", "anchor"}
    /\ \A c \in Clients :
         /\ op[c].step \in {"acquire", "create", "created", "release"} => op[c].ctx = c
         /\ op[c].step \in {"wait", "join"} => op[c].ctx \in {c, None}
         /\ op[c].step \notin {"find", "erase"}
    /\ \A t \in HostThreads :
         /\ hostMutex = t => op[t].ctx = generation /\ generation \in Generations
         /\ op[t].step \in {"find", "release"} => op[t].ctx \in Generations
         /\ op[t].step \in {"wait", "join"} => op[t].ctx \in Generations \union {None}
         /\ op[t].step = "erase" => op[t].ctx \in Nat
         /\ op[t].step \in {"find", "release", "wait", "join", "erase"} /\ op[t].ctx \in Nat =>
              op[t].ctx < generation

\* One engine runs: the handle's, or the one that acquire has just created, or
\* the one that is being joined.
RunInv ==
    /\ \A t \in Threads : op[t].step = "created" => \E h \in Engines : run[h] = "up"
    /\ handle # 0 => run[handle] = "up"
    /\ \A h \in Engines :
         /\ run[h] = "up" => handle = h \/ (lifecycle \in Threads /\ op[lifecycle].step = "created")
         /\ run[h] = "stopping" => lifecycle \in Threads /\ op[lifecycle].step = "join"
    /\ \A g, h \in Engines :
         run[g] \in {"up", "stopping"} /\ run[h] \in {"up", "stopping"} => g = h

\* References, the anchor and the host's handle keep it.
HoldInv ==
    /\ \A t \in Threads :
         /\ op[t].step \in {"create", "created", "join"} => handle = 0
         /\ op[t].step = "wait" => handle # 0
    /\ anchored => handle # 0
    /\ \A c \in Contexts : references[c] > 0 =>
         \/ handle # 0
         \/ \E t \in Threads : op[t].step \in {"create", "created"} /\ op[t].ctx = c
    /\ hostHandle # 0 =>
         hostHandle = handle /\ generation \in Generations /\ references[generation] > 0
    /\ \A t \in HostThreads : op[t].step \in {"create", "created", "anchor"} =>
         references[generation] > 0
    /\ \A c \in Clients : op[c].step = "anchor" => references[c] > 0

\* The callback of that engine is the only one in flight.
CallbackInv ==
    /\ \A h \in Engines :
         /\ sending[h].step # "idle" => run[h] \in {"up", "stopping"}
         /\ sending[h].step \in {"idle", "checked"} => sending[h].left = {}
         /\ sending[h].step \in {"calling", "found", "handed"} => inFlight = 1
    /\ (\A h \in Engines : sending[h].step \in {"idle", "checked"}) => inFlight = 0

\* A context that is registered or in a snapshot is allocated.
HeldLive ==
    /\ \A c \in Contexts : references[c] > 0 => c \in live
    /\ \A h \in Engines : sending[h].left \subseteq live

\* Once its release has begun to wait it is in no new snapshot, and once the
\* wait is over in no old one.
LeaverGone ==
    \A t \in Threads : op[t].step \in {"wait", "join", "erase"} /\ op[t].ctx \in Contexts =>
      /\ references[op[t].ctx] = 0
      /\ op[t].step # "wait" => \A h \in Engines : op[t].ctx \notin sending[h].left

\* Nobody has seen the context of a generation yet to come.
FutureUnseen ==
    \A g \in Generations :
      g > generation \/ (g = generation /\ hostHandle = 0 /\ hostMutex = None) =>
        references[g] = 0 /\ \A h \in Engines : g \notin sending[h].left

\* A context stays allocated while an acquire of it is under way.
OpenerLive ==
    /\ \A c \in Clients : op[c].step \in {"acquire", "create", "created"} => c \in live
    /\ \A t \in HostThreads : hostMutex = t => generation \in live

ContextInv == HeldLive /\ LeaverGone /\ FutureUnseen /\ OpenerLive

SharedInv == SharedTypeOK /\ OpInv /\ RunInv /\ HoldInv /\ CallbackInv /\ ContextInv

-----------------------------------------------------------------------------
LEMMA DeliveryStarts == DeliveryInit => DeliveryInv
  <1> SUFFICES ASSUME DeliveryInit PROVE DeliveryInv
    BY Zenon
  <1>1. DeliveryTypeOK
    BY Zenon DEF DeliveryInit, DeliveryTypeOK, Packets, DeliveryThreads
  <1>2. ~wakeScheduled /\ ~schedule /\ at["reload"] = "idle"
    BY Zenon DEF DeliveryInit, DeliveryThreads
  <1> QED
    BY Zenon, <1>1, <1>2 DEF DeliveryInv

LEMMA DeliveryKept == DeliveryInv /\ [DeliveryNext]_dvars => DeliveryInv'
  <1> USE DEF DeliveryInv, DeliveryTypeOK, Pending, DeliveryThreads, Goto
  <1> SUFFICES ASSUME DeliveryInv, [DeliveryNext]_dvars PROVE DeliveryInv'
    BY Zenon
  <1>1. ASSUME NEW p \in Packets, Accept(p) PROVE DeliveryInv'
    BY Zenon, <1>1 DEF Accept
  <1>2. ASSUME NEW b \in BOOLEAN, SetSchedule(b) PROVE DeliveryInv'
    BY Zenon, <1>2 DEF SetSchedule
  <1>3. CASE Kill
    BY <1>3, Zenon DEF Kill
  <1>4. CASE Enqueue
    BY <1>4 DEF Enqueue, Packets
  <1>5. ASSUME NEW t \in {"engine", "js"}, RequestWake(t) PROVE DeliveryInv'
    <2>1. CASE Ask(t)
      BY Zenon, <2>1 DEF Ask
    <2>2. CASE Claim(t)
      BY Zenon, <2>2 DEF Claim
    <2>3. CASE Pick(t)
      BY Zenon, <2>3 DEF Pick
    <2>4. CASE Call(t)
      <3>1. CASE alive /\ wakes' = wakes + 1 /\ Goto(t, "idle") /\ UNCHANGED wakeScheduled
        BY <2>4, <3>1 DEF Call
      <3>2. CASE alive /\ Goto(t, "clear") /\ UNCHANGED <<wakes, wakeScheduled>>
        BY Zenon, <2>4, <3>2 DEF Call
      <3>3. CASE ~alive /\ wakeScheduled' = FALSE /\ Goto(t, "idle") /\ UNCHANGED wakes
        BY <2>4, <3>3, Zenon DEF Call
      <3> QED
        BY <2>4, <3>1, <3>2, <3>3, Zenon DEF Call
    <2>5. CASE Clear(t)
      BY <2>5, Zenon DEF Clear
    <2>6. CASE Retry(t)
      BY Zenon, <2>6 DEF Retry
    <2> QED
      BY Zenon, <1>5, <2>1, <2>2, <2>3, <2>4, <2>5, <2>6 DEF RequestWake
  <1>6. CASE Check
    BY Zenon, <1>6 DEF Check
  <1>7. CASE RunWake
    BY <1>7 DEF RunWake
  <1>8. CASE Drain
    BY <1>8 DEF Drain
  <1>9. CASE FinishWake
    BY <1>9, Zenon DEF FinishWake
  <1>10. CASE Discard
    BY <1>10, Zenon DEF Discard
  <1>11. CASE UNCHANGED dvars
    BY Zenon, <1>11 DEF dvars
  <1> QED
    BY Zenon, <1>1, <1>2, <1>3, <1>4, <1>5, <1>6, <1>7, <1>8, <1>9, <1>10,
       <1>11 DEF DeliveryNext, DeliveryStep

LEMMA DeliverySuffices == DeliveryInv => NotStranded
  BY Zenon DEF DeliveryInv, NotStranded

\* The packets of the engine reach the runtime as Delivery says they may.
LEMMA SharedDelivers == SharedInv /\ SharedNext => [DeliveryNext]_dvars
  <1> SUFFICES ASSUME SharedInv, SharedNext PROVE DeliveryNext \/ UNCHANGED dvars
    BY Zenon
  <1>1. ASSUME NEW t \in Threads, Step(t) \/ Shutdown(t) PROVE UNCHANGED dvars
    BY Zenon, <1>1 DEF Step, Shutdown, Begin, Acquire, Create, Created, Anchor, Release, Unanchor, Wait,
                Join, Find, Erase
  <1>2. ASSUME NEW c \in Clients, ClientAcquires(c) \/ ClientCalls(c) PROVE UNCHANGED dvars
    BY Zenon, <1>2 DEF ClientAcquires, ClientCalls, Begin
  <1>3. ASSUME NEW t \in HostThreads, Configure(t) \/ Deinit(t) PROVE UNCHANGED dvars
    BY Zenon, <1>3 DEF Configure, Deinit, Begin
  <1>4. CASE Unbind
    BY Zenon, <1>4 DEF Unbind
  <1>5. ASSUME NEW h \in Engines, NEW p \in Packets, Emit(h, p) PROVE UNCHANGED dvars
    BY Zenon, <1>5 DEF Emit
  <1>6. ASSUME NEW h \in Engines, EngineStep(h) PROVE DeliveryNext \/ UNCHANGED dvars
    <2>1. CASE HandOver(h)
      BY Zenon, <1>6, <2>1 DEF HandOver, SharedInv, SharedTypeOK, Sendings, DeliveryNext
    <2> QED
      BY Zenon, <1>6, <2>1 DEF EngineStep, Snapshot, CallClient, HandedOver, EndCallback, Stop
  <1>7. ASSUME NEW b \in BOOLEAN, SetHandler(b) PROVE DeliveryNext
    BY Zenon, <1>7 DEF SetHandler, DeliveryNext
  <1>8. CASE DeliveryStep \/ (~bound /\ Kill)
    BY Zenon, <1>8 DEF DeliveryNext
  <1> QED
    BY Zenon, <1>1, <1>2, <1>3, <1>4, <1>5, <1>6, <1>7, <1>8 DEF SharedNext

-----------------------------------------------------------------------------
LEMMA SharedStarts == SharedInit => SharedInv
  <1> SUFFICES ASSUME SharedInit PROVE SharedInv
    BY Zenon
  <1> USE SharedAssumption DEF SharedInit, Contexts, Engines, Generations, Threads, Resting, Quiet
  <1>1. SharedTypeOK
    <2>1. op \in Ops
      BY Zenon DEF Ops, OpSteps
    <2>2. sending \in Sendings
      BY Zenon DEF Sendings, Packets
    <2> QED
      BY <2>1, <2>2 DEF SharedTypeOK
  <1>2. OpInv
    BY Zenon DEF OpInv
  <1>3. RunInv /\ HoldInv
    BY DEF RunInv, HoldInv
  <1>4. CallbackInv
    BY Zenon DEF CallbackInv
  <1>5. ContextInv
    BY DEF ContextInv, HeldLive, LeaverGone, FutureUnseen, OpenerLive
  <1> QED
    BY Zenon, <1>1, <1>2, <1>3, <1>4, <1>5 DEF SharedInv

LEMMA OpGotoTypes ==
    ASSUME NEW t \in Threads, NEW s \in OpSteps, op \in Ops, OpGoto(t, s)
    PROVE  op' \in Ops
  BY Zenon DEF Ops, OpGoto

LEMMA BeginTypes ==
    ASSUME NEW t \in Threads, NEW s \in OpSteps, NEW c \in Contexts \union {0, None}, op \in Ops,
           Begin(t, s, c)
    PROVE  op' \in Ops
  BY Zenon DEF Ops, Begin

LEMMA SendGotoTypes ==
    ASSUME NEW h \in Engines, sending \in Sendings,
           NEW s \in {"idle", "checked", "calling", "found", "handed"}, SendGoto(h, s)
    PROVE  sending' \in Sendings
  BY DEF Sendings, SendGoto

\* A step is one of the host, of a client, of a thread inside a call, of an
\* engine, or it is none of theirs.
Outside == UNCHANGED <<registry, inFlight, run, sending, op, host, live>>

LEMMA SharedCases ==
    ASSUME [SharedNext]_allVars
    PROVE  \/ \E t \in Threads : Step(t) \/ Shutdown(t)
           \/ \E c \in Clients : ClientAcquires(c) \/ ClientCalls(c)
           \/ \E t \in HostThreads : Configure(t) \/ Deinit(t)
           \/ \E h \in Engines : EngineStep(h) \/ \E p \in Packets : Emit(h, p)
           \/ Outside
  <1>1. CASE Unbind \/ (\E b \in BOOLEAN : SetHandler(b)) \/ UNCHANGED svars
    BY Zenon, <1>1 DEF Unbind, SetHandler, svars, Outside
  <1> QED
    BY Zenon, <1>1 DEF SharedNext, allVars

\* An engine leaves the registry and the host alone.
LEMMA EngineFrame ==
    ASSUME NEW h \in Engines, EngineStep(h) \/ \E p \in Packets : Emit(h, p)
    PROVE  /\ UNCHANGED <<registry, op, host, live, calls>>
           /\ Stop(h) \/ UNCHANGED run
  BY Zenon DEF EngineStep, Emit, Snapshot, CallClient, HandOver, HandedOver, EndCallback, Stop

\* A thread inside a call leaves the callbacks alone.
LEMMA StepFrame ==
    ASSUME NEW t \in Threads, Step(t)
    PROVE  /\ UNCHANGED <<sending, inFlight, calls, generation>>
           /\ Anchor(t) \/ UNCHANGED <<hostMutex, hostHandle>>
           /\ Create(t) \/ Wait(t) \/ UNCHANGED run
           /\ Created(t) \/ Wait(t) \/ UNCHANGED handle
           /\ Acquire(t) \/ Release(t) \/ UNCHANGED references
           /\ Wait(t) \/ Join(t) \/ Erase(t) \/ UNCHANGED live
           /\ Acquire(t) \/ Release(t) \/ Unanchor(t) \/ lifecycle' \in {None, lifecycle}
  BY Zenon DEF Step, Acquire, Create, Created, Anchor, Release, Unanchor, Wait, Join, Find, Erase,
               registry, host

LEMMA TypesKept == SharedInv /\ [SharedNext]_allVars => SharedTypeOK'
  <1> SUFFICES ASSUME SharedTypeOK, OpInv, RunInv, CallbackInv, [SharedNext]_allVars
               PROVE  SharedTypeOK'
    BY Zenon DEF SharedInv
  <1> USE SharedAssumption DEF SharedTypeOK, registry, host
  <1>0. op' = op => op' \in Ops
    BY Zenon
  <1>9. sending' = sending => sending' \in Sendings
    BY Zenon
  <1>1. ASSUME NEW t \in Threads, Step(t) PROVE SharedTypeOK'
    <2>1. op' \in Ops
      <3>1. \E s \in OpSteps : OpGoto(t, s)
        BY <1>1, Zenon DEF Step, Acquire, Create, Created, Anchor, Release, Unanchor, Wait, Join, Find,
                           Erase, AcquireReturns, ReleaseReturns, OpSteps
      <3> QED
        BY Zenon, <3>1, OpGotoTypes
    <2>2. sending' = sending /\ inFlight' = inFlight /\ calls' = calls /\ generation' = generation
      BY Zenon, <1>1, StepFrame
    <2>3. lifecycle' \in Threads \union {None}
      BY <1>1, StepFrame, Zenon DEF Acquire, Release, Unanchor
    <2>8. live' \subseteq Contexts
      BY Zenon, <1>1, StepFrame DEF Wait, Join, Erase, ReleaseReturns
    <2>4. hostMutex' \in HostThreads \union {None} /\ hostHandle' \in Engines \union {0}
      BY <1>1, StepFrame, Zenon DEF Anchor
    <2>5. run' \in [Engines -> {"none", "up", "stopping", "done"}]
      BY Zenon, <1>1, StepFrame DEF Create, Wait
    <2>6. handle' \in Engines \union {0}
      BY Zenon, <1>1, StepFrame DEF Created, Wait, RunInv
    <2>7. references' \in [Contexts -> Nat]
      BY <1>1, StepFrame DEF Acquire, Release
    <2> QED
      BY Zenon, <2>1, <2>2, <2>3, <2>4, <2>5, <2>6, <2>7, <2>8
  <1>2. ASSUME NEW t \in Threads, Shutdown(t) PROVE SharedTypeOK'
    <2>1. op' \in Ops
      BY Zenon, <1>2, BeginTypes DEF Shutdown, OpSteps
    <2> QED
      BY <1>2, <2>1 DEF Shutdown, Begin
  <1>3. ASSUME NEW c \in Clients, ClientAcquires(c) PROVE SharedTypeOK'
    <2>1. op' \in Ops
      BY Zenon, <1>3, BeginTypes DEF ClientAcquires, OpSteps, Contexts, Threads
    <2> QED
      BY <1>3, <2>1 DEF ClientAcquires, Begin, Contexts
  <1>4. ASSUME NEW c \in Clients, ClientCalls(c) PROVE SharedTypeOK'
    <2>1. op' \in Ops
      BY <1>4, BeginTypes DEF ClientCalls, OpSteps, Contexts, Threads
    <2> QED
      BY <1>4, <2>1 DEF ClientCalls, Begin
  <1>5. ASSUME NEW t \in HostThreads, Configure(t) PROVE SharedTypeOK'
    <2>0. {generation, generation + 1} \subseteq Contexts \union {0, None}
      BY <1>5 DEF Configure, Begin, Contexts, Generations
    <2>1. op' \in Ops
      BY Zenon, <1>5, <2>0, BeginTypes DEF Configure, OpSteps, Threads
    <2> QED
      BY <1>5, <2>1 DEF Configure, Begin, Contexts, Generations
  <1>6. ASSUME NEW t \in HostThreads, Deinit(t) PROVE SharedTypeOK'
    <2>0. {generation, generation + 1} \subseteq Contexts \union {0, None}
      BY <1>6 DEF Deinit, Begin, Contexts, Generations
    <2>1. op' \in Ops
      BY Zenon, <1>6, <2>0, BeginTypes DEF Deinit, OpSteps, Threads
    <2> QED
      BY <1>6, <2>1 DEF Deinit, Begin
  <1>7. ASSUME NEW h \in Engines, EngineStep(h) \/ \E p \in Packets : Emit(h, p) PROVE SharedTypeOK'
    <2>1. sending' \in Sendings
      <3>1. ASSUME NEW p \in Packets, Emit(h, p) PROVE sending' \in Sendings
        BY <3>1, Zenon DEF Emit, Sendings, Quiet
      <3>2. CASE Snapshot(h)
        BY <3>2, SendGotoTypes DEF Snapshot, Sendings, Registered
      <3>3. ASSUME NEW c \in Contexts, CallClient(h, c) PROVE sending' \in Sendings
        <4>1. sending[h].left \ {c} \in SUBSET Contexts /\ sending[h].packet \in Packets
          BY Zenon DEF Sendings
        <4> QED
          BY Zenon, <3>3, <4>1 DEF CallClient, Sendings
      <3>4. CASE HandOver(h) \/ HandedOver(h) \/ EndCallback(h) \/ Stop(h)
        BY Zenon, <3>4, SendGotoTypes DEF HandOver, HandedOver, EndCallback, Stop
      <3> QED
        BY Zenon, <1>7, <3>1, <3>2, <3>3, <3>4 DEF EngineStep
    <2>2. inFlight' \in Nat
      <3>1. CASE EndCallback(h)
        BY <3>1 DEF EndCallback, CallbackInv
      <3>2. CASE Snapshot(h)
        BY <3>2 DEF Snapshot
      <3>3. EndCallback(h) \/ Snapshot(h) \/ inFlight' = inFlight
        BY <1>7, Zenon DEF EngineStep, Emit, CallClient, HandOver, HandedOver, Stop
      <3> QED
        BY Zenon, <3>1, <3>2, <3>3
    <2>3. run' \in [Engines -> {"none", "up", "stopping", "done"}]
      <3>1. CASE Stop(h)
        BY Zenon, <3>1 DEF Stop
      <3> QED
        BY Zenon, <1>7, <3>1, EngineFrame
    <2> QED
      BY <1>7, <2>1, <2>2, <2>3, EngineFrame
  <1>8. CASE Unbind \/ (\E b \in BOOLEAN : SetHandler(b)) \/ UNCHANGED svars
    BY <1>8 DEF Unbind, SetHandler, svars
  <1> QED
    BY Zenon, <1>1, <1>2, <1>3, <1>4, <1>5, <1>6, <1>7, <1>8 DEF SharedNext, allVars

\* Whose context is whose: a client's is its own, configure's the newest
\* generation, deinit's an older one; and who may be between the steps of a
\* call that keeps the lifecycle mutex.
Acquiring == {"acquire", "create", "created"}
Leaving == {"release", "wait", "join", "erase"}

LEMMA ContextFacts ==
    ASSUME SharedInv
    PROVE  /\ \A t \in Threads : op[t].step \in Acquiring \union {"release"} => op[t].ctx \in Contexts
           /\ \A t \in HostThreads : op[t].step \in Acquiring => op[t].ctx = generation
           /\ \A c \in Clients : op[c].step \in Acquiring \union {"release"} => op[c].ctx = c
           /\ \A t \in Threads : op[t].step \in Leaving => op[t].ctx # generation
           /\ \A t, u \in Threads : op[t].step \in Acquiring /\ op[u].step \in Acquiring \union Leaving
                                      /\ op[t].ctx = op[u].ctx => t = u
           /\ \A t \in Threads : \A c \in Clients :
                op[t].step \in Acquiring \union Leaving /\ op[t].ctx = c => t = c
  <1> USE DEF Acquiring, Leaving
  <1>1. generation \in Nat /\ OpInv
    BY Zenon DEF SharedInv, SharedTypeOK
  <1>2. Generations \subseteq Nat /\ (\A n \in Nat : n \notin Clients) /\ None \notin Clients \union Nat
    BY SharedAssumption DEF Generations
  <1>3. \A t \in HostThreads :
          /\ op[t].step \in Acquiring => hostMutex = t /\ op[t].ctx = generation /\ generation \in Generations
          /\ op[t].step = "release" => op[t].ctx \in Generations
          /\ op[t].step \in Leaving => op[t].ctx \in Generations \union Nat \union {None}
          /\ op[t].step \in Leaving /\ op[t].ctx \in Nat => op[t].ctx < generation
    BY <1>1 DEF OpInv
  <1>4. \A c \in Clients :
          /\ op[c].step \in Acquiring \union {"release"} => op[c].ctx = c
          /\ op[c].step \in Leaving => op[c].ctx \in {c, None}
    BY Zenon, <1>1 DEF OpInv
  <1>5. \A t \in HostThreads : op[t].step \in Leaving => op[t].ctx # generation
    BY <1>1, <1>3
  <1>10. \A t \in HostThreads : op[t].step \in Leaving => op[t].ctx \notin Clients
    <2>1. \A x \in Generations \union Nat \union {None} : x \notin Clients
      BY Zenon, <1>2
    <2> QED
      BY Zenon, <1>3, <2>1
  <1>11. \A t \in HostThreads : op[t].step \in Acquiring => op[t].ctx \notin Clients
    BY Zenon, <1>1, <1>2, <1>3
  <1>6. \A t, u \in Threads : op[t].step \in Acquiring /\ op[u].step \in Acquiring \union Leaving
                               /\ op[t].ctx = op[u].ctx => t = u
    <2> SUFFICES ASSUME NEW t \in Threads, NEW u \in Threads, op[t].step \in Acquiring,
                        op[u].step \in Acquiring \union Leaving, op[t].ctx = op[u].ctx
                 PROVE  t = u
      BY Zenon
    <2>1. CASE t \in HostThreads /\ u \in HostThreads
      BY Zenon, <2>1, <1>3, <1>5
    <2>2. CASE t \in HostThreads /\ u \in Clients
      BY <2>2, <1>1, <1>2, <1>3, <1>4
    <2>3. CASE t \in Clients /\ u \in HostThreads
      BY Zenon, <2>3, <1>4, <1>10, <1>11
    <2>4. CASE t \in Clients /\ u \in Clients
      BY <2>4, <1>2, <1>4
    <2> QED
      BY Zenon, <2>1, <2>2, <2>3, <2>4 DEF Threads
  <1>7. \A t \in Threads : \A c \in Clients :
          op[t].step \in Acquiring \union Leaving /\ op[t].ctx = c => t = c
    BY Zenon, <1>2, <1>4, <1>10, <1>11 DEF Threads
  <1>8. \A t \in Threads : op[t].step \in Acquiring \union {"release"} => op[t].ctx \in Contexts
    BY Zenon, <1>3, <1>4 DEF Threads, Contexts
  <1>9. \A t \in Threads : op[t].step \in Leaving => op[t].ctx # generation
    BY <1>1, <1>2, <1>4, <1>5 DEF Threads
  <1> QED
    BY Zenon, <1>3, <1>4, <1>6, <1>7, <1>8, <1>9

LEMMA LifecycleFacts ==
    ASSUME SharedInv
    PROVE  \A t \in Threads : lifecycle \in {t, None} =>
             \A u \in Threads : u # t => op[u].step \notin {"create", "created", "wait", "join"}
  BY SharedAssumption DEF SharedInv, OpInv, Threads

LEMMA OpGotoEffect ==
    ASSUME SharedInv, NEW t \in Threads, NEW s, OpGoto(t, s)
    PROVE  /\ \A u \in Threads : u # t => op'[u] = op[u]
           /\ op'[t].step = s /\ op'[t].ctx = op[t].ctx
  BY Zenon DEF SharedInv, SharedTypeOK, Ops, OpGoto

LEMMA BeginEffect ==
    ASSUME SharedInv, NEW t \in Threads, NEW s, NEW c, Begin(t, s, c)
    PROVE  /\ \A u \in Threads : u # t => op'[u] = op[u]
           /\ op'[t].step = s /\ op'[t].ctx = c /\ op[t].step = "idle"
           /\ UNCHANGED <<registry, inFlight, run, sending>>
  BY Zenon DEF SharedInv, SharedTypeOK, Ops, Begin

LEMMA OpKept == SharedInv /\ [SharedNext]_allVars => OpInv'
  <1> SUFFICES ASSUME SharedInv, [SharedNext]_allVars PROVE OpInv'
    BY Zenon
  <1>1. UNCHANGED <<registry, op, host>> => OpInv'
    BY DEF SharedInv, OpInv, registry, host
  <1>18. Outside => OpInv'
    BY Zenon, <1>1 DEF Outside
  <1>2. ASSUME NEW h \in Engines, EngineStep(h) \/ \E p \in Packets : Emit(h, p)
        PROVE  UNCHANGED <<registry, op, host>>
    BY Zenon, <1>2, EngineFrame
  <1> USE SharedAssumption DEF SharedInv, SharedTypeOK, Ops, OpSteps, OpInv, Contexts,
      Generations, Threads, registry, host
  <1>3. ASSUME NEW t \in Threads, Acquire(t) PROVE OpInv'
    BY <1>3 DEF Acquire, AcquireReturns, OpGoto
  <1>4. ASSUME NEW t \in Threads, Create(t) PROVE OpInv'
    BY <1>4 DEF Create, OpGoto
  <1>5. ASSUME NEW t \in Threads, Created(t) PROVE OpInv'
    BY <1>5 DEF Created, AcquireReturns, OpGoto
  <1>6. ASSUME NEW t \in Threads, Anchor(t) PROVE OpInv'
    BY <1>6 DEF Anchor, OpGoto
  <1>7. ASSUME NEW t \in Threads, Release(t) PROVE OpInv'
    BY <1>7 DEF Release, OpGoto
  <1>8. ASSUME NEW t \in Threads, Unanchor(t) PROVE OpInv'
    BY <1>8 DEF Unanchor, OpGoto
  <1>9. ASSUME NEW t \in Threads, Wait(t) PROVE OpInv'
    BY <1>9 DEF Wait, ReleaseReturns, OpGoto
  <1>10. ASSUME NEW t \in Threads, Join(t) PROVE OpInv'
    BY <1>10 DEF Join, ReleaseReturns, OpGoto
  <1>11. ASSUME NEW t \in Threads, Find(t) PROVE OpInv'
    BY <1>11 DEF Find, OpGoto
  <1>12. ASSUME NEW t \in Threads, Erase(t) PROVE OpInv'
    BY <1>12 DEF Erase, OpGoto
  <1>13. ASSUME NEW t \in Threads, Shutdown(t) PROVE OpInv'
    BY <1>13 DEF Shutdown, Begin
  <1>14. ASSUME NEW c \in Clients, ClientAcquires(c) PROVE OpInv'
    BY <1>14 DEF ClientAcquires, Begin
  <1>15. ASSUME NEW c \in Clients, ClientCalls(c) PROVE OpInv'
    <2>1. PICK step \in {"release", "anchor"} : Begin(c, step, c)
      BY Zenon, <1>15 DEF ClientCalls
    <2> QED
      BY SMTT(30), <1>15, <2>1 DEF ClientCalls, Begin
  <1>16. ASSUME NEW t \in HostThreads, Configure(t) PROVE OpInv'
    BY SMTT(30), <1>16 DEF Configure, Begin
  <1>17. ASSUME NEW t \in HostThreads, Deinit(t) PROVE OpInv'
    <2>1. PICK s \in {"find", "erase"} : Begin(t, s, generation) /\ (s = "find" => hostHandle # 0)
      BY Zenon, <1>17 DEF Deinit
    <2>2. hostMutex = None /\ hostMutex' = None /\ generation' = generation + 1
      BY Zenon, <1>17 DEF Deinit
    <2>3. s = "find" => generation \in Generations
      BY Zenon, <2>1 DEF HoldInv
    <2> QED
      BY SMTT(30), <2>1, <2>2, <2>3 DEF Begin
  <1> HIDE SharedAssumption DEF SharedInv, SharedTypeOK, Ops, OpSteps, OpInv, Contexts, Generations, Threads, registry, host
  <1> QED
    BY <1>1, <1>2, <1>3, <1>4, <1>5, <1>6, <1>7, <1>8, <1>9, <1>10,
       <1>11, <1>12, <1>13, <1>14, <1>15, <1>16, <1>17, <1>18, SharedCases DEF Step

LEMMA RunKept == SharedInv /\ [SharedNext]_allVars => RunInv'
  <1> SUFFICES ASSUME SharedInv, [SharedNext]_allVars PROVE RunInv'
    BY Zenon
  <1>1. UNCHANGED <<registry, op, run>> => RunInv'
    BY Zenon DEF SharedInv, RunInv, registry, host
  <1>19. Outside => RunInv'
    BY Zenon, <1>1 DEF Outside
  <1>2. ASSUME NEW h \in Engines, EngineStep(h) \/ \E p \in Packets : Emit(h, p)
       PROVE  Stop(h) \/ UNCHANGED <<registry, op, run>>
    BY Zenon, <1>2, EngineFrame
  <1> USE SharedAssumption DEF SharedInv, SharedTypeOK, Ops, OpSteps, OpInv, RunInv, HoldInv,
      Engines, Threads, registry, host
  <1>3. ASSUME NEW t \in Threads, Acquire(t) PROVE RunInv'
    <2>1. lifecycle = None /\ lifecycle \notin Threads /\ UNCHANGED <<handle, run>>
      BY Zenon, <1>3 DEF Acquire
    <2>2. PICK s \in OpSteps \ {"created"} : OpGoto(t, s)
      BY Zenon, <1>3 DEF Acquire, AcquireReturns
    <2>3. \A u \in Threads : op'[u].step = "created" => op[u].step = "created"
      BY <2>2 DEF OpGoto
    <2> QED
      BY <2>1, <2>3
  <1>4. ASSUME NEW t \in Threads, Create(t) PROVE RunInv'
    BY <1>4 DEF Create, OpGoto
  <1>5. ASSUME NEW t \in Threads, Created(t) PROVE RunInv'
    BY <1>5 DEF Created, AcquireReturns, OpGoto
  <1>6. ASSUME NEW t \in Threads, Anchor(t) PROVE RunInv'
    BY <1>6 DEF Anchor, OpGoto
  <1>7. ASSUME NEW t \in Threads, Release(t) PROVE RunInv'
    BY <1>7 DEF Release, OpGoto
  <1>8. ASSUME NEW t \in Threads, Unanchor(t) PROVE RunInv'
    <2>1. lifecycle = None /\ lifecycle \notin Threads /\ UNCHANGED <<handle, run>>
      BY Zenon, <1>8 DEF Unanchor
    <2>2. PICK s \in OpSteps \ {"created"} : OpGoto(t, s)
      BY Zenon, <1>8 DEF Unanchor
    <2>3. \A u \in Threads : op'[u].step = "created" => op[u].step = "created"
      BY <2>2 DEF OpGoto
    <2> QED
      BY <2>1, <2>3
  <1>9. ASSUME NEW t \in Threads, Wait(t) PROVE RunInv'
    <2>1. CASE Registered # {} \/ anchored
      BY <1>9, <2>1 DEF Wait, ReleaseReturns, OpGoto
    <2>2. CASE ~(Registered # {} \/ anchored)
      <3>1. OpGoto(t, "join") /\ handle' = 0 /\ run' = [run EXCEPT ![handle] = "stopping"]
            /\ lifecycle' = lifecycle /\ lifecycle = t /\ handle \in Engines
        BY Zenon, <1>9, <2>2 DEF Wait
      <3> QED
        BY <3>1 DEF OpGoto
    <2> QED
      BY Zenon, <2>1, <2>2
  <1>10. ASSUME NEW t \in Threads, Join(t) PROVE RunInv'
    BY <1>10 DEF Join, ReleaseReturns, OpGoto
  <1>11. ASSUME NEW t \in Threads, Find(t) PROVE RunInv'
    BY <1>11 DEF Find, OpGoto
  <1>12. ASSUME NEW t \in Threads, Erase(t) PROVE RunInv'
    BY <1>12 DEF Erase, OpGoto
  <1>13. ASSUME NEW t \in Threads, Shutdown(t) PROVE RunInv'
    BY <1>13 DEF Shutdown, Begin
  <1>14. ASSUME NEW c \in Clients, ClientAcquires(c) PROVE RunInv'
    BY <1>14 DEF ClientAcquires, Begin
  <1>15. ASSUME NEW c \in Clients, ClientCalls(c) PROVE RunInv'
    <2>1. PICK step \in {"release", "anchor"} : Begin(c, step, c)
      BY Zenon, <1>15 DEF ClientCalls
    <2> QED
      BY <1>15, <2>1 DEF ClientCalls, Begin
  <1>16. ASSUME NEW t \in HostThreads, Configure(t) PROVE RunInv'
    BY <1>16 DEF Configure, Begin
  <1>17. ASSUME NEW t \in HostThreads, Deinit(t) PROVE RunInv'
    BY <1>17 DEF Deinit, Begin
  <1>18. ASSUME NEW h \in Engines, Stop(h) PROVE RunInv'
    BY SMTT(30), <1>18 DEF Stop
  <1> HIDE SharedAssumption DEF SharedInv, SharedTypeOK, Ops, OpSteps, OpInv, RunInv, HoldInv,
                                Engines, Threads, registry, host
  <1> QED
    BY Zenon, <1>1, <1>2, <1>3, <1>4, <1>5, <1>6, <1>7, <1>8, <1>9, <1>10,
       <1>11, <1>12, <1>13, <1>14, <1>15, <1>16, <1>17, <1>18, <1>19, SharedCases DEF Step

LEMMA HoldKept == SharedInv /\ [SharedNext]_allVars => HoldInv'
  <1> SUFFICES ASSUME SharedInv, [SharedNext]_allVars PROVE HoldInv'
    BY Zenon
  <1>1. UNCHANGED <<registry, op, host>> => HoldInv'
    BY DEF SharedInv, HoldInv, registry, host
  <1>18. Outside => HoldInv'
    BY Zenon, <1>1 DEF Outside
  <1>2. ASSUME NEW h \in Engines, EngineStep(h) \/ \E p \in Packets : Emit(h, p)
        PROVE  UNCHANGED <<registry, op, host>>
    BY Zenon, <1>2, EngineFrame
  <1>0. HoldInv /\ references \in [Contexts -> Nat] /\ 0 \notin Engines /\ None \notin Threads
    BY SharedAssumption DEF SharedInv, SharedTypeOK, Engines, Threads
  <1> USE <1>0 DEF HoldInv, Threads, registry, host
  <1>20. ASSUME NEW t \in Threads, op'[t].step \in {"unanchor", "find", "erase"}, op[t].step = "idle",
                UNCHANGED registry, \A u \in Threads : u # t => op'[u] = op[u],
                \/ UNCHANGED <<hostHandle, generation>>
                \/ hostHandle' = 0 /\ \A u \in HostThreads : op[u].step \notin {"create", "created", "anchor"}
         PROVE  HoldInv'
    <2>6. handle' = handle /\ references' = references /\ anchored' = anchored
      BY Zenon, <1>20
    <2>1. ASSUME NEW u \in Threads
          PROVE  /\ op'[u].step \in {"create", "created", "join"} => handle' = 0
                 /\ op'[u].step = "wait" => handle' # 0
      <3>1. CASE u = t
        BY Zenon, <1>20, <3>1
      <3>2. CASE u # t
        <4>1. op'[u] = op[u]
          BY Zenon, <1>20, <3>2
        <4> QED
          BY Zenon, <2>6, <4>1
      <3> QED
        BY Zenon, <3>1, <3>2
    <2>2. ASSUME NEW c \in Contexts, references'[c] > 0, handle' = 0
          PROVE  \E u \in Threads : op'[u].step \in {"create", "created"} /\ op'[u].ctx = c
      <3>1. PICK u \in Threads : op[u].step \in {"create", "created"} /\ op[u].ctx = c
        BY Zenon, <2>2, <2>6
      <3>2. op'[u] = op[u]
        BY Zenon, <1>20, <3>1
      <3> QED
        BY Zenon, <3>1, <3>2
    <2>3. hostHandle' # 0 =>
            hostHandle' = handle' /\ generation' \in Generations /\ references'[generation'] > 0
      BY Zenon, <1>20
    <2>4. \A u \in HostThreads : op'[u].step \in {"create", "created", "anchor"} => references'[generation'] > 0
      BY Zenon, <1>20
    <2>5. \A c \in Clients : op'[c].step = "anchor" => references'[c] > 0
      BY Zenon, <1>20
    <2> QED
      BY Zenon, <2>1, <2>2, <2>3, <2>4, <2>5, <2>6
  <1>3. ASSUME NEW t \in Threads, Acquire(t) PROVE HoldInv'
    <2>1. op[t].step = "acquire" /\ lifecycle = None
          /\ UNCHANGED <<handle, anchored, hostHandle, generation>>
          /\ references' = [references EXCEPT ![op[t].ctx] = @ + 1]
      BY Zenon, <1>3 DEF Acquire
    <2>2. /\ op[t].ctx \in Contexts
          /\ t \in HostThreads => op[t].ctx = generation
          /\ t \in Clients => op[t].ctx = t
      BY Zenon, <2>1, ContextFacts DEF Acquiring
    <2>3. /\ references'[op[t].ctx] > 0
          /\ \A c \in Contexts : references[c] > 0 => references'[c] > 0
          /\ \A c \in Contexts : c # op[t].ctx => references'[c] = references[c]
      BY <2>1, <2>2
    <2>4. hostHandle # 0 \/ (\E u \in HostThreads : op[u].step \in {"create", "created", "anchor"})
            => references'[generation] > 0
      <3>1. references[generation] > 0 => references'[generation] > 0
        BY <2>1, <2>2, <2>3
      <3> QED
        BY Zenon, <3>1
    <2>5. CASE handle # 0 /\ AcquireReturns(t)
      <3>1. PICK s \in {"anchor", "idle"} : OpGoto(t, s) /\ (s = "anchor" => op[t].ctx \in Generations)
        BY Zenon, <2>5 DEF AcquireReturns
      <3>2. t \in Clients => s = "idle"
        BY <2>2, <3>1, SharedAssumption DEF Generations
      <3>3. op'[t].step = s /\ \A u \in Threads : u # t => op'[u] = op[u]
        BY Zenon, <3>1, OpGotoEffect
      <3>4. ASSUME NEW u \in Threads
            PROVE  /\ op'[u].step \in {"create", "created", "join"} => handle' = 0
                   /\ op'[u].step = "wait" => handle' # 0
        BY Zenon, <2>1, <2>5, <3>1, <3>3
      <3>5. hostHandle' # 0 =>
              hostHandle' = handle' /\ generation' \in Generations /\ references'[generation'] > 0
        BY Zenon, <2>1, <2>4
      <3>6. ASSUME NEW u \in HostThreads, op'[u].step \in {"create", "created", "anchor"}
            PROVE  references'[generation'] > 0
        BY Zenon, <2>1, <2>2, <2>3, <2>4, <3>3, <3>6
      <3>7. ASSUME NEW c \in Clients, op'[c].step = "anchor" PROVE references'[c] > 0
        BY Zenon, <2>3, <3>2, <3>3, <3>7 DEF Contexts
      <3> QED
        BY Zenon, <2>1, <2>5, <3>4, <3>5, <3>6, <3>7
    <2>6. CASE handle = 0 /\ OpGoto(t, "create")
      BY SMTT(30), <2>1, <2>2, <2>3, <2>4, <2>6, OpGotoEffect DEF Contexts
    <2> QED
      BY Zenon, <1>3, <2>5, <2>6 DEF Acquire
  <1>4. ASSUME NEW t \in Threads, Create(t) PROVE HoldInv'
    BY SMTT(30), <1>4, OpGotoEffect DEF Create
  <1>5. ASSUME NEW t \in Threads, Created(t) PROVE HoldInv'
    <2>1. handle' \in Engines
      BY Zenon, <1>5 DEF Created, SharedInv, RunInv
    <2>5. op[t].step = "created" /\ UNCHANGED <<anchored, references, hostHandle, generation>>
      BY Zenon, <1>5 DEF Created
    <2>6. lifecycle = t
      BY Zenon, <2>5 DEF SharedInv, OpInv
    <2>2. \A u \in Threads : u # t => op[u].step \notin {"create", "created", "wait", "join"}
      BY Zenon, <2>6, LifecycleFacts
    <2>3. PICK s \in {"anchor", "idle"} : OpGoto(t, s) /\ (s = "anchor" => op[t].ctx \in Generations)
      BY Zenon, <1>5 DEF Created, AcquireReturns
    <2>4. t \in Clients => s = "idle"
      BY <2>3, <2>5, ContextFacts, SharedAssumption DEF Acquiring, Generations
    <2>7. hostHandle = 0
      BY Zenon, <2>1, <2>5
    <2>8. handle' # 0
      BY Zenon, <2>1
    <2> QED
      BY <2>2, <2>3, <2>4, <2>5, <2>7, <2>8, OpGotoEffect
  <1>6. ASSUME NEW t \in Threads, Anchor(t) PROVE HoldInv'
    <2>1. op[t].step = "anchor" /\ lifecycle = None /\ OpGoto(t, "idle")
      BY Zenon, <1>6 DEF Anchor
    <2>2. t \in HostThreads => generation \in Generations /\ references[generation] > 0
      BY Zenon, <2>1 DEF SharedInv, OpInv
    <2>3. handle # 0
      BY <2>1, <2>2, LifecycleFacts DEF Contexts
    <2> QED
      BY SMTT(30), <1>6, <2>1, <2>2, <2>3, OpGotoEffect DEF Anchor
  <1>7. ASSUME NEW t \in Threads, Release(t) PROVE HoldInv'
    <2>1. op[t].step = "release" /\ lifecycle = None
          /\ UNCHANGED <<handle, anchored, hostHandle, generation>>
          /\ references' = [references EXCEPT ![op[t].ctx] = IF @ = 0 THEN 0 ELSE @ - 1]
      BY Zenon, <1>7 DEF Release
    <2>2. /\ op[t].ctx \in Contexts /\ op[t].ctx # generation
          /\ \A c \in Clients : c = op[t].ctx => c = t
      BY Zenon, <2>1, ContextFacts DEF Acquiring, Leaving
    <2>3. /\ \A c \in Contexts : references'[c] > 0 => references[c] > 0
          /\ \A c \in Contexts : c # op[t].ctx => references'[c] = references[c]
      BY <2>1, <2>2
    <2>4. hostHandle # 0 \/ (\E u \in HostThreads : op[u].step \in {"create", "created", "anchor"})
            => references'[generation] > 0
      BY <2>1, <2>2, <2>3
    <2>5. \A u \in Threads : u # t => op[u].step \notin {"create", "created", "wait", "join"}
      BY Zenon, <2>1, LifecycleFacts
    <2>6. references[op[t].ctx] = 1 => handle # 0
      BY <2>1, <2>2, <2>5
    <2>7. PICK s \in {"wait", "idle"} : OpGoto(t, s) /\ (s = "wait" => references[op[t].ctx] = 1)
      BY Zenon, <1>7 DEF Release
    <2>8. op'[t].step = s /\ \A u \in Threads : u # t => op'[u] = op[u]
      BY Zenon, <2>7, OpGotoEffect
    <2>9. ASSUME NEW u \in Threads
          PROVE  /\ op'[u].step \in {"create", "created", "join"} => handle' = 0
                 /\ op'[u].step = "wait" => handle' # 0
      <3>1. CASE u = t
        BY Zenon, <2>1, <2>6, <2>7, <2>8, <3>1
      <3>2. CASE u # t
        BY Zenon, <2>5, <2>8, <3>2
      <3> QED
        BY Zenon, <3>1, <3>2
    <2>10. \A c \in Contexts : references'[c] > 0 => handle' # 0
      BY Zenon, <2>1, <2>3, <2>5
    <2>11. hostHandle' # 0 =>
             hostHandle' = handle' /\ generation' \in Generations /\ references'[generation'] > 0
      BY Zenon, <2>1, <2>4
    <2>12. \A u \in HostThreads : op'[u].step \in {"create", "created", "anchor"} => references'[generation'] > 0
      BY Zenon, <2>1, <2>4, <2>7, <2>8
    <2>13. \A c \in Clients : op'[c].step = "anchor" => references'[c] > 0
      BY Zenon, <2>2, <2>3, <2>7, <2>8 DEF Contexts
    <2> QED
      BY Zenon, <2>1, <2>9, <2>10, <2>11, <2>12, <2>13
  <1>8. ASSUME NEW t \in Threads, Unanchor(t) PROVE HoldInv'
    <2>1. PICK s \in {"wait", "idle"} : OpGoto(t, s) /\ (s = "wait" => anchored)
      BY Zenon, <1>8 DEF Unanchor
    <2> QED
      BY <1>8, <2>1, OpGotoEffect DEF Unanchor
  <1>9. ASSUME NEW t \in Threads, Wait(t) PROVE HoldInv'
    <2>1. op[t].step = "wait" /\ UNCHANGED <<anchored, references, hostHandle, generation>>
      BY Zenon, <1>9 DEF Wait
    <2>2. CASE Registered # {} \/ anchored
      <3>1. handle' = handle /\ \E s \in {"erase", "idle"} : OpGoto(t, s)
        BY Zenon, <1>9, <2>2 DEF Wait, ReleaseReturns
      <3> QED
        BY <2>1, <3>1, OpGotoEffect
    <2>3. CASE Registered = {} /\ ~anchored
      <3>1. OpGoto(t, "join") /\ handle' = 0 /\ anchored' = anchored
        BY Zenon, <1>9, <2>3 DEF Wait
      <3>2. \A c \in Contexts : ~(references[c] > 0)
        BY Zenon, <2>3 DEF Registered
      <3>3. hostHandle = 0
        BY Zenon, <3>2 DEF Contexts
      <3>4. \A u \in Threads : u # t => op[u].step \notin {"create", "created", "wait", "join"}
        BY <2>1, LifecycleFacts DEF SharedInv, OpInv
      <3> QED
        BY <2>1, <2>3, <3>1, <3>2, <3>3, <3>4, OpGotoEffect
    <2> QED
      BY Zenon, <2>2, <2>3
  <1>10. ASSUME NEW t \in Threads, Join(t) PROVE HoldInv'
    <2>1. \E s \in {"erase", "idle"} : OpGoto(t, s)
      BY Zenon, <1>10 DEF Join, ReleaseReturns
    <2> QED
      BY <1>10, <2>1, OpGotoEffect DEF Join
  <1>11. ASSUME NEW t \in Threads, Find(t) PROVE HoldInv'
    BY <1>11, OpGotoEffect DEF Find
  <1>12. ASSUME NEW t \in Threads, Erase(t) PROVE HoldInv'
    BY <1>12, OpGotoEffect DEF Erase
  <1>13. ASSUME NEW t \in Threads, Shutdown(t) PROVE HoldInv'
    <2>1. Begin(t, "unanchor", None) /\ UNCHANGED <<hostHandle, generation>>
      BY Zenon, <1>13 DEF Shutdown
    <2>2. /\ op'[t].step = "unanchor" /\ op[t].step = "idle"
          /\ UNCHANGED registry /\ \A u \in Threads : u # t => op'[u] = op[u]
      BY Zenon, <2>1, BeginEffect
    <2> QED
      BY Zenon, <1>20, <2>1, <2>2
  <1>14. ASSUME NEW c \in Clients, ClientAcquires(c) PROVE HoldInv'
    BY <1>14, BeginEffect DEF ClientAcquires
  <1>15. ASSUME NEW c \in Clients, ClientCalls(c) PROVE HoldInv'
    <2>1. c \notin HostThreads
      BY Zenon, SharedAssumption
    <2> QED
      BY <1>15, <2>1, BeginEffect DEF ClientCalls
  <1>16. ASSUME NEW t \in HostThreads, Configure(t) PROVE HoldInv'
    <2>1. \A u \in HostThreads : op[u].step \notin {"create", "created", "anchor"}
      BY <1>16, SharedAssumption DEF Configure, SharedInv, OpInv
    <2>2. t \notin Clients
      BY Zenon, SharedAssumption
    <2> QED
      BY <1>16, <2>1, <2>2, BeginEffect DEF Configure
  <1>17. ASSUME NEW t \in HostThreads, Deinit(t) PROVE HoldInv'
    <2>1. \A u \in HostThreads : op[u].step \notin {"create", "created", "anchor"}
      BY <1>17, SharedAssumption DEF Deinit, SharedInv, OpInv
    <2>3. PICK s \in {"find", "erase"} : Begin(t, s, generation)
      BY Zenon, <1>17 DEF Deinit
    <2>4. /\ op'[t].step \in {"find", "erase"} /\ op[t].step = "idle"
          /\ UNCHANGED registry /\ \A u \in Threads : u # t => op'[u] = op[u]
      BY Zenon, <2>3, BeginEffect
    <2>5. hostHandle' = 0
      BY Zenon, <1>17 DEF Deinit
    <2> QED
      BY Zenon, <1>20, <2>1, <2>4, <2>5
  <1> HIDE <1>0 DEF HoldInv, Threads, registry, host
  <1> QED
    BY <1>1, <1>2, <1>3, <1>4, <1>5, <1>6, <1>7, <1>8, <1>9, <1>10,
       <1>11, <1>12, <1>13, <1>14, <1>15, <1>16, <1>17, <1>18, SharedCases DEF Step

LEMMA CallbackKept == SharedInv /\ [SharedNext]_allVars => CallbackInv'
  <1> SUFFICES ASSUME SharedInv, [SharedNext]_allVars PROVE CallbackInv'
    BY Zenon
  <1>1. UNCHANGED <<inFlight, run, sending>> => CallbackInv'
    BY Zenon DEF SharedInv, CallbackInv
  <1>12. Outside => CallbackInv'
    BY Zenon, <1>1 DEF Outside
  <1>13. ASSUME (\E t \in Threads : Shutdown(t))
                \/ (\E c \in Clients : ClientAcquires(c) \/ ClientCalls(c))
                \/ (\E t \in HostThreads : Configure(t) \/ Deinit(t))
         PROVE  CallbackInv'
    BY Zenon, <1>1, <1>13 DEF Shutdown, ClientAcquires, ClientCalls, Configure, Deinit, Begin
  <1>2. ASSUME NEW t \in Threads, Step(t) PROVE Create(t) \/ Wait(t) \/ UNCHANGED <<inFlight, run, sending>>
    BY Zenon, <1>2 DEF Step, Acquire, Created, Anchor, Release, Unanchor, Join, Find, Erase
  <1>7. ASSUME NEW h \in Engines, NEW c \in Contexts, CallClient(h, c) PROVE CallbackInv'
    <2>1. /\ sending[h].step = "calling" /\ UNCHANGED <<inFlight, run>>
          /\ sending' = [sending EXCEPT ![h] =
                           [step |-> IF c = generation /\ bound THEN "found" ELSE "calling",
                            packet |-> sending[h].packet, left |-> sending[h].left \ {c}]]
      BY <1>7 DEF CallClient
    <2>2. sending \in Sendings
      BY Zenon DEF SharedInv, SharedTypeOK
    <2>3. /\ \A g \in Engines : g # h => sending'[g] = sending[g]
          /\ sending'[h].step \in {"found", "calling"}
      BY <2>1, <2>2 DEF Sendings
    <2>4. inFlight = 1 /\ run[h] \in {"up", "stopping"}
      BY Zenon, <2>1 DEF SharedInv, CallbackInv
    <2>5. ASSUME NEW g \in Engines
          PROVE  /\ sending'[g].step # "idle" => run'[g] \in {"up", "stopping"}
                 /\ sending'[g].step \in {"idle", "checked"} => sending'[g].left = {}
                 /\ sending'[g].step \in {"calling", "found", "handed"} => inFlight' = 1
      <3>1. CASE g = h
        BY Zenon, <2>1, <2>3, <2>4, <3>1
      <3>2. CASE g # h
        BY Zenon, <2>1, <2>3, <3>2 DEF SharedInv, CallbackInv
      <3> QED
        BY Zenon, <3>1, <3>2
    <2> QED
      BY Zenon, <2>3, <2>5 DEF CallbackInv
  <1> USE SharedAssumption DEF SharedInv, SharedTypeOK, Ops, OpSteps, Sendings, RunInv,
      CallbackInv, OpInv, Registered
  <1>3. ASSUME NEW t \in Threads, Create(t) PROVE CallbackInv'
    BY <1>3 DEF Create, OpGoto
  <1>4. ASSUME NEW t \in Threads, Wait(t) PROVE CallbackInv'
    BY <1>4 DEF Wait, ReleaseReturns, OpGoto
  <1>5. ASSUME NEW h \in Engines, NEW p \in Packets, Emit(h, p) PROVE CallbackInv'
    BY <1>5 DEF Emit, Quiet
  <1>6. ASSUME NEW h \in Engines, Snapshot(h) PROVE CallbackInv'
    BY <1>6 DEF Snapshot, SendGoto
  <1>8. ASSUME NEW h \in Engines, HandOver(h) PROVE CallbackInv'
    BY <1>8 DEF HandOver, SendGoto
  <1>9. ASSUME NEW h \in Engines, HandedOver(h) PROVE CallbackInv'
    BY <1>9 DEF HandedOver, SendGoto
  <1>10. ASSUME NEW h \in Engines, EndCallback(h) PROVE CallbackInv'
    BY <1>10 DEF EndCallback, SendGoto
  <1>11. ASSUME NEW h \in Engines, Stop(h) PROVE CallbackInv'
    BY Zenon, <1>11 DEF Stop
  <1> HIDE SharedAssumption DEF SharedInv, SharedTypeOK, Ops, OpSteps, Sendings, RunInv, CallbackInv, OpInv, Registered
  <1> QED
    BY Zenon, <1>1, <1>2, <1>3, <1>4, <1>5, <1>6, <1>7, <1>8, <1>9, <1>10,
       <1>11, <1>12, <1>13, SharedCases DEF EngineStep

LEMMA ContextKept == SharedInv /\ [SharedNext]_allVars => ContextInv'
  <1> SUFFICES ASSUME SharedInv, [SharedNext]_allVars PROVE ContextInv'
    BY Zenon
  <1>1. /\ UNCHANGED <<references, op, host, live>>
        /\ \A g \in Engines : sending'[g].left \subseteq sending[g].left
        => ContextInv'
    BY DEF SharedInv, ContextInv, HeldLive, LeaverGone, FutureUnseen, OpenerLive, host
  <1>19. Outside => ContextInv'
    BY Zenon, <1>1 DEF Outside, registry
  <1>2. ASSUME NEW h \in Engines, EngineStep(h) \/ \E p \in Packets : Emit(h, p), ~Snapshot(h)
       PROVE  /\ UNCHANGED <<references, op, host, live>>
              /\ \A g \in Engines : sending'[g].left \subseteq sending[g].left
    <2>1. UNCHANGED <<references, op, host, live>>
      BY Zenon, <1>2, EngineFrame DEF registry
    <2>2. sending \in Sendings
      BY Zenon DEF SharedInv, SharedTypeOK
    <2>3. ASSUME NEW p \in Packets, Emit(h, p)
          PROVE  \A g \in Engines : sending'[g].left \subseteq sending[g].left
      BY Zenon, <2>2, <2>3 DEF Emit, Sendings, Quiet
    <2>4. ASSUME NEW c \in Contexts, CallClient(h, c)
          PROVE  \A g \in Engines : sending'[g].left \subseteq sending[g].left
      BY Zenon, <2>2, <2>4 DEF CallClient, Sendings
    <2>5. CASE HandOver(h) \/ HandedOver(h) \/ EndCallback(h) \/ Stop(h)
      BY <2>1, <2>2, <2>5 DEF HandOver, HandedOver, EndCallback, Stop, SendGoto, Sendings
    <2> QED
      BY Zenon, <1>2, <2>1, <2>3, <2>4, <2>5 DEF EngineStep
  <1>0. /\ ContextInv /\ references \in [Contexts -> Nat] /\ generation \in Nat
        /\ Generations \subseteq Nat \intersect Contexts /\ Clients \subseteq Contexts
        /\ (\A c \in Clients : c \notin Nat) /\ None \notin HostThreads
    BY Zenon, SharedAssumption DEF SharedInv, SharedTypeOK, Generations, Contexts
  <1> USE DEF ContextInv, HeldLive, LeaverGone, FutureUnseen, OpenerLive, Threads, registry, host
  <1>20. ASSUME UNCHANGED <<references, sending, hostHandle, hostMutex, generation>>, live \subseteq live',
                \A u \in Threads : op'[u].step \in {"wait", "join", "erase"} /\ op'[u].ctx \in Contexts =>
                                     op'[u].step = op[u].step /\ op'[u].ctx = op[u].ctx,
                \A c \in Clients : op'[c].step \in {"acquire", "create", "created"} =>
                                     op[c].step \in {"acquire", "create", "created"} \/ c \in live'
         PROVE  ContextInv'
    BY Zenon, <1>0, <1>20
  <1>21. ASSUME NEW t \in Threads, NEW s, s \notin {"wait", "join", "erase", "acquire", "create", "created"},
                op'[t].step = s, \A u \in Threads : u # t => op'[u] = op[u],
                UNCHANGED <<references, sending, hostHandle, hostMutex, generation>>, live \subseteq live'
         PROVE  ContextInv'
    <2>1. \A u \in Threads : op'[u].step \in {"wait", "join", "erase"} => op'[u].step = op[u].step /\ op'[u].ctx = op[u].ctx
      BY Zenon, <1>21
    <2>2. \A c \in Clients : op'[c].step \in {"acquire", "create", "created"} => op[c].step \in {"acquire", "create", "created"}
      BY Zenon, <1>21
    <2> QED
      BY Zenon, <1>20, <1>21, <2>1, <2>2
  <1>3. ASSUME NEW t \in Threads, Acquire(t) PROVE ContextInv'
    <2>1. op[t].step = "acquire" /\ UNCHANGED <<sending, hostHandle, hostMutex, generation, live>>
          /\ references' = [references EXCEPT ![op[t].ctx] = @ + 1]
      BY Zenon, <1>3 DEF Acquire
    <2>2. PICK s \in {"anchor", "idle", "create"} : OpGoto(t, s)
      BY Zenon, <1>3 DEF Acquire, AcquireReturns
    <2>3. /\ op[t].ctx \in Contexts
          /\ t \in HostThreads => op[t].ctx = generation /\ hostMutex = t
          /\ t \in Clients => op[t].ctx = t
          /\ \A u \in Threads : u # t /\ op[u].step \in {"wait", "join", "erase"} => op[u].ctx # op[t].ctx
      BY Zenon, <2>1, ContextFacts DEF Acquiring, Leaving, SharedInv, OpInv
    <2>4. op[t].ctx \in live
      BY Zenon, <1>0, <2>1, <2>3
    <2>5. \A c \in Contexts : c # op[t].ctx => references'[c] = references[c]
      BY Zenon, <1>0, <2>1, <2>3
    <2>6. \A g \in Generations :
            g > generation \/ (g = generation /\ hostHandle = 0 /\ hostMutex = None) => g # op[t].ctx
      BY <1>0, <2>3
    <2>7. /\ \A u \in Threads : u # t => op'[u] = op[u]
          /\ op'[t].step \notin {"wait", "join", "erase"}
      BY Zenon, <2>2, OpGotoEffect
    <2>8. HeldLive'
      BY Zenon, <1>0, <2>1, <2>4, <2>5
    <2>9. ASSUME NEW u \in Threads, op'[u].step \in {"wait", "join", "erase"}, op'[u].ctx \in Contexts
          PROVE  /\ references'[op'[u].ctx] = 0
                 /\ op'[u].step # "wait" => \A h \in Engines : op'[u].ctx \notin sending'[h].left
      <3>1. op'[u] = op[u] /\ u # t
        BY Zenon, <2>7, <2>9
      <3>2. op[u].step \in {"wait", "join", "erase"} /\ op[u].ctx \in Contexts /\ op[u].ctx # op[t].ctx
        BY Zenon, <2>3, <2>9, <3>1
      <3>3. references[op[u].ctx] = 0 /\ (op[u].step # "wait" => \A h \in Engines : op[u].ctx \notin sending[h].left)
        BY Zenon, <1>0, <3>2
      <3> QED
        BY Zenon, <2>1, <2>5, <3>1, <3>2, <3>3
    <2>10. FutureUnseen'
      BY Zenon, <1>0, <2>1, <2>5, <2>6
    <2>11. OpenerLive'
      BY Zenon, <1>0, <2>1, <2>3, <2>4, <2>7
    <2> QED
      BY Zenon, <1>0, <2>8, <2>9, <2>10, <2>11
  <1>4. ASSUME NEW t \in Threads, Create(t) PROVE ContextInv'
    <2>1. /\ op[t].step = "create" /\ OpGoto(t, "created")
          /\ UNCHANGED <<references, sending, hostHandle, hostMutex, generation, live>>
      BY Zenon, <1>4 DEF Create
    <2>2. op'[t].step = "created" /\ \A u \in Threads : u # t => op'[u] = op[u]
      BY Zenon, <2>1, OpGotoEffect
    <2>3. \A u \in Threads : op'[u].step \in {"wait", "join", "erase"} => op'[u].step = op[u].step /\ op'[u].ctx = op[u].ctx
      BY Zenon, <1>0, <2>2
    <2>4. \A c \in Clients : op'[c].step \in {"acquire", "create", "created"} => op[c].step \in {"acquire", "create", "created"}
      BY Zenon, <1>0, <2>1, <2>2
    <2> QED
      BY Zenon, <1>0, <1>20, <2>1, <2>3, <2>4
  <1>5. ASSUME NEW t \in Threads, Created(t) PROVE ContextInv'
    <2>1. UNCHANGED <<references, sending, hostHandle, hostMutex, generation, live>>
      BY Zenon, <1>5 DEF Created
    <2>2. PICK s \in {"anchor", "idle"} : OpGoto(t, s)
      BY Zenon, <1>5 DEF Created, AcquireReturns
    <2>3. op'[t].step \in {"anchor", "idle"} /\ \A u \in Threads : u # t => op'[u] = op[u]
      BY Zenon, <2>2, OpGotoEffect
    <2> QED
      BY Zenon, <1>21, <2>1, <2>3
  <1>6. ASSUME NEW t \in Threads, Anchor(t) PROVE ContextInv'
    <2>1. op[t].step = "anchor" /\ lifecycle = None /\ OpGoto(t, "idle")
          /\ UNCHANGED <<references, sending, generation, live>>
      BY Zenon, <1>6 DEF Anchor
    <2>2. CASE t \in Clients
      <3>1. t \notin HostThreads
        BY Zenon, <1>0, <2>2, SharedAssumption
      <3>2. UNCHANGED <<hostHandle, hostMutex>>
        BY Zenon, <1>6, <3>1 DEF Anchor
      <3>3. op'[t].step = "idle" /\ \A u \in Threads : u # t => op'[u] = op[u]
        BY Zenon, <2>1, OpGotoEffect
      <3> QED
        BY Zenon, <1>21, <2>1, <3>2, <3>3
    <2>3. CASE t \in HostThreads
      <3>1. generation \in Generations /\ references[generation] > 0
        BY Zenon, <1>0, <2>1, <2>3 DEF SharedInv, OpInv, HoldInv
      <3>2. handle # 0
        <4>1. \A u \in Threads : op[u].step \notin {"create", "created"}
          BY Zenon, <1>0, <2>1, LifecycleFacts
        <4>2. generation \in Contexts
          BY Zenon, <3>1 DEF Contexts
        <4> QED
          BY Zenon, <1>0, <3>1, <4>1, <4>2 DEF SharedInv, HoldInv
      <3>3. hostHandle' # 0 /\ hostMutex' = None
        BY Zenon, <1>6, <2>3, <3>2 DEF Anchor
      <3>4. \A u \in Threads : (op'[u].step = op[u].step /\ op'[u].ctx = op[u].ctx) \/ op'[u].step = "idle"
        BY <2>1, OpGotoEffect
      <3> QED
        BY Zenon, <1>0, <2>1, <3>3, <3>4
    <2> QED
      BY Zenon, <1>0, <2>2, <2>3 DEF Threads
  <1>7. ASSUME NEW t \in Threads, Release(t) PROVE ContextInv'
    <2>1. op[t].step = "release" /\ UNCHANGED <<sending, hostHandle, hostMutex, generation, live>>
          /\ references' = [references EXCEPT ![op[t].ctx] = IF @ = 0 THEN 0 ELSE @ - 1]
      BY Zenon, <1>7 DEF Release
    <2>2. PICK s \in {"wait", "idle"} : OpGoto(t, s) /\ (s = "wait" => references[op[t].ctx] = 1)
      BY Zenon, <1>7 DEF Release
    <2>3. op[t].ctx \in Contexts
      BY Zenon, <2>1, ContextFacts DEF Acquiring
    <2>4. /\ \A c \in Contexts : references'[c] > 0 => references[c] > 0
          /\ \A c \in Contexts : references[c] = 0 => references'[c] = 0
          /\ references[op[t].ctx] = 1 => references'[op[t].ctx] = 0
      BY SMTT(30), <1>0, <2>1, <2>3
    <2>5. /\ \A u \in Threads : u # t => op'[u] = op[u]
          /\ op'[t].step = s /\ op'[t].ctx = op[t].ctx
      BY Zenon, <2>2, OpGotoEffect
    <2>6. ASSUME NEW u \in Threads, op'[u].step \in {"wait", "join", "erase"}, op'[u].ctx \in Contexts
          PROVE  /\ references'[op'[u].ctx] = 0
                 /\ op'[u].step # "wait" => \A h \in Engines : op'[u].ctx \notin sending'[h].left
      <3>1. CASE u # t
        <4>1. op'[u] = op[u]
          BY Zenon, <2>5, <3>1
        <4>2. references[op[u].ctx] = 0 /\ (op[u].step # "wait" => \A h \in Engines : op[u].ctx \notin sending[h].left)
          BY Zenon, <1>0, <2>6, <4>1
        <4> QED
          BY Zenon, <2>1, <2>4, <2>6, <4>1, <4>2
      <3>2. CASE u = t
        BY Zenon, <1>0, <2>2, <2>4, <2>5, <2>6, <3>2
      <3> QED BY Zenon, <1>0, <3>1, <3>2
    <2>7. \A c \in Clients : op'[c].step \in {"acquire", "create", "created"} => c \in live'
      BY <1>0, <2>1, <2>2, <2>5
    <2> QED
      BY Zenon, <1>0, <2>1, <2>4, <2>6, <2>7
  <1>8. ASSUME NEW t \in Threads, Unanchor(t) PROVE ContextInv'
    <2>1. op[t].ctx \notin Contexts
      <3>1. op[t].ctx = None
        BY Zenon, <1>8 DEF Unanchor, SharedInv, OpInv
      <3>2. None \notin Contexts
        BY SharedAssumption DEF Contexts, Generations
      <3> QED
        BY Zenon, <3>1, <3>2
    <2>2. PICK s \in {"wait", "idle"} : OpGoto(t, s)
      BY Zenon, <1>8 DEF Unanchor
    <2>3. UNCHANGED <<references, sending, hostHandle, hostMutex, generation, live>>
      BY Zenon, <1>8 DEF Unanchor
    <2>4. op'[t].step = s /\ op'[t].ctx \notin Contexts /\ \A u \in Threads : u # t => op'[u] = op[u]
      BY Zenon, <2>1, <2>2, OpGotoEffect
    <2>5. \A c \in Clients : op'[c].step \in {"acquire", "create", "created"} => op[c].step \in {"acquire", "create", "created"}
      BY Zenon, <1>0, <2>4
    <2> QED
      BY Zenon, <1>0, <1>20, <2>3, <2>4, <2>5
  <1>9. ASSUME NEW t \in Threads, Wait(t) PROVE ContextInv'
    <2>1. op[t].step = "wait" /\ inFlight = 0
          /\ UNCHANGED <<references, sending, hostHandle, hostMutex, generation>>
      BY Zenon, <1>9 DEF Wait
    <2>2. \A h \in Engines : sending[h].left = {}
      <3>1. 0 # 1
        OBVIOUS
      <3>2. \A h \in Engines : sending[h].step \in {"idle", "checked", "calling", "found", "handed"}
        BY Zenon DEF SharedInv, SharedTypeOK, Sendings
      <3> QED
        BY Zenon, <2>1, <3>1, <3>2 DEF SharedInv, CallbackInv
    <2>3. PICK s \in {"join", "erase", "idle"} : OpGoto(t, s)
      BY Zenon, <1>9 DEF Wait, ReleaseReturns
    <2>4. live \ ({op[t].ctx} \intersect Clients) \subseteq live' /\ live' \subseteq live
      BY <1>9 DEF Wait, ReleaseReturns
    <2>5. \A u \in Threads : u # t /\ op[u].step \in {"acquire", "create", "created"} => op[u].ctx # op[t].ctx
      BY Zenon, <2>1, ContextFacts DEF Acquiring, Leaving
    <2>6. \A c \in Clients : op[c].step \in {"acquire", "create", "created"} => op[c].ctx = c
      BY Zenon, ContextFacts DEF Acquiring
    <2>7. op[t].ctx \in Contexts => references[op[t].ctx] = 0
      BY Zenon, <1>0, <2>1
    <2>8. /\ \A u \in Threads : u # t => op'[u] = op[u]
          /\ op'[t].ctx = op[t].ctx /\ op'[t].step \notin {"acquire", "create", "created"}
      BY Zenon, <2>3, OpGotoEffect
    <2>9. ~(0 > 0)
      BY <1>0
    <2>10. HeldLive'
      BY Zenon, <1>0, <2>1, <2>2, <2>4, <2>7, <2>9
    <2>11. LeaverGone'
      BY Zenon, <1>0, <2>1, <2>2, <2>7, <2>8
    <2>12. FutureUnseen'
      BY Zenon, <1>0, <2>1
    <2>13. OpenerLive'
      BY Zenon, <1>0, <2>1, <2>4, <2>5, <2>6, <2>8
    <2> QED
      BY Zenon, <1>0, <2>10, <2>11, <2>12, <2>13
  <1>10. ASSUME NEW t \in Threads, Join(t) PROVE ContextInv'
    <2>1. op[t].step = "join" /\ UNCHANGED <<references, sending, hostHandle, hostMutex, generation>>
          /\ live' = live \ ({op[t].ctx} \intersect Clients)
      BY Zenon, <1>10 DEF Join, ReleaseReturns
    <2>2. PICK s \in {"erase", "idle"} : OpGoto(t, s)
      BY Zenon, <1>10 DEF Join, ReleaseReturns
    <2>3. \A u \in Threads : u # t /\ op[u].step \in {"acquire", "create", "created"} => op[u].ctx # op[t].ctx
      BY Zenon, <2>1, ContextFacts DEF Acquiring, Leaving
    <2>4. \A c \in Clients : op[c].step \in {"acquire", "create", "created"} => op[c].ctx = c
      BY Zenon, ContextFacts DEF Acquiring
    <2>5. /\ \A u \in Threads : u # t => op'[u] = op[u]
          /\ op'[t].ctx = op[t].ctx /\ op'[t].step \notin {"acquire", "create", "created"}
      BY Zenon, <2>2, OpGotoEffect
    <2>6. op[t].ctx \in Contexts => references[op[t].ctx] = 0 /\ \A h \in Engines : op[t].ctx \notin sending[h].left
      BY Zenon, <1>0, <2>1
    <2>7. ~(0 > 0)
      OBVIOUS
    <2>8. HeldLive'
      <3>1. ASSUME NEW c \in Contexts, references[c] > 0 PROVE c \in live /\ c # op[t].ctx
        BY Zenon, <1>0, <2>6, <2>7, <3>1
      <3>2. ASSUME NEW h \in Engines, NEW c \in sending[h].left PROVE c \in live /\ (c # op[t].ctx \/ c \notin Clients)
        <4>1. c \in live
          BY Zenon, <1>0
        <4>2. c \in Clients => c \in Contexts
          BY Zenon DEF Contexts
        <4> QED
          BY Zenon, <2>6, <4>1, <4>2
      <3> QED
        BY Zenon, <2>1, <3>1, <3>2
    <2>9. LeaverGone'
      BY Zenon, <1>0, <2>1, <2>5, <2>6
    <2>10. FutureUnseen'
      BY Zenon, <1>0, <2>1
    <2>11. OpenerLive'
      BY Zenon, <1>0, <2>1, <2>3, <2>4, <2>5
    <2> QED
      BY Zenon, <1>0, <2>8, <2>9, <2>10, <2>11
  <1>11. ASSUME NEW t \in Threads, Find(t) PROVE ContextInv'
    <2>1. OpGoto(t, "release") /\ UNCHANGED <<references, sending, hostHandle, hostMutex, generation, live>>
      BY Zenon, <1>11 DEF Find
    <2>2. op'[t].step = "release" /\ \A u \in Threads : u # t => op'[u] = op[u]
      BY Zenon, <2>1, OpGotoEffect
    <2> QED
      BY Zenon, <1>21, <2>1, <2>2
  <1>12. ASSUME NEW t \in Threads, Erase(t) PROVE ContextInv'
    <2>1. op[t].step = "erase" /\ UNCHANGED <<references, sending, hostHandle, hostMutex, generation>>
          /\ live' = live \ {op[t].ctx} /\ OpGoto(t, "idle") /\ hostMutex = None
      BY Zenon, <1>12 DEF Erase
    <2>2. op[t].ctx \in Nat /\ op[t].ctx # generation
      BY Zenon, <2>1, ContextFacts DEF Leaving, SharedInv, OpInv
    <2>3. \A h \in Engines : sending[h].left \subseteq Contexts
      BY <1>0, Zenon DEF SharedInv, SharedTypeOK, Sendings
    <2>4. op'[t].step = "idle" /\ \A u \in Threads : u # t => op'[u] = op[u]
      BY Zenon, <2>1, OpGotoEffect
    <2>5. op[t].ctx \in Contexts => references[op[t].ctx] = 0 /\ \A h \in Engines : op[t].ctx \notin sending[h].left
      BY Zenon, <1>0, <2>1
    <2>6. ~(0 > 0)
      OBVIOUS
    <2>7. HeldLive'
      <3>1. ASSUME NEW c \in Contexts, references[c] > 0 PROVE c \in live /\ c # op[t].ctx
        BY Zenon, <1>0, <2>5, <2>6, <3>1
      <3>2. ASSUME NEW h \in Engines, NEW c \in sending[h].left PROVE c \in live /\ c # op[t].ctx
        <4>1. c \in live
          BY Zenon, <1>0
        <4>2. c \in Contexts
          BY Zenon, <2>3
        <4> QED
          BY Zenon, <2>5, <4>1, <4>2
      <3> QED
        BY Zenon, <2>1, <3>1, <3>2
    <2>8. LeaverGone'
      BY Zenon, <1>0, <2>1, <2>4
    <2>9. FutureUnseen'
      BY Zenon, <1>0, <2>1
    <2>10. OpenerLive'
      <3>1. \A c \in Clients : op[t].ctx # c
        BY Zenon, <1>0, <2>2
      <3> QED
        BY Zenon, <1>0, <2>1, <2>2, <2>4, <3>1
    <2> QED
      BY Zenon, <2>7, <2>8, <2>9, <2>10
  <1>13. ASSUME NEW t \in Threads, Shutdown(t) PROVE ContextInv'
    <2>1. Begin(t, "unanchor", None) /\ UNCHANGED <<hostHandle, hostMutex, generation, live>>
      BY Zenon, <1>13 DEF Shutdown
    <2>2. /\ op'[t].step = "unanchor" /\ \A u \in Threads : u # t => op'[u] = op[u]
          /\ UNCHANGED <<references, sending>>
      BY Zenon, <2>1, BeginEffect
    <2> QED
      BY Zenon, <1>21, <2>1, <2>2
  <1>14. ASSUME NEW c \in Clients, ClientAcquires(c) PROVE ContextInv'
    <2>1. Begin(c, "acquire", c) /\ UNCHANGED <<hostHandle, hostMutex, generation>> /\ live' = live \union {c}
      BY Zenon, <1>14 DEF ClientAcquires
    <2>2. /\ op'[c].step = "acquire" /\ \A u \in Threads : u # c => op'[u] = op[u]
          /\ UNCHANGED <<references, sending>>
      BY Zenon, <2>1, BeginEffect
    <2>3. \A u \in Threads : op'[u].step \in {"wait", "join", "erase"} => op'[u].step = op[u].step /\ op'[u].ctx = op[u].ctx
      BY Zenon, <1>0, <2>2
    <2>4. \A x \in Clients : op'[x].step \in {"acquire", "create", "created"} =>
                             op[x].step \in {"acquire", "create", "created"} \/ x \in live'
      BY Zenon, <1>0, <2>1, <2>2
    <2> QED
      BY Zenon, <1>0, <1>20, <2>1, <2>2, <2>3, <2>4
  <1>15. ASSUME NEW c \in Clients, ClientCalls(c) PROVE ContextInv'
    <2>1. PICK step \in {"release", "anchor"} : Begin(c, step, c)
      BY Zenon, <1>15 DEF ClientCalls
    <2>2. UNCHANGED <<hostHandle, hostMutex, generation, live>>
      BY Zenon, <1>15 DEF ClientCalls
    <2>3. /\ op'[c].step = step /\ \A u \in Threads : u # c => op'[u] = op[u]
          /\ UNCHANGED <<references, sending>>
      BY Zenon, <2>1, BeginEffect
    <2> QED
      BY Zenon, <1>21, <2>1, <2>2, <2>3
  <1>16. ASSUME NEW t \in HostThreads, Configure(t) PROVE ContextInv'
    <2>1. /\ hostMutex = None /\ hostHandle = 0 /\ hostHandle' = 0 /\ hostMutex' = t
          /\ generation' = generation + 1 /\ live' = live \union {generation + 1}
          /\ Begin(t, "acquire", generation + 1)
      BY Zenon, <1>16 DEF Configure
    <2>2. t \notin Clients
      BY Zenon, <1>0, SharedAssumption
    <2>3. /\ op'[t].step = "acquire" /\ \A u \in Threads : u # t => op'[u] = op[u]
          /\ UNCHANGED <<references, sending>>
      BY Zenon, <2>1, BeginEffect
    <2>4. \A g \in Generations : g > generation + 1 => g > generation
      BY <1>0
    <2>5. HeldLive'
      BY Zenon, <1>0, <2>1, <2>3
    <2>6. LeaverGone'
      BY Zenon, <1>0, <2>3
    <2>7. FutureUnseen'
      BY Zenon, <1>0, <2>1, <2>3, <2>4
    <2>8. OpenerLive'
      BY Zenon, <1>0, <2>1, <2>2, <2>3
    <2> QED
      BY Zenon, <1>0, <2>5, <2>6, <2>7, <2>8
  <1>17. ASSUME NEW t \in HostThreads, Deinit(t) PROVE ContextInv'
    <2>1. PICK s \in {"find", "erase"} : Begin(t, s, generation) /\ (s = "erase" => hostHandle = 0)
      BY Zenon, <1>17 DEF Deinit
    <2>2. hostMutex = None /\ hostMutex' = None /\ generation' = generation + 1 /\ live' = live
      BY Zenon, <1>17 DEF Deinit
    <2>3. t \notin Clients
      BY Zenon, <1>0, SharedAssumption
    <2>4. s = "erase" /\ generation \in Contexts =>
            references[generation] = 0 /\ \A h \in Engines : generation \notin sending[h].left
      <3>1. generation \in Contexts => generation \in Generations
        BY <1>0, Zenon DEF Contexts
      <3> QED
        BY Zenon, <1>0, <2>1, <2>2, <3>1
    <2>5. \A g \in Generations : g > generation + 1 \/ g = generation + 1 => g > generation
      BY <1>0
    <2>6. /\ op'[t].step = s /\ op'[t].ctx = generation /\ \A u \in Threads : u # t => op'[u] = op[u]
          /\ UNCHANGED <<references, sending>>
      BY Zenon, <2>1, BeginEffect
    <2>7. HeldLive'
      BY Zenon, <1>0, <2>2, <2>6
    <2>8. LeaverGone'
      BY Zenon, <1>0, <2>4, <2>6
    <2>9. FutureUnseen'
      BY Zenon, <1>0, <2>2, <2>5, <2>6
    <2>10. OpenerLive'
      BY Zenon, <1>0, <2>2, <2>3, <2>6
    <2> QED
      BY Zenon, <1>0, <2>7, <2>8, <2>9, <2>10
  <1>18. ASSUME NEW h \in Engines, Snapshot(h) PROVE ContextInv'
    <2>1. UNCHANGED <<references, op, hostHandle, hostMutex, generation, live>>
      BY Zenon, <1>18 DEF Snapshot
    <2>2. \A g \in Engines : sending'[g].left \subseteq sending[g].left \union Registered
      <3>1. sending \in Sendings
        BY <1>0, Zenon DEF SharedInv, SharedTypeOK
      <3>2. CASE SendGoto(h, "idle")
        BY <3>1, <3>2 DEF SendGoto, Sendings
      <3>3. CASE sending' = [sending EXCEPT ![h].step = "calling", ![h].left = Registered]
        BY <3>1, <3>3 DEF Sendings
      <3> QED
        BY Zenon, <1>18, <3>2, <3>3 DEF Snapshot
    <2>3. Registered \subseteq live /\ \A c \in Registered : references[c] # 0
      BY <1>0 DEF Registered
    <2> QED
      BY <1>0, <2>1, <2>2, <2>3
  <1> HIDE DEF ContextInv, HeldLive, LeaverGone, FutureUnseen, OpenerLive, Threads, registry, host
  <1> QED
    BY <1>1, <1>2, <1>3, <1>4, <1>5, <1>6, <1>7, <1>8, <1>9, <1>10,
       <1>11, <1>12, <1>13, <1>14, <1>15, <1>16, <1>17, <1>18, <1>19, SharedCases DEF Step

-----------------------------------------------------------------------------
LEMMA SharedKept == SharedInv /\ [SharedNext]_allVars => SharedInv'
  BY Zenon, TypesKept, OpKept, RunKept, HoldKept, CallbackKept, ContextKept DEF SharedInv

\* The registry, the host and the callbacks of an engine keep the invariant
\* from which the three results below follow.
THEOREM SharedInvariant == SharedSpec => [](SharedInv /\ DeliveryInv)
  <1>1. SharedInit => SharedInv /\ DeliveryInv
    BY Zenon, SharedStarts, DeliveryStarts DEF SharedInit
  <1>2. SharedInv /\ DeliveryInv /\ [SharedNext]_allVars => (SharedInv /\ DeliveryInv)'
    BY Zenon, SharedKept, SharedDelivers, DeliveryKept DEF allVars
  <1> QED
    BY <1>1, <1>2, PTL DEF SharedSpec

\* Whatever order arrivals, drains, refusals of the scheduler and changes of
\* the handler take, requestWake and finishWake leave no packet behind.
THEOREM NeverStranded == SharedSpec => []NotStranded
  BY SharedInvariant, DeliverySuffices, PTL

\* When nipworker_shared_release returns and the context is freed, no callback
\* is still to be made with it.
THEOREM ContextsLive == SharedSpec => []CallbackContextLive
  <1>1. SharedInv => CallbackContextLive
    BY Zenon DEF SharedInv, ContextInv, HeldLive, CallbackContextLive
  <1> QED
    BY <1>1, SharedInvariant, PTL

\* Who has acquired the engine and not released it has a running engine, the
\* only one.
THEOREM HandlesHeld == SharedSpec => []HandleHeld
  <1>1. SharedInv => HandleHeld
    <2> SUFFICES ASSUME SharedInv PROVE HandleHeld
      BY Zenon
    <2>1. ASSUME NEW c \in Clients, references[c] > 0, op[c].step = "idle" PROVE handle # 0
      <3>1. \A t \in Threads : op[t].step \in {"create", "created"} => op[t].ctx # c
        BY SMTT(30), <2>1, SharedAssumption DEF SharedInv, OpInv, Threads, Generations
      <3> QED
        BY Zenon, <2>1, <3>1 DEF SharedInv, HoldInv, Contexts
    <2> QED
      BY Zenon, <2>1 DEF HandleHeld, SharedInv, RunInv, HoldInv
  <1> QED
    BY <1>1, SharedInvariant, PTL

=============================================================================
