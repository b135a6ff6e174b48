---------------------------- MODULE SignerProofs ----------------------------
(***************************************************************************)
(* Proofs about Signer, for any number of signers, logouts, requests and   *)
(* frames: the types, that a logout sticks, that a signer set before a     *)
(* logout is of no use after it, and that a removed bunker is told.        *)
(***************************************************************************)
EXTENDS Signer, TLAPS

\* The types of the pieces that several actions share.
LEMMA CommandTypes ==
    ASSUME TypeOK, cmds # <<>>
    PROVE  /\ Head(cmds) \in Commands /\ Tail(cmds) \in Seq(Commands)
           /\ Head(cmds).at \in Nat
           /\ Head(cmds).op = "set" => Head(cmds).signer \in Signers
<1>1. Head(cmds) \in Commands /\ Tail(cmds) \in Seq(Commands)
  BY DEF TypeOK
<1> QED BY Zenon, <1>1 DEF Commands, LogoutOps

\* The types of what calls touch, and of the next call on a signer.
LEMMA CallTypes ==
    ASSUME TypeOK
    PROVE  /\ wait \in [Tasks -> Calls \union {Idle}] /\ todo \in [Signers -> 0..2] /\ reported \subseteq Signers
           /\ lastId \in [Signers -> Nat] /\ asked \subseteq Calls /\ signed \in [Signers -> Nat]
           /\ \A i \in Signers : <<i, lastId[i] + 1>> \in Calls
<1>1. /\ wait \in [Tasks -> Calls \union {Idle}] /\ todo \in [Signers -> 0..2] /\ reported \subseteq Signers
      /\ lastId \in [Signers -> Nat] /\ asked \subseteq Calls /\ signed \in [Signers -> Nat]
  BY Zenon DEF TypeOK
<1>2. \A i \in Signers : <<i, lastId[i] + 1>> \in Calls
  BY <1>1 DEF Calls
<1> QED BY Zenon, <1>1, <1>2

\* Starting a call keeps the types.
LEMMA RpcTypes ==
    ASSUME TypeOK, NEW t \in Tasks, NEW i \in Signers, rpc_call(t, i)
    PROVE  /\ wait' \in [Tasks -> Calls \union {Idle}]
           /\ lastId' \in [Signers -> Nat] /\ asked' \subseteq Calls
<1>1. wait' \in [Tasks -> Calls \union {Idle}]
  BY Zenon, CallTypes DEF rpc_call
<1>2. lastId' \in [Signers -> Nat]
  BY CallTypes DEF rpc_call
<1>3. asked' \subseteq Calls
  BY Zenon, CallTypes DEF rpc_call
<1> QED BY Zenon, <1>1, <1>2, <1>3

\* sign_event by a listener keeps the types of what it touches.
LEMMA SignTypes ==
    ASSUME TypeOK, NEW t \in Listeners, sign_event(t)
    PROVE  /\ wait' \in [Tasks -> Calls \union {Idle}] /\ todo' = todo /\ reported' = reported
           /\ lastId' \in [Signers -> Nat] /\ asked' \subseteq Calls /\ signed' \in [Signers -> Nat]
<1> t \in Tasks
  BY Zenon DEF Tasks
<1>1. CASE active \in remote \ closed
  <2>1. active \in Signers /\ rpc_call(t, active) /\ signed' = signed /\ todo' = todo /\ reported' = reported
    BY Zenon, <1>1 DEF sign_event, TypeOK
  <2> QED BY Zenon, <2>1, RpcTypes, CallTypes
<1>2. CASE active \notin remote \ closed
  <2>1. signed' \in [Signers -> Nat]
    BY <1>2, CallTypes DEF sign_event
  <2> QED BY Zenon, <1>2, <2>1, CallTypes DEF sign_event
<1> QED BY Zenon, <1>1, <1>2

\* What a call that returns does to the types.
LEMMA ReturnTypes ==
    ASSUME TypeOK, NEW t \in Tasks, NEW i \in Signers, NEW ok \in BOOLEAN, Return(t, i, ok)
    PROVE  /\ wait' \in [Tasks -> Calls \union {Idle}] /\ todo' \in [Signers -> 0..2] /\ reported' \subseteq Signers
           /\ lastId' \in [Signers -> Nat] /\ asked' \subseteq Calls /\ signed' \in [Signers -> Nat]
<1>1. todo' \in [Signers -> 0..2]
  BY CallTypes DEF Return
<1>2. CASE t \in ConnectTasks /\ ok /\ todo[i] = 1
  <2>1. rpc_call(t, i) /\ signed' = signed /\ reported' = reported
    BY Zenon, <1>2 DEF Return
  <2> QED BY Zenon, <1>1, <2>1, RpcTypes, CallTypes
<1>3. CASE ~(t \in ConnectTasks /\ ok /\ todo[i] = 1)
  <2>1. wait' = [wait EXCEPT ![t] = Idle] /\ lastId' = lastId /\ asked' = asked
    BY Zenon, <1>3 DEF Return
  <2>2. wait' \in [Tasks -> Calls \union {Idle}]
    BY Zenon, <2>1, CallTypes
  <2>3. signed' \in [Signers -> Nat]
    BY <1>3, CallTypes DEF Return
  <2>4. reported' \subseteq Signers
    BY Zenon, <1>3, CallTypes DEF Return
  <2> QED BY Zenon, <1>1, <2>1, <2>2, <2>3, <2>4, CallTypes
<1> QED BY Zenon, <1>2, <1>3

\* Retiring the active signer keeps the types.
LEMMA ClearTypes ==
    ASSUME TypeOK, clear_active_signer
    PROVE  closed' \subseteq remote /\ pending' \in [Signers -> SUBSET Nat]
BY Zenon DEF TypeOK, clear_active_signer, ActiveRemote

LEMMA RetireTypes ==
    ASSUME TypeOK, NEW op, Retire(op)
    PROVE  /\ active' = Unset /\ tx' = Unset /\ closed' \subseteq remote /\ told' \subseteq remote
           /\ pending' \in [Signers -> SUBSET Nat]
<1>1. clear_active_signer /\ active' = Unset /\ tx' = Unset
  BY Zenon DEF Retire, remove_active_signer
<1>2. told' \subseteq remote
  BY Zenon DEF Retire, remove_active_signer, ActiveRemote, TypeOK
<1> QED BY Zenon, <1>1, <1>2, ClearTypes

LEMMA InitTypes == Init => TypeOK
<1> SUFFICES ASSUME Init PROVE TypeOK
  BY Zenon
<1>1. cmds \in Seq(Commands) /\ ctrl \in Seq(LogoutOps) /\ fromConn \in Seq(Frames)
  BY DEF Init
<1>2. pump \in [Signers -> Seq(Answers)]
  BY DEF Init
<1> QED BY <1>1, <1>2, SignerAssumption DEF Init, TypeOK, Unset

LEMMA NextTypes == TypeOK /\ [Next]_vars => TypeOK'
<1> SUFFICES ASSUME TypeOK, [Next]_vars PROVE TypeOK'
  BY Zenon
<1> USE SignerAssumption
<1>1. CASE SetSigner
  <2>1. issued + 1 \in Signers
    BY <1>1 DEF SetSigner, TypeOK, Signers
  <2>2. [op |-> "set", at |-> logouts, signer |-> issued + 1] \in Commands
    BY Zenon, <2>1 DEF TypeOK, Commands
  <2>3. cmds' \in Seq(Commands)
    <3>1. cmds \in Seq(Commands) /\ cmds' = Append(cmds, [op |-> "set", at |-> logouts, signer |-> issued + 1])
      BY Zenon, <1>1 DEF SetSigner, TypeOK
    <3> QED BY <2>2, <3>1
  <2>5. epoch' \in [Signers -> Nat]
    BY Zenon, <1>1 DEF SetSigner, TypeOK
  <2>4. remote \subseteq remote' /\ remote' \subseteq Signers
    BY Zenon, <1>1, <2>1 DEF SetSigner, TypeOK
  <2> QED BY Zenon, <1>1, <2>1, <2>3, <2>4, <2>5 DEF SetSigner, TypeOK, signerVars, callVars
<1>2. ASSUME NEW op \in LogoutOps, Logout(op) PROVE TypeOK'
  <2>1. [op |-> op, at |-> logouts + 1] \in Commands
    <3>1. logouts + 1 \in Nat
      BY DEF TypeOK
    <3> QED BY Zenon, <1>2, <3>1 DEF Commands
  <2>2. cmds' \in Seq(Commands) /\ ctrl' \in Seq(LogoutOps) /\ logouts' \in Nat
    <3>1. cmds \in Seq(Commands) /\ cmds' = Append(cmds, [op |-> op, at |-> logouts + 1])
      BY Zenon, <1>2 DEF Logout, TypeOK
    <3>2. ctrl' \in Seq(LogoutOps) /\ logouts' \in Nat
      BY <1>2 DEF Logout, TypeOK
    <3> QED BY <2>1, <3>1, <3>2
  <2>3. owed' \subseteq remote
    BY Zenon, <1>2 DEF Logout, TypeOK
  <2> QED BY Zenon, <1>2, <2>2, <2>3 DEF Logout, TypeOK, signerVars, callVars
<1>3. CASE Request
  <2>1. [op |-> "sign", at |-> logouts] \in Commands /\ [kind |-> "auth"] \in Frames
    BY Zenon DEF TypeOK, Commands, Frames
  <2>2. cmds' \in Seq(Commands) /\ fromConn' \in Seq(Frames) /\ fromParser' \in Nat /\ requests' \in Nat
    <3>1. cmds \in Seq(Commands) /\ fromConn \in Seq(Frames) /\ fromParser \in Nat /\ requests' \in Nat
      BY <1>3 DEF Request, TypeOK
    <3>2. CASE cmds' = Append(cmds, [op |-> "sign", at |-> logouts]) /\ UNCHANGED <<fromParser, fromConn>>
      BY <2>1, <3>1, <3>2
    <3>3. CASE fromParser' = fromParser + 1 /\ UNCHANGED <<cmds, fromConn>>
      BY <3>1, <3>3
    <3>4. CASE fromConn' = Append(fromConn, [kind |-> "auth"]) /\ UNCHANGED <<cmds, fromParser>>
      BY <2>1, <3>1, <3>4
    <3> QED BY Zenon, <1>3, <3>2, <3>3, <3>4 DEF Request
  <2> QED BY Zenon, <1>3, <2>2 DEF Request, TypeOK, signerVars, callVars
<1>4. CASE EngineListener
  <2> DEFINE c == Head(cmds)
  <2>1. cmds' \in Seq(Commands) /\ c.at \in Nat /\ (c.op = "set" => c.signer \in Signers)
    BY Zenon, <1>4, CommandTypes DEF EngineListener
  <2>2. CASE c.op \in LogoutOps /\ Obey(c.op, c.at) /\ UNCHANGED callVars
    BY Zenon, <1>4, <2>1, <2>2, RetireTypes DEF EngineListener, Obey, TypeOK, hostVars, callVars
  <2>3. CASE c.op = "set" /\ Install(c.signer) /\ UNCHANGED done
    <3> HIDE DEF c
    <3>1. todo' \in [Signers -> 0..2] /\ reported' \subseteq Signers
      BY <2>1, <2>3, CallTypes DEF Install
    <3>2. closed' \subseteq remote /\ pending' \in [Signers -> SUBSET Nat]
      BY Zenon, <2>3, ClearTypes DEF Install
    <3> QED BY Zenon, <1>4, <2>1, <2>3, <3>1, <3>2 DEF EngineListener, Install, TypeOK, hostVars
  <2>4. CASE c.op = "sign" /\ sign_event(Engine) /\ UNCHANGED <<signerVars, pending>>
    <3>1. Engine \in Listeners
      BY Zenon DEF Listeners
    <3> QED BY Zenon, <1>4, <2>1, <2>4, <3>1, SignTypes DEF EngineListener, TypeOK, hostVars, signerVars
  <2> QED BY Zenon, <1>4, <2>2, <2>3, <2>4 DEF EngineListener
<1>5. CASE ParserListener
  <2>1. Parser \in Listeners /\ fromParser' \in Nat
    BY <1>5 DEF Listeners, ParserListener, TypeOK
  <2> QED BY Zenon, <1>5, <2>1, SignTypes DEF ParserListener, TypeOK, hostVars, signerVars
<1>6. CASE ConnectionsListener
  <2>1. fromConn' \in Seq(Frames) /\ Head(fromConn) \in Frames
    BY <1>6 DEF ConnectionsListener, TypeOK
  <2>2. CASE Head(fromConn).kind = "auth" /\ sign_event(Connections) /\ UNCHANGED pump
    <3>1. Connections \in Listeners
      BY Zenon DEF Listeners
    <3> QED BY Zenon, <1>6, <2>1, <2>2, <3>1, SignTypes DEF ConnectionsListener, TypeOK, hostVars, signerVars
  <2>3. CASE /\ Head(fromConn).kind = "answer"
             /\ pump' = IF tx = Unset THEN pump ELSE [pump EXCEPT ![tx] = Append(@, Head(fromConn))]
             /\ UNCHANGED callVars
    <3>1. Head(fromConn) \in Answers
      BY Zenon, <2>1, <2>3 DEF Frames
    <3>2. pump' \in [Signers -> Seq(Answers)]
      BY <2>3, <3>1 DEF TypeOK
    <3> QED BY Zenon, <1>6, <2>1, <2>3, <3>2 DEF ConnectionsListener, TypeOK, hostVars, signerVars, callVars
  <2> QED BY Zenon, <1>6, <2>2, <2>3 DEF ConnectionsListener
<1>7. CASE Control
  <2>1. ctrl' \in Seq(LogoutOps) /\ Retire(Head(ctrl))
    BY <1>7 DEF Control, TypeOK
  <2> QED BY Zenon, <1>7, <2>1, RetireTypes DEF Control, TypeOK, hostVars, callVars
<1>8. ASSUME NEW i \in Signers, Pump(i) PROVE TypeOK'
  <2>1. Head(pump[i]) \in Answers /\ pump' \in [Signers -> Seq(Answers)]
    BY <1>8 DEF Pump, TypeOK
  <2>2. Head(pump[i]).call[2] \in Nat
    BY Zenon, <2>1 DEF Answers, Calls
  <2>3. pending' \in [Signers -> SUBSET Nat]
    BY Zenon, <1>8, <2>2 DEF Pump, TypeOK
  <2> QED BY Zenon, <1>8, <2>1, <2>3 DEF Pump, TypeOK, hostVars, chanVars, signerVars, callVars
<1>9. ASSUME NEW i \in Signers, Connect(i) PROVE TypeOK'
  <2>1. <<"connect", i>> \in Tasks
    BY Zenon DEF Tasks, ConnectTasks
  <2>2. /\ wait' \in [Tasks -> Calls \union {Idle}]
        /\ lastId' \in [Signers -> Nat] /\ asked' \subseteq Calls
    BY Zenon, <1>9, <2>1, RpcTypes, CallTypes DEF Connect
  <2>3. todo' \in [Signers -> 0..2]
    BY <1>9, CallTypes DEF Connect
  <2> QED BY Zenon, <1>9, <2>2, <2>3 DEF Connect, TypeOK, hostVars, chanVars, signerVars
<1>10. ASSUME NEW t \in Tasks, Poll(t) PROVE TypeOK'
  <2> DEFINE i == wait[t][1]  id == wait[t][2]
  <2>1. i \in Signers /\ id \in Nat
    BY Zenon, <1>10 DEF Poll, TypeOK, Calls
  <2>2. /\ \E ok \in BOOLEAN : Return(t, i, ok)
        /\ pending' = pending \/ pending' = [pending EXCEPT ![i] = pending[i] \ {id}]
    <3>1. FALSE \in BOOLEAN
      OBVIOUS
    <3> QED BY Zenon, <1>10, <3>1 DEF Poll
  <2> HIDE DEF i, id
  <2>3. pending' \in [Signers -> SUBSET Nat]
    BY <2>1, <2>2 DEF TypeOK
  <2>4. PICK ok \in BOOLEAN : Return(t, i, ok)
    BY Zenon, <2>2
  <2>5. /\ wait' \in [Tasks -> Calls \union {Idle}] /\ todo' \in [Signers -> 0..2] /\ reported' \subseteq Signers
        /\ lastId' \in [Signers -> Nat] /\ asked' \subseteq Calls /\ signed' \in [Signers -> Nat]
    BY Zenon, <2>1, <2>4, ReturnTypes
  <2>6. UNCHANGED <<hostVars, chanVars, signerVars, pump>>
    BY Zenon, <1>10 DEF Poll
  <2> QED BY Zenon, <2>3, <2>5, <2>6 DEF TypeOK, hostVars, chanVars, signerVars
<1>11. ASSUME NEW t \in Tasks, Timeout(t) PROVE TypeOK'
  <2>1. wait[t][1] \in Signers /\ Return(t, wait[t][1], FALSE)
    BY Zenon, <1>11 DEF Timeout, TypeOK, Calls
  <2> QED BY Zenon, <1>11, <2>1, ReturnTypes DEF Timeout, TypeOK, hostVars, chanVars, signerVars
<1>12. CASE RemoteAnswer
  <2>1. PICK call \in asked : /\ fromConn' = Append(fromConn, [kind |-> "answer", call |-> call])
                              /\ asked' = asked \ {call}
    BY Zenon, <1>12 DEF RemoteAnswer
  <2>2. [kind |-> "answer", call |-> call] \in Frames
    BY Zenon, <2>1 DEF TypeOK, Frames, Answers
  <2>3. fromConn' \in Seq(Frames) /\ asked' \subseteq Calls
    BY <2>1, <2>2 DEF TypeOK
  <2> QED BY Zenon, <1>12, <2>3 DEF RemoteAnswer, TypeOK, hostVars, signerVars
<1>13. CASE UNCHANGED vars
  BY Zenon, <1>13 DEF vars, hostVars, chanVars, signerVars, callVars, TypeOK
<1> QED BY Zenon, <1>1, <1>2, <1>3, <1>4, <1>5, <1>6, <1>7, <1>8, <1>9, <1>10, <1>11, <1>12, <1>13
        DEF Next, Host, Worker

\* Every variable of the crypto worker and of its remote signers keeps its type.
THEOREM TypeCorrect == Spec => []TypeOK
BY InitTypes, NextTypes, PTL DEF Spec

-----------------------------------------------------------------------------
\* The inductive invariant behind the logout properties.  Commands stand in the
\* order of the logouts they follow, none older than the last marker read, and
\* a queued SetSigner carries the epoch of its signer.
QueueInv ==
    /\ done <= logouts
    /\ \A k \in 1..Len(cmds) : done <= cmds[k].at /\ cmds[k].at <= logouts
    /\ \A j, k \in 1..Len(cmds) : j < k => cmds[j].at <= cmds[k].at
    /\ \A k \in 1..Len(cmds) :
         cmds[k].op = "set" => cmds[k].signer <= issued /\ epoch[cmds[k].signer] = cmds[k].at

\* The active signer is no older than the last marker read.
ActiveInv == active # Unset => active <= issued /\ done <= epoch[active]

\* A remote signer that a task waits for, or will call, is active or closed.
CallInv ==
    /\ \A i \in remote : i <= issued
    /\ \A t \in Tasks : wait[t] # Idle => wait[t][1] \in remote /\ wait[t][1] \in closed \union {active}
    /\ \A i \in Signers : todo[i] = 2 => i \in remote /\ i \in closed \union {active}

LogoutInv == TypeOK /\ QueueInv /\ ActiveInv /\ CallInv

LEMMA InitLogout == Init => LogoutInv
<1> SUFFICES ASSUME Init PROVE LogoutInv
  BY Zenon
<1>1. TypeOK
  BY Zenon, InitTypes
<1>2. QueueInv
  BY DEF Init, QueueInv
<1>3. ActiveInv /\ CallInv
  BY DEF Init, ActiveInv, CallInv
<1> QED BY Zenon, <1>1, <1>2, <1>3 DEF LogoutInv

\* A command put behind the others with the current number of logouts.
LEMMA AppendQueue ==
    ASSUME TypeOK, QueueInv, NEW c \in Commands, cmds' = Append(cmds, c), done' = done,
           logouts' \in Nat, logouts <= logouts', c.at = logouts', issued' \in Nat, issued <= issued',
           \A i \in Signers : i <= issued => epoch'[i] = epoch[i],
           c.op = "set" => c.signer <= issued' /\ epoch'[c.signer] = c.at
    PROVE  QueueInv'
<1>1. cmds \in Seq(Commands) /\ done \in Nat /\ logouts \in Nat /\ issued \in Nat
  BY SignerAssumption DEF TypeOK, Signers
<1>2. /\ Len(cmds') = Len(cmds) + 1 /\ Len(cmds) \in Nat
      /\ \A k \in 1..Len(cmds') : cmds'[k] = IF k = Len(cmds) + 1 THEN c ELSE cmds[k]
  BY <1>1
<1>3. \A k \in 1..Len(cmds) : cmds[k] \in Commands /\ cmds[k].at \in Nat
                              /\ (cmds[k].op = "set" => cmds[k].signer \in Signers)
  BY <1>1 DEF Commands, LogoutOps
<1>4. done <= logouts'
  BY <1>1 DEF QueueInv
<1>5. \A k \in 1..Len(cmds') : done <= cmds'[k].at /\ cmds'[k].at <= logouts'
  BY <1>1, <1>2, <1>3, <1>4 DEF QueueInv
<1>6. \A j, k \in 1..Len(cmds') : j < k => cmds'[j].at <= cmds'[k].at
  <2> SUFFICES ASSUME NEW j \in 1..Len(cmds'), NEW k \in 1..Len(cmds'), j < k
               PROVE  cmds'[j].at <= cmds'[k].at
    BY Zenon
  <2>1. j \in 1..Len(cmds) /\ cmds'[j] = cmds[j]
    BY <1>2
  <2>2. CASE k = Len(cmds) + 1
    <3>1. cmds'[k].at = logouts' /\ cmds[j].at \in Nat /\ cmds[j].at <= logouts
      BY Zenon, <1>2, <1>3, <2>1, <2>2 DEF QueueInv
    <3> QED BY <1>1, <2>1, <3>1
  <2>3. CASE k # Len(cmds) + 1
    <3>1. k \in 1..Len(cmds) /\ cmds'[k] = cmds[k]
      BY <1>2, <2>3
    <3> QED BY Zenon, <2>1, <3>1 DEF QueueInv
  <2> QED BY Zenon, <2>2, <2>3
<1>7. \A k \in 1..Len(cmds') :
         cmds'[k].op = "set" => cmds'[k].signer <= issued' /\ epoch'[cmds'[k].signer] = cmds'[k].at
  <2> SUFFICES ASSUME NEW k \in 1..Len(cmds'), cmds'[k].op = "set"
               PROVE  cmds'[k].signer <= issued' /\ epoch'[cmds'[k].signer] = cmds'[k].at
    BY Zenon
  <2>1. CASE k = Len(cmds) + 1
    BY Zenon, <1>2, <2>1
  <2>2. CASE k # Len(cmds) + 1
    <3>1. k \in 1..Len(cmds) /\ cmds'[k] = cmds[k]
      BY <1>2, <2>2
    <3>2. cmds[k].signer \in Signers /\ cmds[k].signer <= issued /\ epoch[cmds[k].signer] = cmds[k].at
      BY Zenon, <1>3, <3>1 DEF QueueInv
    <3> QED BY <1>1, <3>1, <3>2 DEF Signers
  <2> QED BY Zenon, <2>1, <2>2
<1> QED BY Zenon, <1>4, <1>5, <1>6, <1>7 DEF QueueInv

\* The engine listener takes the first command; it may raise `done` up to it.
LEMMA TailQueue ==
    ASSUME TypeOK, QueueInv, cmds # <<>>, cmds' = Tail(cmds),
           done' = done \/ done' = Head(cmds).at, UNCHANGED <<logouts, issued, epoch>>
    PROVE  QueueInv'
<1>1. cmds \in Seq(Commands) /\ done \in Nat /\ logouts \in Nat
  BY Zenon DEF TypeOK
<1>2. /\ Len(cmds) \in Nat /\ Len(cmds) > 0 /\ Len(cmds') = Len(cmds) - 1 /\ Head(cmds) = cmds[1]
      /\ \A k \in 1..Len(cmds') : cmds'[k] = cmds[k + 1]
  BY <1>1
<1>3. \A k \in 1..Len(cmds) : cmds[k].at \in Nat
  BY <1>1 DEF Commands, LogoutOps
<1>4. 1 \in 1..Len(cmds) /\ \A k \in 1..Len(cmds') : k + 1 \in 1..Len(cmds) /\ 1 < k + 1
  BY <1>2
<1>5. done' <= logouts
  BY Zenon, <1>1, <1>2, <1>4 DEF QueueInv
<1>6. \A k \in 1..Len(cmds') : done' <= cmds'[k].at /\ cmds'[k].at <= logouts
  BY <1>2, <1>3, <1>4 DEF QueueInv
<1>7. \A j, k \in 1..Len(cmds') : j < k => cmds'[j].at <= cmds'[k].at
  BY <1>2, <1>4 DEF QueueInv
<1>8. \A k \in 1..Len(cmds') :
         cmds'[k].op = "set" => cmds'[k].signer <= issued /\ epoch[cmds'[k].signer] = cmds'[k].at
  BY <1>2, <1>4 DEF QueueInv
<1> QED BY Zenon, <1>5, <1>6, <1>7, <1>8 DEF QueueInv

\* The first command, when the invariant holds.
LEMMA HeadQueue ==
    ASSUME TypeOK, QueueInv, cmds # <<>>
    PROVE  /\ done <= Head(cmds).at
           /\ Head(cmds).op = "set" =>
                Head(cmds).signer <= issued /\ epoch[Head(cmds).signer] = Head(cmds).at
<1>1. cmds \in Seq(Commands)
  BY Zenon DEF TypeOK
<1>2. 1 \in 1..Len(cmds) /\ Head(cmds) = cmds[1]
  BY <1>1
<1> QED BY Zenon, <1>2 DEF QueueInv

\* Retiring or replacing the active signer leaves nobody waiting on it open.
LEMMA ClearCalls ==
    ASSUME TypeOK, CallInv, clear_active_signer, UNCHANGED <<remote, issued, wait>>,
           \A i \in Signers : todo'[i] = 2 => todo[i] = 2 \/ (i \in remote /\ i = active')
    PROVE  CallInv'
<1>1. closed' = closed \union ({active} \intersect remote)
  BY Zenon DEF clear_active_signer, ActiveRemote
<1>2. \A i \in remote : i \in closed \union {active} => i \in closed'
  BY Zenon, <1>1
<1> QED BY Zenon, <1>1, <1>2 DEF CallInv

\* A listener that signs waits, if it waits, for the active signer.
LEMMA SignCalls ==
    ASSUME TypeOK, CallInv, NEW t \in Listeners, sign_event(t), UNCHANGED <<remote, issued, closed, active>>
    PROVE  CallInv'
<1>1. todo' = todo /\ wait \in [Tasks -> Calls \union {Idle}]
  BY Zenon DEF sign_event, TypeOK
<1>2. CASE active \in remote \ closed
  <2>1. wait' = [wait EXCEPT ![t] = <<active, lastId[active] + 1>>]
    BY Zenon, <1>2 DEF sign_event, rpc_call
  <2>2. \A u \in Tasks : wait'[u] = wait[u] \/ wait'[u] = <<active, lastId[active] + 1>>
    BY Zenon, <1>1, <2>1
  <2>3. \A u \in Tasks : wait'[u] # Idle => wait'[u][1] \in remote /\ wait'[u][1] \in closed \union {active}
    BY <1>2, <2>2 DEF CallInv
  <2> QED BY Zenon, <1>1, <2>3 DEF CallInv
<1>3. CASE active \notin remote \ closed
  BY Zenon, <1>1, <1>3 DEF sign_event, CallInv
<1> QED BY Zenon, <1>2, <1>3

\* A call that returns leaves its task idle, or waiting for the same signer.
LEMMA ReturnCalls ==
    ASSUME TypeOK, CallInv, NEW t \in Tasks, wait[t] # Idle, NEW ok \in BOOLEAN, Return(t, wait[t][1], ok),
           UNCHANGED <<remote, issued, closed, active>>
    PROVE  CallInv'
<1> DEFINE i == wait[t][1]
<1>1. wait \in [Tasks -> Calls \union {Idle}] /\ todo \in [Signers -> 0..2] /\ i \in Signers
  BY Zenon DEF TypeOK, Calls
<1>2. i \in remote /\ i \in closed \union {active}
  BY Zenon DEF CallInv
<1> HIDE DEF i
<1>3. Return(t, i, ok)
  BY Zenon DEF i
<1>4. \A u \in Tasks : wait'[u] = wait[u] \/ wait'[u] = Idle \/ wait'[u] = <<i, lastId[i] + 1>>
  BY Zenon, <1>1, <1>3 DEF Return, rpc_call
<1>5. \A u \in Tasks : wait'[u] # Idle => wait'[u][1] \in remote /\ wait'[u][1] \in closed \union {active}
  BY <1>2, <1>4 DEF CallInv
<1>6. \A k \in Signers : todo'[k] = 2 => todo[k] = 2
  BY <1>1, <1>3 DEF Return
<1> QED BY Zenon, <1>5, <1>6 DEF CallInv

LEMMA NextLogout == LogoutInv /\ [Next]_vars => LogoutInv'
<1> SUFFICES ASSUME LogoutInv, [Next]_vars PROVE LogoutInv'
  BY Zenon
<1>a. TypeOK /\ QueueInv /\ ActiveInv /\ CallInv /\ TypeOK'
  BY Zenon, NextTypes DEF LogoutInv
<1>b. issued \in Nat /\ logouts \in Nat /\ done \in Nat /\ epoch \in [Signers -> Nat] /\ MaxSigners \in Nat
  <2>1. issued \in Signers \union {0} /\ logouts \in Nat /\ done \in Nat /\ epoch \in [Signers -> Nat]
    BY Zenon, <1>a DEF TypeOK
  <2> QED BY <2>1, SignerAssumption DEF Signers
<1>1. CASE SetSigner
  <2>1. [op |-> "set", at |-> logouts, signer |-> issued + 1] \in Commands /\ issued + 1 \in Signers
    BY <1>1, <1>b DEF SetSigner, Commands, Signers
  <2>2. \A i \in Signers : i <= issued => epoch'[i] = epoch[i]
    BY <1>1, <1>b DEF SetSigner, Signers
  <2>3. epoch'[issued + 1] = logouts /\ issued' = issued + 1
    BY Zenon, <1>1, <1>b, <2>1 DEF SetSigner
  <2>4. QueueInv'
    BY <1>1, <1>a, <1>b, <2>1, <2>2, <2>3, AppendQueue DEF SetSigner, signerVars
  <2>5. ActiveInv'
    BY <1>1, <1>a, <1>b, <2>2, <2>3 DEF SetSigner, ActiveInv, TypeOK, signerVars, Signers, Unset
  <2>6. CallInv'
    <3>1. \A i \in remote' : i \in remote \/ i = issued + 1
      BY Zenon, <1>1 DEF SetSigner
    <3>2. remote \subseteq remote' /\ UNCHANGED <<closed, active, wait, todo>> /\ remote \subseteq Signers
      BY Zenon, <1>1, <1>a DEF SetSigner, signerVars, callVars, TypeOK
    <3>3. \A i \in remote' : i <= issued'
      <4>1. SUFFICES ASSUME NEW i \in remote' PROVE i <= issued'
        BY Zenon
      <4>2. issued' = issued + 1
        BY <2>3
      <4>3. CASE i \in remote
        <5>1. i <= issued /\ i \in Signers
          BY Zenon, <1>a, <3>2, <4>3 DEF CallInv
        <5> QED BY <1>b, <4>2, <5>1 DEF Signers
      <4>4. CASE i = issued + 1
        BY <1>b, <4>2, <4>4
      <4> QED BY Zenon, <3>1, <4>3, <4>4
    <3> QED BY Zenon, <1>a, <3>2, <3>3 DEF CallInv
  <2> QED BY Zenon, <1>a, <2>4, <2>5, <2>6 DEF LogoutInv
<1>2. ASSUME NEW op \in LogoutOps, Logout(op) PROVE LogoutInv'
  <2>1. logouts + 1 \in Nat /\ [op |-> op, at |-> logouts + 1] \in Commands /\ op # "set"
    BY <1>2, <1>b DEF Commands, LogoutOps
  <2>2. QueueInv'
    BY <1>2, <1>a, <1>b, <2>1, AppendQueue DEF Logout, signerVars
  <2>3. ActiveInv' /\ CallInv'
    BY Zenon, <1>2, <1>a DEF Logout, ActiveInv, CallInv, signerVars, callVars
  <2> QED BY Zenon, <1>a, <2>2, <2>3 DEF LogoutInv
<1>3. CASE Request
  <2>1. [op |-> "sign", at |-> logouts] \in Commands
    BY Zenon, <1>b DEF Commands
  <2>2. ASSUME cmds' = Append(cmds, [op |-> "sign", at |-> logouts]) PROVE QueueInv'
    BY <1>3, <1>a, <1>b, <2>1, <2>2, AppendQueue DEF Request, signerVars
  <2>3. ASSUME cmds' = cmds PROVE QueueInv'
    BY Zenon, <1>3, <1>a, <2>3 DEF Request, QueueInv, signerVars
  <2>4. ActiveInv' /\ CallInv'
    BY Zenon, <1>3, <1>a DEF Request, ActiveInv, CallInv, signerVars, callVars
  <2>5. QueueInv'
    BY Zenon, <1>3, <2>2, <2>3 DEF Request
  <2> QED BY Zenon, <1>a, <2>4, <2>5 DEF LogoutInv
<1>4. CASE EngineListener
  <2> DEFINE c == Head(cmds)
  <2>1. cmds # <<>> /\ cmds' = Tail(cmds) /\ UNCHANGED <<logouts, issued, epoch, remote>>
    BY Zenon, <1>4 DEF EngineListener, hostVars
  <2>2. c.at \in Nat /\ (c.op = "set" => c.signer \in Signers)
    BY Zenon, <1>a, <2>1, CommandTypes
  <2>3. done <= c.at /\ (c.op = "set" => c.signer <= issued /\ epoch[c.signer] = c.at)
    BY Zenon, <1>a, <2>1, HeadQueue
  <2>4. CASE c.op \in LogoutOps /\ Obey(c.op, c.at) /\ UNCHANGED callVars
    <3>1. done' = c.at /\ active' = Unset /\ clear_active_signer /\ UNCHANGED <<wait, todo>>
      BY Zenon, <2>4 DEF Obey, Retire, remove_active_signer, callVars
    <3>2. QueueInv'
      BY Zenon, <1>a, <2>1, <3>1, TailQueue
    <3>3. CallInv'
      BY Zenon, <1>a, <2>1, <3>1, ClearCalls
    <3> QED BY Zenon, <1>a, <3>1, <3>2, <3>3 DEF LogoutInv, ActiveInv
  <2>5. CASE c.op = "set" /\ Install(c.signer) /\ UNCHANGED done
    <3>1. active' = c.signer /\ clear_active_signer /\ UNCHANGED wait
      BY Zenon, <2>5 DEF Install
    <3>2. QueueInv'
      BY Zenon, <1>a, <2>1, <2>5, TailQueue
    <3>3. ActiveInv'
      BY Zenon, <2>1, <2>3, <2>5, <3>1 DEF ActiveInv
    <3> HIDE DEF c
    <3>4. todo' = IF c.signer \in remote THEN [todo EXCEPT ![c.signer] = 2] ELSE todo
      BY Zenon, <2>5 DEF Install
    <3>5. \A i \in Signers : todo'[i] = 2 => todo[i] = 2 \/ (i \in remote /\ i = active')
      BY Zenon, <1>a, <3>1, <3>4, CallTypes
    <3>6. CallInv'
      BY Zenon, <1>a, <2>1, <3>1, <3>5, ClearCalls
    <3> QED BY Zenon, <1>a, <3>2, <3>3, <3>6 DEF LogoutInv
  <2>6. CASE c.op = "sign" /\ sign_event(Engine) /\ UNCHANGED <<signerVars, pending>>
    <3>1. Engine \in Listeners /\ UNCHANGED <<closed, active, done>>
      BY Zenon, <2>6 DEF Listeners, signerVars
    <3>2. QueueInv'
      BY Zenon, <1>a, <2>1, <3>1, TailQueue
    <3>3. ActiveInv' /\ CallInv'
      BY Zenon, <1>a, <2>1, <2>6, <3>1, SignCalls DEF ActiveInv
    <3> QED BY Zenon, <1>a, <3>2, <3>3 DEF LogoutInv
  <2> QED BY Zenon, <1>4, <2>4, <2>5, <2>6 DEF EngineListener
<1>5. CASE ParserListener
  <2>1. Parser \in Listeners /\ sign_event(Parser) /\ UNCHANGED <<remote, issued, closed, active>>
    BY Zenon, <1>5 DEF Listeners, ParserListener, hostVars, signerVars
  <2>2. CallInv'
    BY Zenon, <1>a, <2>1, SignCalls
  <2>3. QueueInv' /\ ActiveInv'
    BY Zenon, <1>5, <1>a DEF ParserListener, QueueInv, ActiveInv, hostVars, signerVars
  <2> QED BY Zenon, <1>a, <2>2, <2>3 DEF LogoutInv
<1>6. CASE ConnectionsListener
  <2>1. UNCHANGED <<remote, issued, closed, active>> /\ Connections \in Listeners
    BY Zenon, <1>6 DEF ConnectionsListener, hostVars, signerVars, Listeners
  <2>2. ASSUME sign_event(Connections) PROVE CallInv'
    BY Zenon, <1>a, <2>1, <2>2, SignCalls
  <2>3. ASSUME UNCHANGED callVars PROVE CallInv'
    BY Zenon, <1>a, <2>1, <2>3 DEF CallInv, callVars
  <2>4. QueueInv' /\ ActiveInv'
    BY Zenon, <1>6, <1>a DEF ConnectionsListener, QueueInv, ActiveInv, hostVars, signerVars
  <2>5. CallInv'
    BY Zenon, <1>6, <2>2, <2>3 DEF ConnectionsListener
  <2> QED BY Zenon, <1>a, <2>4, <2>5 DEF LogoutInv
<1>7. CASE Control
  <2>1. clear_active_signer /\ active' = Unset /\ UNCHANGED <<remote, issued, wait, todo, logouts, epoch, cmds, done>>
    BY Zenon, <1>7 DEF Control, Retire, remove_active_signer, hostVars, callVars
  <2>2. CallInv'
    BY Zenon, <1>a, <2>1, ClearCalls
  <2>3. QueueInv' /\ ActiveInv'
    BY Zenon, <1>a, <2>1 DEF QueueInv, ActiveInv
  <2> QED BY Zenon, <1>a, <2>2, <2>3 DEF LogoutInv
<1>8. ASSUME NEW i \in Signers, Pump(i) PROVE LogoutInv'
  BY Zenon, <1>8, <1>a DEF Pump, LogoutInv, QueueInv, ActiveInv, CallInv, hostVars, chanVars, signerVars, callVars
<1>9. ASSUME NEW i \in Signers, Connect(i) PROVE LogoutInv'
  <2>1. UNCHANGED <<remote, issued, closed, active, logouts, epoch, cmds, done>>
    BY Zenon, <1>9 DEF Connect, hostVars, chanVars, signerVars
  <2>2. i \in remote /\ i \in closed \union {active}
    BY Zenon, <1>9, <1>a DEF Connect, CallInv
  <2>3. \A u \in Tasks : wait'[u] = wait[u] \/ wait'[u] = <<i, lastId[i] + 1>>
    BY Zenon, <1>9, <1>a, CallTypes DEF Connect, rpc_call
  <2>4. \A k \in Signers : todo'[k] = 2 => todo[k] = 2
    BY Zenon, <1>9, <1>a, CallTypes DEF Connect
  <2>5. \A u \in Tasks : wait'[u] # Idle => wait'[u][1] \in remote /\ wait'[u][1] \in closed \union {active}
    BY <1>a, <2>2, <2>3 DEF CallInv
  <2>6. CallInv'
    BY Zenon, <1>a, <2>1, <2>4, <2>5 DEF CallInv
  <2>7. QueueInv' /\ ActiveInv'
    BY Zenon, <1>a, <2>1 DEF QueueInv, ActiveInv
  <2> QED BY Zenon, <1>a, <2>6, <2>7 DEF LogoutInv
<1>10. ASSUME NEW t \in Tasks, Poll(t) \/ Timeout(t) PROVE LogoutInv'
  <2>1. wait[t] # Idle /\ UNCHANGED <<remote, issued, closed, active, logouts, epoch, cmds, done>>
    BY Zenon, <1>10 DEF Poll, Timeout, hostVars, chanVars, signerVars
  <2>2. \E ok \in BOOLEAN : Return(t, wait[t][1], ok)
    BY Zenon, <1>10 DEF Poll, Timeout
  <2>3. CallInv'
    BY Zenon, <1>a, <2>1, <2>2, ReturnCalls
  <2>4. QueueInv' /\ ActiveInv'
    BY Zenon, <1>a, <2>1 DEF QueueInv, ActiveInv
  <2> QED BY Zenon, <1>a, <2>3, <2>4 DEF LogoutInv
<1>11. CASE RemoteAnswer
  BY Zenon, <1>11, <1>a DEF RemoteAnswer, LogoutInv, QueueInv, ActiveInv, CallInv, hostVars, signerVars
<1>12. CASE UNCHANGED vars
  BY Zenon, <1>12, <1>a DEF vars, LogoutInv, QueueInv, ActiveInv, CallInv, hostVars, chanVars, signerVars, callVars
<1> QED BY Zenon, <1>1, <1>2, <1>3, <1>4, <1>5, <1>6, <1>7, <1>8, <1>9, <1>10, <1>11, <1>12 DEF Next, Host, Worker

LEMMA LogoutInvariant == Spec => []LogoutInv
BY InitLogout, NextLogout, PTL DEF Spec

\* The ordered marker of clear_signer and remove_signer does what engine.rs says
\* of it: no SetSigner queued before a logout leaves a signer active once the
\* marker has been read, whatever the immediate signals do in between.
THEOREM LogoutAlwaysSticks == Spec => []LogoutSticks
<1>1. LogoutInv => LogoutSticks
  BY Zenon DEF LogoutInv, ActiveInv, LogoutSticks, TypeOK
<1> QED BY <1>1, LogoutInvariant, PTL

\* A signer that signs or reports in a step is no older than the last marker.
LEMMA ReturnUses ==
    ASSUME LogoutInv, NEW t \in Tasks, wait[t] # Idle, NEW ok \in BOOLEAN, Return(t, wait[t][1], ok),
           ok => wait[t][1] \notin closed,
           NEW k \in Signers, signed'[k] # signed[k] \/ k \in reported' \ reported
    PROVE  epoch[k] >= done
<1> DEFINE i == wait[t][1]
<1>1. i \in Signers /\ signed \in [Signers -> Nat]
  BY Zenon DEF LogoutInv, TypeOK, Calls
<1>2. i \in closed \union {active}
  BY Zenon DEF LogoutInv, CallInv
<1> HIDE DEF i
<1>3. Return(t, i, ok) /\ (ok => i \notin closed)
  BY Zenon DEF i
<1>4. k = i /\ i \notin closed
  BY Zenon, <1>1, <1>3 DEF Return
<1>5. k = active /\ active # Unset
  BY <1>1, <1>2, <1>4 DEF Unset, Signers
<1>6. epoch[k] \in Nat /\ done \in Nat
  BY Zenon DEF LogoutInv, TypeOK
<1> QED BY Zenon, <1>5, <1>6 DEF LogoutInv, ActiveInv

LEMMA SignUses ==
    ASSUME LogoutInv, NEW t \in Listeners, sign_event(t),
           NEW k \in Signers, signed'[k] # signed[k] \/ k \in reported' \ reported
    PROVE  epoch[k] >= done
<1>1. signed \in [Signers -> Nat] /\ epoch[k] \in Nat /\ done \in Nat
  BY Zenon DEF LogoutInv, TypeOK
<1>2. k = active /\ active # Unset
  <2>1. reported' = reported /\ signed' # signed
    BY Zenon DEF sign_event
  <2>2. active \in Signers \ remote /\ signed' = [signed EXCEPT ![active] = @ + 1]
    BY Zenon, <2>1 DEF sign_event
  <2> QED BY <1>1, <2>1, <2>2 DEF Unset, Signers
<1> QED BY Zenon, <1>1, <1>2 DEF LogoutInv, ActiveInv

LEMMA StepUses ==
    ASSUME LogoutInv, Next,
           NEW k \in Signers, signed'[k] # signed[k] \/ k \in reported' \ reported
    PROVE  epoch'[k] >= done'
<1>1. CASE Host \/ RemoteAnswer
  BY Zenon, <1>1 DEF Host, SetSigner, Logout, Request, RemoteAnswer, callVars
<1>2. CASE EngineListener
  <2> DEFINE c == Head(cmds)
  <2>1. cmds # <<>> /\ epoch' = epoch /\ TypeOK /\ QueueInv
    BY Zenon, <1>2 DEF EngineListener, hostVars, LogoutInv
  <2>2. CASE c.op = "set" /\ Install(c.signer) /\ UNCHANGED done
    <3>1. c.at \in Nat /\ done <= c.at /\ epoch[c.signer] = c.at /\ done \in Nat
      BY Zenon, <2>1, <2>2, CommandTypes, HeadQueue DEF TypeOK
    <3>2. k = c.signer /\ done' = done
      BY Zenon, <2>2 DEF Install
    <3> QED BY Zenon, <2>1, <3>1, <3>2
  <2>3. CASE c.op = "sign" /\ sign_event(Engine) /\ UNCHANGED <<signerVars, pending>>
    BY Zenon, <2>1, <2>3, SignUses DEF Listeners, signerVars
  <2>4. CASE c.op \in LogoutOps /\ Obey(c.op, c.at) /\ UNCHANGED callVars
    BY Zenon, <2>4 DEF callVars
  <2> QED BY Zenon, <1>2, <2>2, <2>3, <2>4 DEF EngineListener
<1>3. CASE ParserListener
  BY Zenon, <1>3, SignUses DEF ParserListener, Listeners, hostVars, signerVars
<1>4. CASE ConnectionsListener
  <2>1. UNCHANGED <<epoch, done>> /\ Connections \in Listeners
    BY Zenon, <1>4 DEF ConnectionsListener, hostVars, signerVars, Listeners
  <2>2. sign_event(Connections)
    BY Zenon, <1>4 DEF ConnectionsListener, callVars
  <2> QED BY Zenon, <2>1, <2>2, SignUses
<1>5. CASE Control \/ \E i \in Signers : Pump(i) \/ Connect(i)
  BY Zenon, <1>5 DEF Control, Pump, Connect, callVars
<1>6. ASSUME NEW t \in Tasks, Poll(t) PROVE epoch'[k] >= done'
  <2>1. wait[t] # Idle /\ UNCHANGED <<epoch, done>>
    BY Zenon, <1>6 DEF Poll, hostVars, signerVars
  <2>2. \E ok \in BOOLEAN : Return(t, wait[t][1], ok) /\ (ok => wait[t][1] \notin closed)
    BY Zenon, <1>6 DEF Poll
  <2> QED BY Zenon, <2>1, <2>2, ReturnUses
<1>7. ASSUME NEW t \in Tasks, Timeout(t) PROVE epoch'[k] >= done'
  <2>1. wait[t] # Idle /\ UNCHANGED <<epoch, done>> /\ Return(t, wait[t][1], FALSE)
    BY Zenon, <1>7 DEF Timeout, hostVars, signerVars
  <2> QED BY Zenon, <2>1, ReturnUses
<1> QED BY Zenon, <1>1, <1>2, <1>3, <1>4, <1>5, <1>6, <1>7 DEF Next, Worker

\* After a logout's marker no signer set before it signs or reports, even for a
\* call that was already waiting: the task that waited finds its signer closed.
THEOREM NoUseAfterLogoutAlways == Spec => NoUseAfterLogout
<1>1. LogoutInv /\ [Next]_vars =>
        [\A i \in Signers : (signed'[i] # signed[i] \/ i \in reported' \ reported) => epoch'[i] >= done']_vars
  <2> SUFFICES ASSUME LogoutInv, Next, NEW i \in Signers, signed'[i] # signed[i] \/ i \in reported' \ reported
               PROVE  epoch'[i] >= done'
    BY Zenon
  <2> QED BY Zenon, StepUses
<1> QED BY <1>1, LogoutInvariant, PTL DEF Spec, NoUseAfterLogout

-----------------------------------------------------------------------------
\* The inductive invariant behind the removal of a remote signer.  A logout's
\* marker is younger than every command before it and than the active signer,
\* and signers are installed in the order of their numbers.
MarkerInv ==
    /\ \A i \in Signers : i <= issued => epoch[i] <= logouts
    /\ \A j, k \in 1..Len(cmds) : j < k /\ cmds[k].op \in LogoutOps => cmds[j].at < cmds[k].at
    /\ active # Unset => \A k \in 1..Len(cmds) : cmds[k].op \in LogoutOps => epoch[active] < cmds[k].at

\* A signer waiting to be installed is younger than the active one and was never
\* closed; the active one is open.
FreshInv ==
    /\ active \notin closed
    /\ \A j, k \in 1..Len(cmds) :
         j < k /\ cmds[j].op = "set" /\ cmds[k].op = "set" => cmds[j].signer < cmds[k].signer
    /\ \A k \in 1..Len(cmds) :
         cmds[k].op = "set" => active < cmds[k].signer /\ cmds[k].signer \notin closed

\* A removed signer that was not told yet is still active, and both ways to it,
\* the signal and the marker, have nothing before them that would retire it.
OwedInv ==
    \A i \in owed \ told :
        /\ i = active
        /\ ctrl # <<>> /\ Head(ctrl) = "remove"
        /\ \E k \in 1..Len(cmds) : cmds[k].op = "remove" /\ \A j \in 1..k - 1 : cmds[j].op = "sign"

RemovalInv == LogoutInv /\ MarkerInv /\ FreshInv /\ OwedInv

LEMMA InitRemoval == Init => RemovalInv
<1> SUFFICES ASSUME Init PROVE RemovalInv
  BY Zenon
<1>1. LogoutInv
  BY Zenon, InitLogout
<1>2. MarkerInv
  BY DEF Init, MarkerInv, Unset
<1>3. FreshInv /\ OwedInv
  BY DEF Init, FreshInv, OwedInv
<1> QED BY Zenon, <1>1, <1>2, <1>3 DEF RemovalInv

\* The numbers that the invariants compare.
LEMMA RemovalNumbers ==
    ASSUME LogoutInv
    PROVE  /\ issued \in Nat /\ logouts \in Nat /\ active \in Nat /\ Len(cmds) \in Nat
           /\ active <= issued
           /\ active # Unset => active \in Signers /\ epoch[active] \in Nat
           /\ closed \subseteq remote /\ remote \subseteq Signers /\ Signers \subseteq Nat \ {0}
           /\ \A i \in closed : i <= issued
           /\ \A k \in 1..Len(cmds) :
                /\ cmds[k].at \in Nat /\ cmds[k].at <= logouts
                /\ cmds[k].op = "set" => cmds[k].signer \in Signers /\ cmds[k].signer <= issued
<1>1. TypeOK /\ QueueInv /\ ActiveInv /\ CallInv
  BY Zenon DEF LogoutInv
<1>2. /\ issued \in Signers \union {0} /\ logouts \in Nat /\ active \in Signers \union {Unset}
      /\ epoch \in [Signers -> Nat] /\ closed \subseteq remote /\ remote \subseteq Signers
      /\ cmds \in Seq(Commands)
  BY Zenon, <1>1 DEF TypeOK
<1>3. Signers \subseteq Nat \ {0}
  BY SignerAssumption DEF Signers
<1>4. issued \in Nat /\ active \in Nat /\ Len(cmds) \in Nat
  BY <1>2, <1>3 DEF Unset
<1>5. active <= issued
  BY <1>1, <1>2, <1>4 DEF ActiveInv, Unset
<1>6. \A i \in closed : i <= issued
  BY Zenon, <1>1, <1>2 DEF CallInv
<1>7. \A k \in 1..Len(cmds) : cmds[k].at \in Nat /\ (cmds[k].op = "set" => cmds[k].signer \in Signers)
  BY <1>2 DEF Commands, LogoutOps
<1>8. \A k \in 1..Len(cmds) : cmds[k].at <= logouts /\ (cmds[k].op = "set" => cmds[k].signer <= issued)
  BY Zenon, <1>1 DEF QueueInv
<1> QED BY Zenon, <1>2, <1>3, <1>4, <1>5, <1>6, <1>7, <1>8

\* A command put behind the others: a marker is younger than all of them, and so
\* is a signer.
LEMMA AppendRemoval ==
    ASSUME LogoutInv, MarkerInv, FreshInv, NEW c \in Commands, cmds' = Append(cmds, c), UNCHANGED <<active, closed>>,
           c.op \in LogoutOps => c.at \in Nat /\ logouts < c.at,
           c.op = "set" => c.signer \in Signers /\ issued < c.signer,
           \A i \in Signers : i <= issued => epoch'[i] = epoch[i],
           \A i \in Signers : i <= issued' => epoch'[i] <= logouts'
    PROVE  MarkerInv' /\ FreshInv'
<1>1. /\ issued \in Nat /\ logouts \in Nat /\ active \in Nat /\ Len(cmds) \in Nat
      /\ active <= issued
      /\ active # Unset => active \in Signers /\ epoch[active] \in Nat
      /\ closed \subseteq remote /\ remote \subseteq Signers /\ Signers \subseteq Nat \ {0}
      /\ \A i \in closed : i <= issued
  BY Zenon, RemovalNumbers
<1>2. \A k \in 1..Len(cmds) :
         /\ cmds[k].at \in Nat /\ cmds[k].at <= logouts
         /\ cmds[k].op = "set" => cmds[k].signer \in Signers /\ cmds[k].signer <= issued
  BY Zenon, RemovalNumbers
<1>3. cmds \in Seq(Commands)
  BY Zenon DEF LogoutInv, TypeOK
<1>4. /\ Len(cmds') = Len(cmds) + 1 /\ cmds'[Len(cmds) + 1] = c
      /\ \A k \in 1..Len(cmds) : cmds'[k] = cmds[k]
  BY <1>1, <1>3
<1>5. \A k \in 1..Len(cmds') : k \in 1..Len(cmds) \/ k = Len(cmds) + 1
  BY <1>1, <1>4
<1>6. \A j, k \in 1..Len(cmds') : j < k => j \in 1..Len(cmds)
  BY <1>1, <1>4
<1>7. \A j, k \in 1..Len(cmds') : j < k /\ cmds'[k].op \in LogoutOps => cmds'[j].at < cmds'[k].at
  <2> SUFFICES ASSUME NEW j \in 1..Len(cmds'), NEW k \in 1..Len(cmds'), j < k, cmds'[k].op \in LogoutOps
               PROVE  cmds'[j].at < cmds'[k].at
    BY Zenon
  <2>1. j \in 1..Len(cmds) /\ cmds'[j] = cmds[j]
    BY Zenon, <1>4, <1>6
  <2>2. CASE k = Len(cmds) + 1
    <3>1. c.at \in Nat /\ logouts < c.at /\ cmds[j].at \in Nat /\ cmds[j].at <= logouts /\ cmds'[k] = c
      BY Zenon, <1>2, <1>4, <2>1, <2>2
    <3> QED BY <1>1, <2>1, <3>1
  <2>3. CASE k \in 1..Len(cmds)
    BY Zenon, <1>4, <2>1, <2>3 DEF MarkerInv
  <2> QED BY Zenon, <1>5, <2>2, <2>3
<1>8. active' # Unset => \A k \in 1..Len(cmds') : cmds'[k].op \in LogoutOps => epoch'[active'] < cmds'[k].at
  <2> SUFFICES ASSUME active # Unset, NEW k \in 1..Len(cmds'), cmds'[k].op \in LogoutOps
               PROVE  epoch'[active] < cmds'[k].at
    BY Zenon
  <2>1. epoch'[active] = epoch[active] /\ epoch[active] \in Nat /\ epoch[active] <= logouts
    BY Zenon, <1>1 DEF MarkerInv
  <2>2. CASE k = Len(cmds) + 1
    <3>1. c.at \in Nat /\ logouts < c.at /\ cmds'[k] = c
      BY Zenon, <1>4, <2>2
    <3> QED BY <1>1, <2>1, <3>1
  <2>3. CASE k \in 1..Len(cmds)
    BY Zenon, <1>4, <2>1, <2>3 DEF MarkerInv
  <2> QED BY Zenon, <1>5, <2>2, <2>3
<1>9. \A j, k \in 1..Len(cmds') :
         j < k /\ cmds'[j].op = "set" /\ cmds'[k].op = "set" => cmds'[j].signer < cmds'[k].signer
  <2> SUFFICES ASSUME NEW j \in 1..Len(cmds'), NEW k \in 1..Len(cmds'), j < k,
                      cmds'[j].op = "set", cmds'[k].op = "set"
               PROVE  cmds'[j].signer < cmds'[k].signer
    BY Zenon
  <2>1. j \in 1..Len(cmds) /\ cmds'[j] = cmds[j]
    BY Zenon, <1>4, <1>6
  <2>2. CASE k = Len(cmds) + 1
    <3>1. c.signer \in Nat /\ issued < c.signer /\ cmds[j].signer \in Nat /\ cmds[j].signer <= issued /\ cmds'[k] = c
      BY Zenon, <1>1, <1>2, <1>4, <2>1, <2>2
    <3> QED BY <1>1, <2>1, <3>1
  <2>3. CASE k \in 1..Len(cmds)
    BY Zenon, <1>4, <2>1, <2>3 DEF FreshInv
  <2> QED BY Zenon, <1>5, <2>2, <2>3
<1>10. \A k \in 1..Len(cmds') : cmds'[k].op = "set" => active < cmds'[k].signer /\ cmds'[k].signer \notin closed
  <2> SUFFICES ASSUME NEW k \in 1..Len(cmds'), cmds'[k].op = "set"
               PROVE  active < cmds'[k].signer /\ cmds'[k].signer \notin closed
    BY Zenon
  <2>1. CASE k = Len(cmds) + 1
    <3>1. c.signer \in Nat /\ issued < c.signer /\ cmds'[k] = c
      BY Zenon, <1>1, <1>4, <2>1
    <3> QED BY <1>1, <3>1
  <2>2. CASE k \in 1..Len(cmds)
    BY Zenon, <1>4, <2>2 DEF FreshInv
  <2> QED BY Zenon, <1>5, <2>1, <2>2
<1> QED BY Zenon, <1>7, <1>8, <1>9, <1>10 DEF MarkerInv, FreshInv

\* The active signer is retired, or replaced by a younger one that was never
\* closed, with the first command taken or not.
LEMMA RetireRemoval ==
    ASSUME LogoutInv, MarkerInv, FreshInv, UNCHANGED <<logouts, issued, epoch>>,
           closed' = closed \union ({active} \intersect remote), active' = Unset,
           cmds' = cmds
    PROVE  MarkerInv' /\ FreshInv'
<1>1. /\ active \in Nat /\ closed \subseteq Signers /\ remote \subseteq Signers /\ Signers \subseteq Nat \ {0}
      /\ \A k \in 1..Len(cmds) : cmds[k].op = "set" => cmds[k].signer \in Nat \ {0}
  BY Zenon, RemovalNumbers
<1>2. \A k \in 1..Len(cmds) : cmds[k].op = "set" => 0 < cmds[k].signer /\ cmds[k].signer # active
  BY <1>1 DEF FreshInv
<1>3. \A k \in 1..Len(cmds) : cmds[k].op = "set" => cmds[k].signer \notin closed'
  BY Zenon, <1>2 DEF FreshInv
<1>4. Unset \notin closed'
  BY <1>1 DEF Unset
<1>5. FreshInv'
  BY Zenon, <1>2, <1>3, <1>4 DEF FreshInv, Unset
<1> QED BY Zenon, <1>5 DEF MarkerInv

LEMMA TailRemoval ==
    ASSUME LogoutInv, MarkerInv, FreshInv, UNCHANGED <<logouts, issued, epoch>>, cmds # <<>>, cmds' = Tail(cmds),
           \/ active' = active /\ closed' = closed
           \/ /\ closed' = closed \union ({active} \intersect remote)
              /\ active' = Unset \/ (Head(cmds).op = "set" /\ active' = Head(cmds).signer)
    PROVE  MarkerInv' /\ FreshInv'
<1>1. /\ active \in Nat /\ closed \subseteq Signers /\ remote \subseteq Signers /\ Signers \subseteq Nat \ {0}
      /\ \A k \in 1..Len(cmds) : cmds[k].op = "set" => cmds[k].signer \in Signers
  BY Zenon, RemovalNumbers
<1>2. cmds \in Seq(Commands)
  BY Zenon DEF LogoutInv, TypeOK
<1>3. /\ Len(cmds) \in Nat /\ Len(cmds) > 0 /\ Len(cmds') = Len(cmds) - 1 /\ Head(cmds) = cmds[1]
      /\ \A k \in 1..Len(cmds') : cmds'[k] = cmds[k + 1]
  BY <1>2
<1>4. /\ 1 \in 1..Len(cmds)
      /\ \A k \in 1..Len(cmds') : k + 1 \in 1..Len(cmds) /\ 1 < k + 1
      /\ \A j, k \in 1..Len(cmds') : j < k => j + 1 < k + 1
  BY <1>3
<1>5. \A j, k \in 1..Len(cmds') : j < k /\ cmds'[k].op \in LogoutOps => cmds'[j].at < cmds'[k].at
  BY ZenonT(30), <1>3, <1>4 DEF MarkerInv
<1>6. \A j, k \in 1..Len(cmds') :
         j < k /\ cmds'[j].op = "set" /\ cmds'[k].op = "set" => cmds'[j].signer < cmds'[k].signer
  BY <1>3, <1>4 DEF FreshInv
<1>7. \A k \in 1..Len(cmds') :
         /\ cmds'[k].op = "set" => active < cmds'[k].signer /\ cmds'[k].signer \notin closed
         /\ cmds'[k].op \in LogoutOps /\ active # Unset => epoch[active] < cmds'[k].at
  BY Zenon, <1>3, <1>4 DEF MarkerInv, FreshInv
<1>8. CASE active' = active /\ closed' = closed
  BY Zenon, <1>5, <1>6, <1>7, <1>8 DEF MarkerInv, FreshInv
<1>9. ASSUME closed' = closed \union ({active} \intersect remote)
      PROVE  \A k \in 1..Len(cmds') : cmds'[k].op = "set" => 0 < cmds'[k].signer /\ cmds'[k].signer \notin closed'
  <2> SUFFICES ASSUME NEW k \in 1..Len(cmds'), cmds'[k].op = "set"
               PROVE  0 < cmds'[k].signer /\ cmds'[k].signer \notin closed'
    BY Zenon
  <2>1. cmds'[k].signer \in Signers
    BY Zenon, <1>1, <1>3, <1>4
  <2>2. active < cmds'[k].signer /\ cmds'[k].signer \notin closed
    BY Zenon, <1>7
  <2>3. \A x \in Nat \ {0}, y \in Nat : y < x => 0 < x /\ x # y
    OBVIOUS
  <2>4. 0 < cmds'[k].signer /\ cmds'[k].signer # active
    BY Zenon, <1>1, <2>1, <2>2, <2>3
  <2> QED BY Zenon, <1>9, <2>2, <2>4
<1>10. CASE closed' = closed \union ({active} \intersect remote) /\ active' = Unset
  <2>1. Unset \notin closed'
    BY <1>1, <1>10 DEF Unset
  <2> QED BY Zenon, <1>5, <1>6, <1>9, <1>10, <2>1 DEF MarkerInv, FreshInv, Unset
<1>11. CASE closed' = closed \union ({active} \intersect remote) /\ Head(cmds).op = "set" /\ active' = Head(cmds).signer
  <2>1. cmds[1].op = "set" /\ active' = cmds[1].signer /\ cmds[1].signer \in Signers
    BY Zenon, <1>1, <1>3, <1>4, <1>11
  <2>2. cmds[1].signer \notin closed'
    <3>1. active < cmds[1].signer /\ cmds[1].signer \notin closed
      BY Zenon, <1>4, <2>1 DEF FreshInv
    <3> QED BY <1>1, <1>11, <2>1, <3>1
  <2>3. \A k \in 1..Len(cmds') : cmds'[k].op = "set" => cmds[1].signer < cmds'[k].signer
    BY Zenon, <1>3, <1>4, <2>1 DEF FreshInv
  <2>4. \A k \in 1..Len(cmds') : cmds'[k].op \in LogoutOps => epoch[cmds[1].signer] < cmds'[k].at
    <3>1. epoch[cmds[1].signer] = cmds[1].at
      BY Zenon, <1>4, <2>1 DEF LogoutInv, QueueInv
    <3> QED BY Zenon, <1>3, <1>4, <3>1 DEF MarkerInv
  <2>5. FreshInv'
    BY Zenon, <1>6, <1>9, <1>11, <2>1, <2>2, <2>3 DEF FreshInv
  <2> QED BY Zenon, <1>5, <2>1, <2>4, <2>5 DEF MarkerInv
<1> QED BY Zenon, <1>8, <1>10, <1>11

\* Nothing that would retire the active signer comes before the removal it is
\* owed, when the host asks for it with no other signal on its way: every command
\* of the channel is a request to sign.
LEMMA OnlySigns ==
    ASSUME RemovalInv, active = Selected, active # Unset
    PROVE  \A k \in 1..Len(cmds) : cmds[k].op = "sign"
<1>1. active = issued /\ epoch[active] = logouts
  BY Zenon DEF Selected
<1>2. LogoutInv /\ MarkerInv /\ FreshInv /\ cmds \in Seq(Commands)
  BY Zenon DEF RemovalInv, LogoutInv, TypeOK
<1> SUFFICES ASSUME NEW k \in 1..Len(cmds) PROVE cmds[k].op = "sign"
  BY Zenon
<1>3. cmds[k].op \in LogoutOps \union {"sign", "set"}
  BY <1>2 DEF Commands
<1>4. /\ issued \in Nat /\ logouts \in Nat /\ cmds[k].at \in Nat /\ cmds[k].at <= logouts
      /\ cmds[k].op = "set" => cmds[k].signer \in Nat /\ cmds[k].signer <= issued
  BY Zenon, <1>2, RemovalNumbers
<1>5. cmds[k].op \notin LogoutOps
  <2> SUFFICES ASSUME cmds[k].op \in LogoutOps PROVE FALSE
    BY Zenon
  <2>1. logouts < cmds[k].at
    BY Zenon, <1>1, <1>2 DEF MarkerInv
  <2> QED BY <1>4, <2>1
<1>6. cmds[k].op # "set"
  <2> SUFFICES ASSUME cmds[k].op = "set" PROVE FALSE
    BY Zenon
  <2>1. issued < cmds[k].signer
    BY Zenon, <1>1, <1>2 DEF FreshInv
  <2> QED BY <1>4, <2>1
<1> QED BY Zenon, <1>3, <1>5, <1>6

\* What is owed stays on its way when commands and signals are added, and when
\* steps leave both channels and the active signer alone.
LEMMA StillOwed ==
    ASSUME TypeOK, OwedInv, owed' \subseteq owed, told \subseteq told', active' = active,
           ctrl' = ctrl \/ \E op \in LogoutOps : ctrl' = Append(ctrl, op),
           cmds' = cmds \/ \E c \in Commands : cmds' = Append(cmds, c)
    PROVE  OwedInv'
<1>1. cmds \in Seq(Commands) /\ ctrl \in Seq(LogoutOps)
  BY Zenon DEF TypeOK
<1>2. ctrl # <<>> => ctrl' # <<>> /\ Head(ctrl') = Head(ctrl)
  BY <1>1
<1>3. \A k \in 1..Len(cmds) : k \in 1..Len(cmds') /\ cmds'[k] = cmds[k]
  BY <1>1
<1>4. \A k \in 1..Len(cmds) : \A j \in 1..k - 1 : j \in 1..Len(cmds)
  BY <1>1
<1> SUFFICES ASSUME NEW i \in owed' \ told'
             PROVE  /\ i = active' /\ ctrl' # <<>> /\ Head(ctrl') = "remove"
                    /\ \E k \in 1..Len(cmds') : cmds'[k].op = "remove" /\ \A j \in 1..k - 1 : cmds'[j].op = "sign"
  BY Zenon DEF OwedInv
<1>5. i \in owed \ told
  BY Zenon
<1>6. PICK k \in 1..Len(cmds) : cmds[k].op = "remove" /\ \A j \in 1..k - 1 : cmds[j].op = "sign"
  BY Zenon, <1>5 DEF OwedInv
<1>7. cmds'[k].op = "remove" /\ \A j \in 1..k - 1 : cmds'[j].op = "sign"
  BY Zenon, <1>3, <1>4, <1>6
<1> QED BY Zenon, <1>2, <1>3, <1>5, <1>7 DEF OwedInv

LEMMA NextRemoval == RemovalInv /\ [Next]_vars => RemovalInv'
<1> SUFFICES ASSUME RemovalInv, [Next]_vars PROVE RemovalInv'
  BY Zenon
<1>a. LogoutInv /\ MarkerInv /\ FreshInv /\ OwedInv /\ TypeOK
  BY Zenon DEF RemovalInv, LogoutInv
<1>b. LogoutInv' /\ TypeOK'
  BY Zenon, <1>a, NextLogout DEF LogoutInv
<1>c. /\ issued \in Nat /\ logouts \in Nat /\ epoch \in [Signers -> Nat] /\ Signers \subseteq Nat \ {0}
      /\ owed \subseteq remote /\ remote \subseteq Signers
  BY Zenon, <1>a, RemovalNumbers DEF TypeOK
<1> SUFFICES MarkerInv' /\ FreshInv' /\ OwedInv'
  BY Zenon, <1>b DEF RemovalInv
<1>1. CASE SetSigner
  <2>1. UNCHANGED <<active, closed, logouts, owed, told, ctrl>> /\ issued' = issued + 1
    BY Zenon, <1>1 DEF SetSigner, signerVars
  <2>2. [op |-> "set", at |-> logouts, signer |-> issued + 1] \in Commands /\ issued + 1 \in Signers
    BY <1>1, <1>c, SignerAssumption DEF SetSigner, Commands, Signers
  <2>3. /\ cmds' = Append(cmds, [op |-> "set", at |-> logouts, signer |-> issued + 1])
        /\ epoch' = [epoch EXCEPT ![issued + 1] = logouts]
    BY Zenon, <1>1 DEF SetSigner
  <2>4. \A i \in Signers : i <= issued => i # issued + 1
    BY <1>c
  <2>5. \A i \in Signers : i <= issued => epoch'[i] = epoch[i]
    BY Zenon, <1>c, <2>3, <2>4
  <2>6. \A i \in Signers : i <= issued' => epoch'[i] <= logouts'
    <3> SUFFICES ASSUME NEW i \in Signers, i <= issued + 1 PROVE epoch'[i] <= logouts
      BY Zenon, <2>1
    <3>1. CASE i = issued + 1
      <4>1. epoch'[i] = logouts
        BY Zenon, <1>c, <2>3, <3>1
      <4> QED BY <1>c, <4>1
    <3>2. CASE i # issued + 1
      <4>1. i <= issued
        BY <1>c, <3>2
      <4> QED BY Zenon, <1>a, <2>5, <4>1 DEF MarkerInv
    <3> QED BY Zenon, <3>1, <3>2
  <2>7. issued < issued + 1
    BY <1>c
  <2>8. "set" \notin LogoutOps
    BY DEF LogoutOps
  <2> DEFINE c == [op |-> "set", at |-> logouts, signer |-> issued + 1]
  <2>9. c.op = "set" /\ c.signer = issued + 1
    BY Zenon
  <2>10. c \in Commands /\ cmds' = Append(cmds, c)
    BY Zenon, <2>2, <2>3
  <2> HIDE DEF c
  <2>11. MarkerInv' /\ FreshInv'
    BY Zenon, <1>a, <2>1, <2>2, <2>5, <2>6, <2>7, <2>8, <2>9, <2>10, AppendRemoval
  <2> QED BY Zenon, <1>a, <2>1, <2>10, <2>11, StillOwed
<1>2. ASSUME NEW op \in LogoutOps, Logout(op) PROVE MarkerInv' /\ FreshInv' /\ OwedInv'
  <2> DEFINE c == [op |-> op, at |-> logouts + 1]
  <2>1. UNCHANGED <<active, closed, issued, epoch, told>> /\ logouts' = logouts + 1
        /\ cmds' = Append(cmds, c) /\ ctrl' = Append(ctrl, op)
    BY Zenon, <1>2 DEF Logout, signerVars
  <2>2. c.op = op /\ c.at = logouts + 1 /\ op # "set"
    BY Zenon, <1>2 DEF LogoutOps
  <2>3. logouts + 1 \in Nat /\ logouts < logouts + 1
    BY <1>c
  <2>4. c \in Commands
    BY Zenon, <1>2, <2>3 DEF Commands
  <2>5. \A i \in Signers : i <= issued' => epoch'[i] <= logouts'
    BY <1>a, <1>c, <2>1 DEF MarkerInv
  <2> HIDE DEF c
  <2>6. MarkerInv' /\ FreshInv'
    BY Zenon, <1>a, <2>1, <2>2, <2>3, <2>4, <2>5, AppendRemoval
  <2>7. CASE owed' = owed
    BY Zenon, <1>2, <1>a, <2>1, <2>4, <2>6, <2>7, StillOwed
  <2>8. CASE op = "remove" /\ ctrl = <<>> /\ active = Selected /\ owed' = owed \union ({active} \intersect remote)
    <3>1. cmds \in Seq(Commands) /\ ctrl' = <<"remove">> /\ ctrl' # <<>> /\ Head(ctrl') = "remove"
      BY <1>a, <2>1, <2>8 DEF TypeOK
    <3>2. \A i \in owed' \ told' : i = active /\ i # Unset
      <4>1. owed \subseteq told
        BY Zenon, <1>a, <2>8 DEF OwedInv
      <4>2. 0 \notin remote
        BY <1>c
      <4> QED BY Zenon, <2>1, <2>8, <4>1, <4>2 DEF Unset
    <3>3. ASSUME NEW i \in owed' \ told'
          PROVE  \E k \in 1..Len(cmds') : cmds'[k].op = "remove" /\ \A j \in 1..k - 1 : cmds'[j].op = "sign"
      <4>1. \A k \in 1..Len(cmds) : cmds[k].op = "sign"
        BY Zenon, <2>8, <3>2, <3>3, OnlySigns
      <4>2. /\ Len(cmds) + 1 \in 1..Len(cmds') /\ cmds'[Len(cmds) + 1] = c
            /\ (Len(cmds) + 1) - 1 = Len(cmds)
            /\ \A j \in 1..Len(cmds) : cmds'[j] = cmds[j]
        BY <2>1, <2>4, <3>1
      <4> QED BY Zenon, <2>2, <2>8, <4>1, <4>2
    <3>4. OwedInv'
      BY Zenon, <2>1, <3>1, <3>2, <3>3 DEF OwedInv
    <3> QED BY Zenon, <2>6, <3>4
  <2> QED BY Zenon, <1>2, <2>7, <2>8 DEF Logout
<1>3. CASE Request
  <2>1. UNCHANGED <<active, closed, issued, epoch, logouts, owed, told, ctrl>>
    BY Zenon, <1>3 DEF Request, signerVars
  <2> DEFINE c == [op |-> "sign", at |-> logouts]
  <2>2. c \in Commands /\ c.op = "sign" /\ "sign" \notin LogoutOps /\ "sign" # "set"
    BY Zenon, <1>c DEF Commands, LogoutOps
  <2>3. cmds' = cmds \/ cmds' = Append(cmds, c)
    BY Zenon, <1>3 DEF Request
  <2> HIDE DEF c
  <2>4. OwedInv'
    BY Zenon, <1>a, <2>1, <2>2, <2>3, StillOwed
  <2>5. ASSUME cmds' = Append(cmds, c) PROVE MarkerInv' /\ FreshInv'
    <3>1. \A i \in Signers : i <= issued' => epoch'[i] <= logouts'
      BY Zenon, <1>a, <2>1 DEF MarkerInv
    <3> QED BY Zenon, <1>a, <2>1, <2>2, <2>5, <3>1, AppendRemoval
  <2>6. ASSUME cmds' = cmds PROVE MarkerInv' /\ FreshInv'
    BY Zenon, <1>a, <2>1, <2>6 DEF MarkerInv, FreshInv
  <2> QED BY Zenon, <2>3, <2>4, <2>5, <2>6
<1>4. CASE EngineListener
  <2> DEFINE h == Head(cmds)
  <2>1. cmds # <<>> /\ cmds' = Tail(cmds) /\ UNCHANGED <<logouts, issued, epoch, remote, owed, ctrl>>
    BY Zenon, <1>4 DEF EngineListener, hostVars
  <2>2. cmds \in Seq(Commands)
    BY Zenon, <1>a DEF TypeOK
  <2>3. /\ Len(cmds) \in Nat /\ Len(cmds) > 0 /\ Len(cmds') = Len(cmds) - 1 /\ h = cmds[1] /\ 1 \in 1..Len(cmds)
        /\ \A k \in 1..Len(cmds') : cmds'[k] = cmds[k + 1]
    BY <2>1, <2>2
  <2>4. ASSUME NEW i \in owed \ told
        PROVE  /\ h.op \in {"sign", "remove"} /\ i = active /\ i \in remote \ closed
               /\ h.op = "sign" =>
                    \E k \in 1..Len(cmds') : cmds'[k].op = "remove" /\ \A j \in 1..k - 1 : cmds'[j].op = "sign"
    <3>1. PICK k \in 1..Len(cmds) : cmds[k].op = "remove" /\ \A j \in 1..k - 1 : cmds[j].op = "sign"
      BY Zenon, <1>a, <2>4 DEF OwedInv
    <3>2. i = active /\ i \in remote \ closed
      BY Zenon, <1>a, <1>c, <2>4 DEF OwedInv, FreshInv
    <3>3. CASE k = 1
      BY Zenon, <2>3, <3>1, <3>2, <3>3
    <3>4. CASE k # 1
      <4>1. 1 \in 1..k - 1 /\ k - 1 \in 1..Len(cmds') /\ (k - 1) + 1 = k
        BY <2>3, <3>4
      <4>2. \A j \in 1..(k - 1) - 1 : j + 1 \in 1..k - 1 /\ j \in 1..Len(cmds')
        BY <2>3, <3>4
      <4>3. cmds'[k - 1].op = "remove" /\ \A j \in 1..(k - 1) - 1 : cmds'[j].op = "sign"
        BY Zenon, <2>3, <3>1, <4>1, <4>2
      <4> QED BY Zenon, <2>3, <3>1, <3>2, <4>1, <4>3
    <3> QED BY Zenon, <3>3, <3>4
  <2>5. CASE h.op \in LogoutOps /\ Obey(h.op, h.at) /\ UNCHANGED callVars
    <3>1. active' = Unset /\ closed' = closed \union ({active} \intersect remote)
      BY Zenon, <2>5 DEF Obey, Retire, remove_active_signer, clear_active_signer, ActiveRemote
    <3>2. told \subseteq told' /\ (h.op = "remove" => ({active} \intersect remote) \ closed \subseteq told')
      BY Zenon, <2>5 DEF Obey, Retire, remove_active_signer, ActiveRemote
    <3>3. "sign" \notin LogoutOps
      BY DEF LogoutOps
    <3>4. owed' \subseteq told'
      BY Zenon, <2>1, <2>4, <2>5, <3>2, <3>3
    <3>5. MarkerInv' /\ FreshInv'
      BY Zenon, <1>a, <2>1, <3>1, TailRemoval
    <3> QED BY Zenon, <3>4, <3>5 DEF OwedInv
  <2>6. CASE h.op = "set" /\ Install(h.signer) /\ UNCHANGED done
    <3>1. active' = h.signer /\ closed' = closed \union ({active} \intersect remote) /\ told' = told
      BY Zenon, <2>6 DEF Install, clear_active_signer, ActiveRemote
    <3>2. MarkerInv' /\ FreshInv'
      BY Zenon, <1>a, <2>1, <2>6, <3>1, TailRemoval
    <3>3. "set" \notin {"sign", "remove"}
      OBVIOUS
    <3>4. owed' \subseteq told'
      BY Zenon, <2>1, <2>4, <2>6, <3>1, <3>3
    <3> QED BY Zenon, <3>2, <3>4 DEF OwedInv
  <2>7. CASE h.op = "sign" /\ sign_event(Engine) /\ UNCHANGED <<signerVars, pending>>
    <3>1. active' = active /\ closed' = closed /\ told' = told
      BY Zenon, <2>7 DEF signerVars
    <3>2. MarkerInv' /\ FreshInv'
      BY Zenon, <1>a, <2>1, <3>1, TailRemoval
    <3>3. OwedInv'
      BY Zenon, <1>a, <2>1, <2>4, <2>7, <3>1 DEF OwedInv
    <3> QED BY Zenon, <3>2, <3>3
  <2> QED BY Zenon, <1>4, <2>5, <2>6, <2>7 DEF EngineListener
<1>5. CASE Control
  <2>1. UNCHANGED <<logouts, issued, epoch, remote, owed, cmds>> /\ Retire(Head(ctrl)) /\ ctrl # <<>>
    BY Zenon, <1>5 DEF Control, hostVars
  <2>2. active' = Unset /\ closed' = closed \union ({active} \intersect remote)
    BY Zenon, <2>1 DEF Retire, remove_active_signer, clear_active_signer, ActiveRemote
  <2>3. told \subseteq told' /\ (Head(ctrl) = "remove" => ({active} \intersect remote) \ closed \subseteq told')
    BY Zenon, <2>1 DEF Retire, remove_active_signer, ActiveRemote
  <2>4. MarkerInv' /\ FreshInv'
    BY Zenon, <1>a, <2>1, <2>2, RetireRemoval
  <2>5. owed' \subseteq told'
    BY Zenon, <1>a, <1>c, <2>1, <2>3 DEF OwedInv, FreshInv
  <2> QED BY Zenon, <2>4, <2>5 DEF OwedInv
<1>6. ASSUME UNCHANGED <<hostVars, signerVars, cmds, ctrl>> PROVE MarkerInv' /\ FreshInv' /\ OwedInv'
  BY Zenon, <1>6, <1>a DEF MarkerInv, FreshInv, OwedInv, hostVars, signerVars
<1>7. CASE ParserListener \/ ConnectionsListener \/ RemoteAnswer
  BY Zenon, <1>6, <1>7 DEF ParserListener, ConnectionsListener, RemoteAnswer
<1>8. CASE (\E i \in Signers : Pump(i) \/ Connect(i)) \/ \E t \in Tasks : Poll(t) \/ Timeout(t)
  BY Zenon, <1>6, <1>8 DEF Pump, Connect, Poll, Timeout, chanVars
<1>9. CASE UNCHANGED vars
  BY Zenon, <1>6, <1>9 DEF vars, chanVars
<1> QED BY Zenon, <1>1, <1>2, <1>3, <1>4, <1>5, <1>7, <1>8, <1>9 DEF Next, Host, Worker

\* remove_signer does what remove_active_signer is for: an active remote signer
\* that the host removes, with no other logout's signal on its way, is told so
\* before its local end closes, whichever of the two copies of the command comes
\* first and whatever signers are set, used and cleared around it.
THEOREM RemovedAlwaysTold == Spec => []RemovedIsTold
<1>1. Spec => []RemovalInv
  BY InitRemoval, NextRemoval, PTL DEF Spec
<1>2. RemovalInv => RemovedIsTold
  BY Zenon DEF RemovalInv, OwedInv, RemovedIsTold
<1> QED BY <1>1, <1>2, PTL
=============================================================================
