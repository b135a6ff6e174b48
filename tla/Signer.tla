------------------------------- MODULE Signer -------------------------------
(***************************************************************************)
(* The active signer: the engine's signer commands (service/engine.rs),    *)
(* the crypto worker (worker/crypto_worker.rs) and the NIP-46 remote       *)
(* signer client (crypto/signers/nip46).                                   *)
(*                                                                         *)
(* The crypto worker is one thread of tasks that interleave where they     *)
(* await: three listeners, one control task and, for each remote signer, a *)
(* pump and a connect task.  A listener signs inline: while it awaits a    *)
(* remote signature it reads nothing else.                                 *)
(*                                                                         *)
(* A signer is its number, in the order of the SetSigner commands; it is a *)
(* private key or a NIP-46 bunker.  Timeouts are long against the worker's *)
(* own steps: one expires only when no task of the worker can move.        *)
(*                                                                         *)
(* Left out: invalid keys and urls, a QR signer's discovery (it then makes *)
(* the second call of a bunker), the browser extension, auth_url           *)
(* challenges (they lengthen a deadline) and answers that come twice (the  *)
(* second one stays in `pending`).                                         *)
(***************************************************************************)
EXTENDS Naturals, Sequences, FiniteSets

CONSTANTS
    MaxSigners,   \* bound: SetSigner commands
    MaxLogouts,   \* bound: calls of clear_signer and remove_signer
    MaxRequests,  \* bound: requests to sign
    MaxFrames     \* bound: frames waiting in a channel of answers

ASSUME SignerAssumption ==
    MaxSigners \in Nat /\ MaxLogouts \in Nat /\ MaxRequests \in Nat /\ MaxFrames \in Nat

Signers == 1..MaxSigners
Unset == 0
\* The tasks that wait for signers: the listeners, and the connect tasks.
Engine == <<"engine", 0>>
Parser == <<"parser", 0>>
Connections == <<"connections", 0>>
Listeners == {Engine, Parser, Connections}
ConnectTasks == {"connect"} \X Signers
Tasks == Listeners \union ConnectTasks
Idle == <<>>

VARIABLES
    issued,      \* SetSigner commands issued so far
    logouts,     \* clear_signer and remove_signer calls so far
    requests,    \* requests to sign so far
    epoch,       \* epoch[i]: logouts when SetSigner i was issued
    remote,      \* the signers that are NIP-46 bunkers
    owed,        \* remote signers that must be told of their removal
    cmds,        \* engine -> crypto channel
    ctrl,        \* crypto_clear channel
    fromParser,  \* requests waiting for the parser listener
    fromConn,    \* connections -> crypto channel
    active,      \* ActiveSigner
    tx,          \* nip46_tx: the signer whose pump gets the frames
    closed,      \* closed remote signers
    told,        \* remote signers that were sent "logout"
    done,        \* logouts whose marker the engine listener has read
    pump,        \* pump[i]: frames waiting for the pump of i
    pending,     \* pending[i]: ids answered and not collected
    wait,        \* wait[t]: <<i, id>> awaited by task t, or Idle
    todo,        \* todo[i]: calls the connect task of i has still to make
    lastId,      \* lastId[i]: id of the latest call on i
    asked,       \* calls sent to a remote signer and not answered
    signed,      \* signed[i]: signatures i has given
    reported     \* signers whose SetSigner was answered to the host

hostVars == <<issued, logouts, requests, epoch, remote, owed>>
chanVars == <<cmds, ctrl, fromParser, fromConn>>
signerVars == <<active, tx, closed, told, done>>
callVars == <<wait, todo, lastId, asked, signed, reported>>
vars == <<hostVars, chanVars, signerVars, pump, pending, callVars>>

Calls == Signers \X Nat
Answers == [kind : {"answer"}, call : Calls]
Frames == [kind : {"auth"}] \union Answers
LogoutOps == {"clear", "remove"}
\* Every command carries the number of logouts issued by then.
Commands == [op : LogoutOps \union {"sign"}, at : Nat] \union [op : {"set"}, at : Nat, signer : Signers]

TypeOK ==
    /\ issued \in Signers \union {0} /\ logouts \in Nat /\ requests \in Nat /\ done \in Nat
    /\ epoch \in [Signers -> Nat]
    /\ remote \subseteq Signers /\ owed \subseteq remote /\ closed \subseteq remote /\ told \subseteq remote
    /\ cmds \in Seq(Commands) /\ ctrl \in Seq(LogoutOps)
    /\ fromParser \in Nat /\ fromConn \in Seq(Frames)
    /\ active \in Signers \union {Unset} /\ tx \in Signers \union {Unset}
    /\ pump \in [Signers -> Seq(Answers)]
    /\ pending \in [Signers -> SUBSET Nat]
    /\ wait \in [Tasks -> Calls \union {Idle}]
    /\ todo \in [Signers -> 0..2]
    /\ lastId \in [Signers -> Nat] /\ asked \subseteq Calls
    /\ signed \in [Signers -> Nat] /\ reported \subseteq Signers

Init ==
    /\ issued = 0 /\ logouts = 0 /\ requests = 0 /\ done = 0
    /\ epoch = [i \in Signers |-> 0]
    /\ remote = {} /\ owed = {} /\ closed = {} /\ told = {}
    /\ cmds = <<>> /\ ctrl = <<>> /\ fromParser = 0 /\ fromConn = <<>>
    /\ active = Unset /\ tx = Unset
    /\ pump = [i \in Signers |-> <<>>]
    /\ pending = [i \in Signers |-> {}]
    /\ wait = [t \in Tasks |-> Idle]
    /\ todo = [i \in Signers |-> 0]
    /\ asked = {} /\ reported = {}
    /\ lastId = [i \in Signers |-> 0]
    /\ signed = [i \in Signers |-> 0]

-----------------------------------------------------------------------------
\* The host.  The selected signer was set last, with no logout after it.
Selected == IF issued # 0 /\ epoch[issued] = logouts THEN issued ELSE Unset

SetSigner ==
    /\ issued < MaxSigners
    /\ issued' = issued + 1
    /\ epoch' = [epoch EXCEPT ![issued + 1] = logouts]
    /\ remote' \in {remote, remote \union {issued + 1}}
    /\ cmds' = Append(cmds, [op |-> "set", at |-> logouts, signer |-> issued + 1])
    /\ UNCHANGED <<logouts, requests, owed, ctrl, fromParser, fromConn, signerVars, pump, pending, callVars>>

\* clear_signer and remove_signer: an ordered marker behind the commands sent
\* before, and an immediate signal beside them.
Logout(op) ==
    /\ logouts < MaxLogouts
    /\ logouts' = logouts + 1
    /\ owed' = IF op = "remove" /\ ctrl = <<>> /\ active = Selected
               THEN owed \union ({active} \intersect remote) ELSE owed
    /\ cmds' = Append(cmds, [op |-> op, at |-> logouts + 1])
    /\ ctrl' = Append(ctrl, op)
    /\ UNCHANGED <<issued, requests, epoch, remote, fromParser, fromConn, signerVars, pump, pending, callVars>>

\* A request to sign: of the host, of the parser, or of a relay (AUTH).
Request ==
    /\ requests < MaxRequests
    /\ requests' = requests + 1
    /\ \/ cmds' = Append(cmds, [op |-> "sign", at |-> logouts]) /\ UNCHANGED <<fromParser, fromConn>>
       \/ fromParser' = fromParser + 1 /\ UNCHANGED <<cmds, fromConn>>
       \/ fromConn' = Append(fromConn, [kind |-> "auth"]) /\ UNCHANGED <<cmds, fromParser>>
    /\ UNCHANGED <<issued, logouts, epoch, remote, owed, ctrl, signerVars, pump, pending, callVars>>

-----------------------------------------------------------------------------
\* Variants of the definitions below, each with one plausible slip.
RemoveAfterClose ==
    /\ closed' = closed \union ({active} \intersect remote)
    /\ told' = told \union (({active} \intersect remote) \ closed')
    /\ pending' = pending
ObeyAlreadyCleared(op, at) == done' = at /\ UNCHANGED <<active, tx, closed, told, pending>>
ClearWithoutClose ==
    /\ closed' = closed
    /\ pending' = pending
TimeoutNever(t) == wait[t] # Idle /\ UNCHANGED vars

-----------------------------------------------------------------------------
\* Retiring the active signer; close() forgets the answers not yet collected.
ActiveRemote == {active} \intersect remote

clear_active_signer ==
    /\ closed' = closed \union ActiveRemote
    /\ pending' = [i \in Signers |-> IF i \in ActiveRemote THEN {} ELSE pending[i]]

\* send_logout refuses on a closed signer, so it comes before close.
remove_active_signer ==
    /\ told' = told \union (ActiveRemote \ closed)
    /\ clear_active_signer

Retire(op) ==
    /\ active' = Unset /\ tx' = Unset
    /\ IF op = "remove" THEN remove_active_signer ELSE clear_active_signer /\ UNCHANGED told

\* rpc_call up to its first wait, by task t on remote signer i.
rpc_call(t, i) ==
    /\ lastId' = [lastId EXCEPT ![i] = @ + 1]
    /\ asked' = asked \union {<<i, lastId[i] + 1>>}
    /\ wait' = [wait EXCEPT ![t] = <<i, lastId[i] + 1>>]

\* sign_event on the active signer, by listener t.
sign_event(t) ==
    /\ IF active \in remote \ closed
       THEN rpc_call(t, active) /\ UNCHANGED signed
       ELSE /\ signed' = IF active \in Signers \ remote THEN [signed EXCEPT ![active] = @ + 1] ELSE signed
            /\ UNCHANGED <<lastId, asked, wait>>
    /\ UNCHANGED <<todo, reported>>

-----------------------------------------------------------------------------
\* The listeners.
Install(i) ==
    /\ clear_active_signer
    /\ active' = i
    /\ tx' = IF i \in remote THEN i ELSE Unset
    /\ todo' = IF i \in remote THEN [todo EXCEPT ![i] = 2] ELSE todo
    /\ reported' = IF i \in remote THEN reported ELSE reported \union {i}
    /\ UNCHANGED <<told, wait, lastId, asked, signed>>

Obey(op, at) == Retire(op) /\ done' = at

EngineListener ==
    /\ wait[Engine] = Idle /\ cmds # <<>>
    /\ cmds' = Tail(cmds)
    /\ LET c == Head(cmds) IN
       \/ c.op \in LogoutOps /\ Obey(c.op, c.at) /\ UNCHANGED callVars
       \/ c.op = "set" /\ Install(c.signer) /\ UNCHANGED done
       \/ c.op = "sign" /\ sign_event(Engine) /\ UNCHANGED <<signerVars, pending>>
    /\ UNCHANGED <<hostVars, ctrl, fromParser, fromConn, pump>>

ParserListener ==
    /\ wait[Parser] = Idle /\ fromParser > 0
    /\ fromParser' = fromParser - 1
    /\ sign_event(Parser)
    /\ UNCHANGED <<hostVars, cmds, ctrl, fromConn, signerVars, pump, pending>>

\* A frame that is not a request goes to the pump of the current remote signer.
ConnectionsListener ==
    /\ wait[Connections] = Idle /\ fromConn # <<>>
    /\ fromConn' = Tail(fromConn)
    /\ \/ Head(fromConn).kind = "auth" /\ sign_event(Connections) /\ UNCHANGED pump
       \/ /\ Head(fromConn).kind = "answer"
          /\ pump' = IF tx = Unset THEN pump ELSE [pump EXCEPT ![tx] = Append(@, Head(fromConn))]
          /\ UNCHANGED callVars
    /\ UNCHANGED <<hostVars, cmds, ctrl, fromParser, signerVars, pending>>

\* The engine's control task: the immediate signal of a logout.
Control ==
    /\ ctrl # <<>>
    /\ ctrl' = Tail(ctrl)
    /\ Retire(Head(ctrl))
    /\ UNCHANGED <<hostVars, cmds, fromParser, fromConn, done, pump, callVars>>

-----------------------------------------------------------------------------
\* The NIP-46 client.  A pump keeps the answers of its own subscription.
Pump(i) ==
    /\ pump[i] # <<>>
    /\ pump' = [pump EXCEPT ![i] = Tail(@)]
    /\ LET call == Head(pump[i]).call IN
       pending' = IF call[1] = i THEN [pending EXCEPT ![i] = @ \union {call[2]}] ELSE pending
    /\ UNCHANGED <<hostVars, chanVars, signerVars, callVars>>

\* The connect task of i starts: connect(), then get_public_key().
Connect(i) ==
    /\ todo[i] = 2
    /\ IF i \in closed
       THEN todo' = [todo EXCEPT ![i] = 0] /\ UNCHANGED <<wait, lastId, asked>>
       ELSE todo' = [todo EXCEPT ![i] = 1] /\ rpc_call(<<"connect", i>>, i)
    /\ UNCHANGED <<hostVars, chanVars, signerVars, pump, pending, signed, reported>>

\* What task t does with the outcome of its call on i: a listener has its
\* signature; the connect task goes on, or answers the host unless i is closed.
Return(t, i, ok) ==
    IF t \in ConnectTasks /\ ok /\ todo[i] = 1
    THEN todo' = [todo EXCEPT ![i] = 0] /\ rpc_call(t, i) /\ UNCHANGED <<signed, reported>>
    ELSE /\ wait' = [wait EXCEPT ![t] = Idle]
         /\ todo' = IF t \in ConnectTasks THEN [todo EXCEPT ![i] = 0] ELSE todo
         /\ signed' = IF t \in Listeners /\ ok THEN [signed EXCEPT ![i] = @ + 1] ELSE signed
         /\ reported' = IF t \in ConnectTasks /\ i \notin closed THEN reported \union {i} ELSE reported
         /\ UNCHANGED <<lastId, asked>>

\* One round of await_response: closed, or answered (with a result or an error).
Poll(t) ==
    /\ wait[t] # Idle
    /\ LET i == wait[t][1]  id == wait[t][2] IN
       \/ i \in closed /\ Return(t, i, FALSE) /\ UNCHANGED pending
       \/ /\ i \notin closed /\ id \in pending[i]
          /\ pending' = [pending EXCEPT ![i] = @ \ {id}]
          /\ \E ok \in BOOLEAN : Return(t, i, ok)
    /\ UNCHANGED <<hostVars, chanVars, signerVars, pump>>

\* No task of the worker can move.
Quiet ==
    /\ ctrl = <<>>
    /\ wait[Engine] # Idle \/ cmds = <<>>
    /\ wait[Parser] # Idle \/ fromParser = 0
    /\ wait[Connections] # Idle \/ fromConn = <<>>
    /\ \A i \in Signers : pump[i] = <<>> /\ todo[i] # 2
    /\ \A t \in Tasks : wait[t] # Idle => wait[t][1] \notin closed /\ wait[t][2] \notin pending[wait[t][1]]

\* await_response gives up after 20 s.
Timeout(t) ==
    /\ wait[t] # Idle /\ Quiet
    /\ Return(t, wait[t][1], FALSE)
    /\ UNCHANGED <<hostVars, chanVars, signerVars, pump, pending>>

\* The remote signer answers a call, sooner or later or never.
RemoteAnswer ==
    /\ Len(fromConn) < MaxFrames /\ \A i \in Signers : Len(pump[i]) < MaxFrames
    /\ \E call \in asked :
         /\ fromConn' = Append(fromConn, [kind |-> "answer", call |-> call])
         /\ asked' = asked \ {call}
    /\ UNCHANGED <<hostVars, cmds, ctrl, fromParser, signerVars, pump, pending, wait, todo, lastId, signed, reported>>

Host == SetSigner \/ Request \/ \E op \in LogoutOps : Logout(op)
Worker ==
    \/ EngineListener \/ ParserListener \/ ConnectionsListener \/ Control
    \/ \E i \in Signers : Pump(i) \/ Connect(i)
    \/ \E t \in Tasks : Poll(t)
Next == Host \/ Worker \/ RemoteAnswer \/ \E t \in Tasks : Timeout(t)

Spec == Init /\ [][Next]_vars

\* A worker with a task that can move moves one; when none can, the deadline of a
\* waiting task passes.
Fairness == WF_vars(Worker \/ \E t \in Tasks : Timeout(t))
FairSpec == Spec /\ Fairness

-----------------------------------------------------------------------------
\* engine.rs: "The marker prevents a queued SetSigner from resurrecting a
\* signer after logout."  Once the marker of a logout has been read, the active
\* signer is one that was set after that logout.
LogoutSticks == active # Unset => epoch[active] >= done

\* A signer that was set before a logout gives no signature, and reports no
\* public key, once the marker of that logout has been read, even for a call it
\* was already working on when the logout came.
NoUseAfterLogout ==
    [][\A i \in Signers :
         (signed'[i] # signed[i] \/ i \in reported' \ reported) => epoch'[i] >= done']_vars

\* remove_active_signer tells a remote signer of its removal before the local
\* end closes: a removed signer that was active, with no earlier logout's signal
\* on its way, has been sent "logout" once the commands are through.
RemovedIsTold == cmds = <<>> /\ ctrl = <<>> => owed \subseteq told

\* await_response: every wait for a remote signer ends, by an answer, a logout
\* or the deadline, and the tasks are free for the next request.
CallsReturn == []<>(\A t \in Tasks : wait[t] = Idle)

\* react-native/README.md, on removing an account: "If another saved account
\* exists, it becomes the selected account."  With every command and signal
\* handled, the signer that was set last, after the last logout, is active.
LastSignerActive == cmds = <<>> /\ ctrl = <<>> => active = Selected
=============================================================================
