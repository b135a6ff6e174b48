------------------------------ MODULE Pipeline ------------------------------
(***************************************************************************)
(* The event pipelines of the parser worker: a root subscription and its   *)
(* pages, each with its own pipes, sharing one set of event ids seen.      *)
(*                                                                         *)
(* A line handles one message at a time, under its lock.  It gives way     *)
(* between two pipes, where the code awaits the signer or a mint, so the   *)
(* lines interleave pipe by pipe.  An event comes from a relay (form       *)
(* "raw"), or already parsed from the cache ("cached"); a relay can also   *)
(* send a frame that carries an id and is not an event ("broken").         *)
(***************************************************************************)
EXTENDS Naturals, Sequences, FiniteSets

CONSTANTS
    Lines,          \* the root subscription and its pages
    Events, Kinds, Keys, NoKey, Secrets,
    Kind, CreatedAt, Proofs,  \* functions on Events
    Chat, Npub,     \* the chat, and the pubkey, a limiter files an event under
    Own,            \* events of the subscription's own pubkey
    Encrypted,      \* events whose content the signer has to decrypt
    Foreign,        \* of them, those of two other people
    Malformed,      \* events their kind's parser rejects
    Oversized,      \* events whose message is over 512 KiB
    MutedDirectly, MutedByContent,  \* by author or id; by e tag, hashtag or word
    ValidProofs,    \* secrets whose DLEQ proof holds
    Configs,        \* the pipe sequences a subscription asks for
    FilterKinds, CountKinds, ChatKinds, LimitedKind, LimitPerNpub, LimitPerChat, MaxChats, MaxProofs,
    DedupMax,       \* dedup_max_size
    Stored,         \* events the cache holds from an earlier session
    Garbled,        \* events some relay sends as a frame with only the id right
    MaxArrivals, MaxInbox, MaxOutages

Pipes == {"kind_filter", "npub_limiter", "chat_limiter", "mute", "parse", "save", "serialize", "counter", "proofs"}

\* What a pipe keeps is filed under its name, so a line names a pipe once.
ASSUME PipelineAssumption ==
    /\ DedupMax \in Nat /\ LimitPerChat \in Nat \ {0} /\ MaxChats \in Nat \ {0}
    /\ Kind \in [Events -> Kinds] /\ Chat \in [Events -> Keys \union {NoKey}]
    /\ Npub \in [Events -> Keys \union {NoKey}]
    /\ LimitPerNpub \in Nat /\ MaxProofs \in Nat
    /\ Stored \subseteq Events /\ Garbled \subseteq Events
    /\ CreatedAt \in [Events -> Nat] /\ Proofs \in [Events -> SUBSET Secrets]
    /\ Configs \subseteq Seq(Pipes)
    /\ \A c \in Configs : \A i, j \in 1..Len(c) : c[i] = c[j] => i = j

VARIABLES
    pipes,      \* line -> its pipes, in order
    hasSigner,  \* the parser was given a signer
    signer,     \* whether that signer answers
    seen,       \* seen_ids, shared by the lines
    inbox,      \* line -> messages dispatched to it
    work,       \* line -> the message in hand, and the pipe it has reached
    npubs, chats,  \* line -> key -> what its limiter tracks
    tally, eosed,  \* line -> kind -> its counter; whether it counts past EOSE
    mints, secrets,  \* line -> mint keys it holds; seen_proofs
    out,        \* line -> what it sent to the client
    saved,      \* what it sent to the cache
    settled,    \* ids some line has finished with
    full,       \* an id found seen_ids at its limit
    retried,    \* ids given up to a later delivery
    evicted,    \* secrets seen_proofs gave up
    told,       \* line -> kind -> the last count the client got
    passed, held,  \* line -> limiter -> events it let through, or dropped
    arrivals, outages

state == <<npubs, chats, tally, eosed, mints, secrets>>
limits == <<passed, held>>
history == <<settled, full, retried, evicted, told, limits>>
bounds == <<arrivals, outages>>
vars == <<pipes, hasSigner, signer, seen, inbox, work, state, out, saved, history, bounds>>

Contents == {"raw", "clear", "cipher"}
Idle == [form |-> "idle"]
Message(form, e, content) == [form |-> form, ev |-> e, content |-> content]
Mark(form) == [form |-> form]
Limiters == {"npub_limiter", "chat_limiter"}
NoCounts == [k \in CountKinds |-> [count |-> 0, you |-> FALSE]]
EmptyMap == [x \in {} |-> 0]

-----------------------------------------------------------------------------
\* Pipe::can_direct_output and Pipe::run_for_cached_events, pipe by pipe.
CanDirectOutput(p) == p \in {"serialize", "counter", "proofs"}
RunsForCached(p) == p \notin {"parse", "save"}

\* Pipeline::new refuses a pipe that outputs directly anywhere but at the end.
Accepted(c) == \A i \in 1..Len(c) - 1 : ~CanDirectOutput(c[i])
\* Pipeline::default, for a subscription that configures no pipes.
DefaultPipes == <<"parse", "save", "serialize">>
\* SubscriptionManager::build_pipeline.
BuildPipeline(c) == IF c = <<>> THEN DefaultPipes ELSE c

Init ==
    /\ \E c \in [Lines -> Configs] :
         /\ \A l \in Lines : Accepted(BuildPipeline(c[l]))
         /\ pipes = [l \in Lines |-> BuildPipeline(c[l])]
    /\ hasSigner \in BOOLEAN /\ signer = "up"
    /\ seen = {} /\ settled = {} /\ full = FALSE
    /\ inbox = [l \in Lines |-> <<>>] /\ work = [l \in Lines |-> Idle]
    /\ npubs = [l \in Lines |-> EmptyMap] /\ chats = [l \in Lines |-> EmptyMap]
    /\ tally = [l \in Lines |-> NoCounts] /\ told = tally
    /\ eosed = [l \in Lines |-> FALSE]
    /\ mints = [l \in Lines |-> FALSE] /\ secrets = [l \in Lines |-> {}]
    /\ out = [l \in Lines |-> <<>>] /\ saved = {}
    /\ retried = {} /\ evicted = {}
    /\ passed = [l \in Lines |-> [p \in Limiters |-> {}]] /\ held = passed
    /\ arrivals = 0 /\ outages = 0

-----------------------------------------------------------------------------
\* A relay's frame, or its EOSE, reaches the shard of line l.
Arrive(l) ==
    /\ arrivals < MaxArrivals
    /\ Len(inbox[l]) < MaxInbox
    /\ \E m \in {Message("raw", e, "raw") : e \in Events}
              \union {Message("broken", e, "raw") : e \in Garbled} \union {Mark("eose")} :
         inbox' = [inbox EXCEPT ![l] = Append(@, m)]
    /\ arrivals' = arrivals + 1
    /\ UNCHANGED <<pipes, hasSigner, signer, seen, work, state, out, saved, history, outages>>

\* The cache's answer: an event it holds, parsed or as it came, then the
\* end-of-cache mark.
CacheAnswers(l) ==
    /\ arrivals < MaxArrivals
    /\ Len(inbox[l]) < MaxInbox
    /\ \E a \in saved \union {[ev |-> e, content |-> "clear"] : e \in Stored} :
         LET form == IF a.content = "raw" THEN "raw" ELSE "cached" IN
           inbox' = [inbox EXCEPT ![l] = @ \o <<Message(form, a.ev, a.content), Mark("eoce")>>]
    /\ arrivals' = arrivals + 1
    /\ UNCHANGED <<pipes, hasSigner, signer, seen, work, state, out, saved, history, outages>>

\* The signer stops answering, or answers again.
SignerTurns ==
    /\ hasSigner
    /\ \/ signer = "up" /\ outages < MaxOutages /\ signer' = "down" /\ outages' = outages + 1
       \/ signer = "down" /\ signer' = "up" /\ UNCHANGED outages
    /\ UNCHANGED <<pipes, hasSigner, seen, inbox, work, state, out, saved, history, arrivals>>

-----------------------------------------------------------------------------
\* A slip: nothing is remembered until the pipes are through.
RememberLate(e) == UNCHANGED <<seen, full>>
\* The id is remembered before the first pipe runs, unless the set is full.
Remember(e) ==
    /\ seen' = IF Cardinality(seen) < DedupMax THEN seen \union {e} ELSE seen
    /\ full' = (full \/ ~(Cardinality(seen) < DedupMax))

\* Line l takes the next message in hand; an id seen before ends there.
Take(l) ==
    /\ work[l] = Idle /\ inbox[l] # <<>>
    /\ inbox' = [inbox EXCEPT ![l] = Tail(@)]
    /\ LET m == Head(inbox[l]) IN
         /\ m.form \in {"raw", "cached", "broken"}
         /\ IF m.ev \in seen
            THEN UNCHANGED <<seen, full, settled, work>>
            ELSE /\ Remember(m.ev)
                 /\ IF m.form = "broken"
                    THEN settled' = settled \union {m.ev} /\ UNCHANGED work
                    ELSE /\ work' = [work EXCEPT ![l] = [form |-> m.form, ev |-> m.ev, content |-> m.content, at |-> 1]]
                         /\ UNCHANGED settled
    /\ UNCHANGED <<pipes, hasSigner, signer, state, out, saved, retried, evicted, told, limits, bounds>>

\* A slip: only on_eose is called.
FlushNever(l) == UNCHANGED told
\* The EOSE of a relay: the counts are flushed, then the pipe is told.
Flush(l) == told' = IF pipes[l][Len(pipes[l])] = "counter" THEN [told EXCEPT ![l] = tally[l]] ELSE told
TakeEose(l) ==
    /\ work[l] = Idle /\ inbox[l] # <<>> /\ Head(inbox[l]) = Mark("eose")
    /\ inbox' = [inbox EXCEPT ![l] = Tail(@)]
    /\ Flush(l)
    /\ eosed' = [eosed EXCEPT ![l] = TRUE]
    /\ UNCHANGED <<pipes, hasSigner, signer, seen, work, npubs, chats, tally, mints, secrets, out, saved,
                   settled, full, retried, evicted, limits, bounds>>

\* The end of the cache's answer flushes the counts too.
TakeEoce(l) ==
    /\ work[l] = Idle /\ inbox[l] # <<>> /\ Head(inbox[l]) = Mark("eoce")
    /\ inbox' = [inbox EXCEPT ![l] = Tail(@)]
    /\ Flush(l)
    /\ UNCHANGED <<pipes, hasSigner, signer, seen, work, state, out, saved,
                   settled, full, retried, evicted, limits, bounds>>

-----------------------------------------------------------------------------
\* The message in hand on line l is at a pipe p that handles its form.
At(l, p) ==
    /\ work[l] # Idle /\ work[l].at <= Len(pipes[l]) /\ pipes[l][work[l].at] = p
    /\ work[l].form = "cached" => RunsForCached(p)
    /\ UNCHANGED <<pipes, hasSigner, signer, inbox, full, bounds>>

\* PipeOutput::Event: on to the next pipe, with this content.
Pass(l, content) ==
    /\ work' = [work EXCEPT ![l] = [form |-> @.form, ev |-> @.ev, content |-> content, at |-> @.at + 1]]
    /\ UNCHANGED settled
\* PipeOutput::Drop and PipeOutput::DirectOutput: the message is done, its id stays.
Done(l) ==
    /\ work' = [work EXCEPT ![l] = Idle]
    /\ settled' = settled \union {work[l].ev}
\* A slip: the id is kept.
FailedKeepsId(l) ==
    /\ work' = [work EXCEPT ![l] = Idle]
    /\ UNCHANGED <<seen, retried, settled>>
\* A pipe's error: the id is given up, so that a later copy is tried again.
Failed(l) ==
    /\ work' = [work EXCEPT ![l] = Idle]
    /\ seen' = seen \ {work[l].ev}
    /\ retried' = retried \union {work[l].ev}
    /\ UNCHANGED settled
Emit(l, o) == out' = [out EXCEPT ![l] = Append(@, o)]
EventOut(w) == [type |-> "event", ev |-> w.ev, content |-> w.content]

\* A slip: the index stays on the pipe that does not run.
SkipStays(l) ==
    /\ work[l] # Idle /\ work[l].form = "cached" /\ work[l].at <= Len(pipes[l])
    /\ ~RunsForCached(pipes[l][work[l].at])
    /\ UNCHANGED vars
\* A cached message meets a pipe that does not run for it.
SkipForCached(l) ==
    /\ work[l] # Idle /\ work[l].form = "cached" /\ work[l].at <= Len(pipes[l])
    /\ ~RunsForCached(pipes[l][work[l].at])
    /\ Pass(l, work[l].content)
    /\ UNCHANGED <<pipes, hasSigner, signer, seen, inbox, state, out, saved,
                   full, retried, evicted, told, limits, bounds>>

\* Past the last pipe: a cached message is output if some pipe ran for it.
PastLast(l) ==
    /\ work[l] # Idle /\ work[l].at > Len(pipes[l])
    /\ Done(l)
    /\ IF work[l].form = "cached" /\ \E i \in 1..Len(pipes[l]) : RunsForCached(pipes[l][i])
       THEN Emit(l, EventOut(work[l])) ELSE UNCHANGED out
    /\ UNCHANGED <<pipes, hasSigner, signer, seen, inbox, state, saved,
                   full, retried, evicted, told, limits, bounds>>

KindFilter(l) ==
    /\ At(l, "kind_filter")
    /\ IF work[l].form = "cached" \/ Kind[work[l].ev] \in FilterKinds
       THEN Pass(l, work[l].content) ELSE Done(l)
    /\ UNCHANGED <<seen, state, out, saved, retried, evicted, told, limits>>

-----------------------------------------------------------------------------
\* A slip: the newest time is kept in place of the oldest.
AdmitNewest(t, e) == [n |-> t.n + 1, oldest |-> IF CreatedAt[e] > t.oldest THEN CreatedAt[e] ELSE t.oldest]
\* What a limiter tracks of a key: how many it let through, the oldest's time.
Admit(t, e) == [n |-> t.n + 1, oldest |-> IF CreatedAt[e] < t.oldest THEN CreatedAt[e] ELSE t.oldest]
Fresh(e) == [n |-> 0, oldest |-> CreatedAt[e]]
With(map, k, t) == [x \in DOMAIN map \union {k} |-> IF x = k THEN t ELSE map[x]]
Without(map, k) == [x \in DOMAIN map \ {k} |-> map[x]]
LetThrough(l, p, forgotten) ==
    /\ Pass(l, work[l].content)
    /\ passed' = [passed EXCEPT ![l][p] = (@ \ forgotten) \union {work[l].ev}]
    /\ UNCHANGED held
Hold(l, p) ==
    /\ Done(l)
    /\ held' = [held EXCEPT ![l][p] = @ \union {work[l].ev}]
    /\ UNCHANGED passed

\* NpubLimiterPipe::process; the cached path lets everything through.
NpubLimiter(l) ==
    /\ At(l, "npub_limiter")
    /\ LET e == work[l].ev
           known == Npub[e] \in DOMAIN npubs[l]
           t == IF known THEN npubs[l][Npub[e]] ELSE Fresh(e)
           Track(u) == npubs' = [npubs EXCEPT ![l] = With(@, Npub[e], u)]
       IN \/ /\ work[l].form = "cached"
             /\ Pass(l, work[l].content) /\ UNCHANGED <<npubs, limits>>
          \/ /\ work[l].form # "cached" /\ (Kind[e] # LimitedKind \/ Npub[e] = NoKey)
             /\ Done(l) /\ UNCHANGED <<npubs, limits>>
          \/ /\ work[l].form # "cached" /\ Kind[e] = LimitedKind /\ Npub[e] # NoKey
             /\ \/ /\ ~known \/ t.n < LimitPerNpub
                   /\ Track(Admit(t, e)) /\ LetThrough(l, "npub_limiter", {})
                \/ /\ known /\ t.n >= LimitPerNpub /\ CreatedAt[e] > t.oldest
                   /\ Track([t EXCEPT !.n = LimitPerNpub]) /\ LetThrough(l, "npub_limiter", {})
                \/ /\ known /\ t.n >= LimitPerNpub /\ CreatedAt[e] <= t.oldest
                   /\ Hold(l, "npub_limiter") /\ UNCHANGED npubs
    /\ UNCHANGED <<seen, chats, tally, eosed, mints, secrets, out, saved, retried, evicted, told>>

\* The chats one of which a new chat k replaces beyond max_chats: those whose
\* oldest message is the oldest.
Victims(l, k) ==
    IF k \in DOMAIN chats[l] \/ Cardinality(DOMAIN chats[l]) < MaxChats THEN {}
    ELSE {c \in DOMAIN chats[l] : \A d \in DOMAIN chats[l] : chats[l][c].oldest <= chats[l][d].oldest}

\* ChatLimiterPipe::allow, the same for live and for cached messages.
ChatLimiter(l) ==
    /\ At(l, "chat_limiter")
    /\ LET e == work[l].ev
           k == Chat[e]
           victims == Victims(l, k)
           t == IF k \in DOMAIN chats[l] THEN chats[l][k] ELSE Fresh(e)
           Track(u) == IF victims = {} THEN chats' = [chats EXCEPT ![l] = With(@, k, u)]
                       ELSE \E v \in victims : chats' = [chats EXCEPT ![l] = With(Without(@, v), k, u)]
           forgotten == {x \in passed[l]["chat_limiter"] : Chat[x] # k /\ Chat[x] \notin DOMAIN chats'[l]}
       IN IF Kind[e] \notin ChatKinds THEN Pass(l, work[l].content) /\ UNCHANGED <<chats, limits>>
          ELSE \/ /\ k = NoKey
                  /\ Done(l) /\ UNCHANGED <<chats, limits>>
               \/ /\ k # NoKey /\ t.n < LimitPerChat
                  /\ Track(Admit(t, e)) /\ LetThrough(l, "chat_limiter", forgotten)
               \/ /\ k # NoKey /\ t.n >= LimitPerChat /\ CreatedAt[e] > t.oldest
                  /\ LetThrough(l, "chat_limiter", {}) /\ UNCHANGED chats
               \/ /\ k # NoKey /\ t.n >= LimitPerChat /\ CreatedAt[e] <= t.oldest
                  /\ Hold(l, "chat_limiter") /\ UNCHANGED chats
    /\ UNCHANGED <<seen, npubs, tally, eosed, mints, secrets, out, saved, retried, evicted, told>>

-----------------------------------------------------------------------------
\* MuteFilterPipe: should_drop looks at everything the list names, the cached
\* path only at the author and the id.
MuteFilter(l) ==
    /\ At(l, "mute")
    /\ IF work[l].ev \in MutedDirectly \/ (work[l].form # "cached" /\ work[l].ev \in MutedByContent)
       THEN Done(l) ELSE Pass(l, work[l].content)
    /\ UNCHANGED <<seen, state, out, saved, retried, evicted, told, limits>>

\* A slip: what cannot be decrypted now is passed on as it is.
ParsedUndecrypted(e) ==
    IF e \in Malformed THEN "malformed"
    ELSE IF e \notin Encrypted THEN "clear"
    ELSE IF hasSigner /\ signer = "up" /\ e \notin Foreign THEN "clear" ELSE "cipher"
\* Parser::parse, by outcome: an event of the signer's own conversations is
\* decrypted, or the parse fails with ParserError::Crypto.
Parsed(e) ==
    IF e \in Malformed THEN "malformed"
    ELSE IF e \notin Encrypted THEN "clear"
    ELSE IF ~hasSigner \/ e \in Foreign THEN "cipher"
    ELSE IF signer = "up" THEN "clear" ELSE "crypto"

Parse(l) ==
    /\ At(l, "parse")
    /\ LET w == work[l] IN
         IF w.content # "raw" THEN Pass(l, w.content) /\ UNCHANGED <<seen, retried>>
         ELSE \/ Parsed(w.ev) = "crypto" /\ Failed(l)
              \/ Parsed(w.ev) = "malformed" /\ Done(l) /\ UNCHANGED <<seen, retried>>
              \/ Parsed(w.ev) \in Contents /\ Pass(l, Parsed(w.ev)) /\ UNCHANGED <<seen, retried>>
    /\ UNCHANGED <<state, out, saved, evicted, told, limits>>

\* SaveToDbPipe::process: the event goes to the cache worker as it is now.
SaveToDb(l) ==
    /\ At(l, "save")
    /\ saved' = saved \union {[ev |-> work[l].ev, content |-> work[l].content]}
    /\ Pass(l, work[l].content)
    /\ UNCHANGED <<seen, state, out, retried, evicted, told, limits>>

\* SerializeEventsPipe: live events go out unless they are too large; cached
\* ones go on, out of the end of the pipeline.
SerializeEvents(l) ==
    /\ At(l, "serialize")
    /\ \/ /\ work[l].form = "cached"
          /\ Pass(l, work[l].content) /\ UNCHANGED out
       \/ /\ work[l].form # "cached" /\ work[l].ev \in Oversized
          /\ Done(l) /\ UNCHANGED out
       \/ /\ work[l].form # "cached" /\ work[l].ev \notin Oversized
          /\ Done(l) /\ Emit(l, EventOut(work[l]))
    /\ UNCHANGED <<seen, state, saved, retried, evicted, told, limits>>

\* CounterPipe: counts, and tells the changed count once the relays are at EOSE;
\* cached events only count.
Counter(l) ==
    /\ At(l, "counter")
    /\ Done(l)
    /\ LET k == Kind[work[l].ev]
           c == [count |-> tally[l][k].count + 1, you |-> tally[l][k].you \/ work[l].ev \in Own]
       IN IF k \in CountKinds
          THEN /\ tally' = [tally EXCEPT ![l][k] = c]
               /\ told' = IF eosed[l] /\ work[l].form # "cached" THEN [told EXCEPT ![l][k] = c] ELSE told
          ELSE UNCHANGED <<tally, told>>
    /\ UNCHANGED <<seen, npubs, chats, eosed, mints, secrets, out, saved, retried, evicted, limits>>

-----------------------------------------------------------------------------
\* A slip: seen_proofs is not consulted.
NewSecretsAll(l, e) == Proofs[e]
\* add_proofs: the proofs of the event that seen_proofs does not hold.
NewSecrets(l, e) == Proofs[e] \ secrets[l]
\* The evictions that make room for n more: one for each of the n that finds
\* max_proofs held, before any of them is inserted.
Evictions(l, n) ==
    LET over == IF Cardinality(secrets[l]) >= MaxProofs THEN Cardinality(secrets[l]) - MaxProofs + 1 ELSE 0
        k == IF over < n THEN over ELSE n
    IN {S \in SUBSET secrets[l] : Cardinality(S) = IF k < Cardinality(secrets[l]) THEN k ELSE Cardinality(secrets[l])}

\* ProofVerificationPipe: the proofs that verify go out; when the mint's keys
\* cannot be had, the event is dropped with its proofs unseen.
ProofVerification(l) ==
    /\ At(l, "proofs")
    /\ Done(l)
    /\ LET e == work[l].ev
           new == NewSecrets(l, e)
           good == new \intersect ValidProofs
       IN \/ /\ work[l].content # "clear" \/ Proofs[e] = {}
             /\ UNCHANGED <<mints, secrets, out, evicted>>
          \/ /\ work[l].content = "clear" /\ Proofs[e] # {} /\ ~mints[l]
             /\ UNCHANGED <<mints, secrets, out, evicted>>
          \/ /\ work[l].content = "clear" /\ Proofs[e] # {}
             /\ mints' = [mints EXCEPT ![l] = TRUE]
             /\ \E S \in Evictions(l, Cardinality(new)) :
                  /\ secrets' = [secrets EXCEPT ![l] = (@ \ S) \union new]
                  /\ evicted' = evicted \union S
             /\ IF good = {} THEN UNCHANGED out ELSE Emit(l, [type |-> "proofs", proofs |-> good])
    /\ UNCHANGED <<seen, npubs, chats, tally, eosed, saved, retried, told, limits>>

-----------------------------------------------------------------------------
\* What line l does next with the messages it holds.
Handle(l) ==
    \/ Take(l) \/ TakeEose(l) \/ TakeEoce(l)
    \/ SkipForCached(l) \/ PastLast(l)
    \/ KindFilter(l) \/ NpubLimiter(l) \/ ChatLimiter(l) \/ MuteFilter(l) \/ Parse(l)
    \/ SaveToDb(l) \/ SerializeEvents(l) \/ Counter(l) \/ ProofVerification(l)

Next ==
    \/ SignerTurns
    \/ \E l \in Lines : Arrive(l) \/ CacheAnswers(l) \/ Handle(l)

\* A shard keeps taking its messages, and every await of a pipe ends: the
\* signer answers or times out, the mint answers or the request fails.
Spec == Init /\ [][Next]_vars /\ \A l \in Lines : WF_vars(Handle(l))

-----------------------------------------------------------------------------
InFlight == {work[l].ev : l \in {x \in Lines : work[x] # Idle}}
Messages == {Message(f, e, c) : f \in {"raw", "broken", "cached"}, e \in Events, c \in Contents}
                \union {Mark("eose"), Mark("eoce")}
Work == [form : {"raw", "cached"}, ev : Events, content : Contents, at : Nat \ {0}]

\* The state stays within its types: a line's work is idle or one event.
TypeOK ==
    /\ pipes \in [Lines -> Seq(Pipes)] /\ hasSigner \in BOOLEAN /\ signer \in {"up", "down"}
    /\ seen \subseteq Events /\ settled \subseteq Events /\ retried \subseteq Events
    /\ full \in BOOLEAN /\ evicted \subseteq Secrets
    /\ inbox \in [Lines -> Seq(Messages)]
    /\ work \in [Lines -> Work \union {Idle}]
    /\ saved \subseteq [ev : Events, content : Contents]

\* The pipelines of one subscription show an event once between them: while
\* the set of ids has room, no two outputs of a line, or of two lines, carry
\* the same event, whatever interleaving brings its copies, from relays or
\* from the cache, and however often its parsing failed before.
OutputOnce ==
    full \/ \A l, m \in Lines : \A i \in 1..Len(out[l]) : \A j \in 1..Len(out[m]) :
        (out[l][i].type = "event" /\ out[m][j].type = "event" /\ out[l][i].ev = out[m][j].ev)
            => (l = m /\ i = j)

\* An id never blocks an event nobody handled (Pipeline::process gives the id
\* up on a pipe's error): a remembered id is in some line's hand or was
\* brought to an end, and only by one of them.
SeenAccounted ==
    full \/ /\ seen = settled \union InFlight
            /\ settled \intersect InFlight = {}
            /\ \A l, m \in Lines : (l # m /\ work[l] # Idle /\ work[m] # Idle) => work[l].ev # work[m].ev

\* With a signer, a message of the signer's own is never shown or cached as
\* ciphertext: kind 4's parser fails when the signer cannot decrypt it now.
DecryptedOrRetried ==
    hasSigner => \A e \in Encrypted \ Foreign :
        /\ [ev |-> e, content |-> "cipher"] \notin saved
        /\ \A l \in Lines : \A i \in 1..Len(out[l]) :
             (out[l][i].type = "event" /\ out[l][i].ev = e) => out[l][i].content # "cipher"

\* A counter's client is not left behind: once a line has passed EOSE and no
\* cache answer is under way, the count it last sent is the count it holds.
CountsTold ==
    \A l \in Lines :
        (eosed[l] /\ work[l] = Idle /\ Mark("eoce") \notin {inbox[l][i] : i \in 1..Len(inbox[l])})
            => told[l] = tally[l]

Filed(p, e) == IF p = "chat_limiter" THEN Chat[e] ELSE Npub[e]
Limit(p) == IF p = "chat_limiter" THEN LimitPerChat ELSE LimitPerNpub
\* A step may hold an event back only so.
HeldStep ==
    \A l \in Lines : \A p \in Limiters : \A e \in held'[l][p] \ held[l][p] :
        LET shown == {x \in passed[l][p] : Filed(p, x) = Filed(p, e)} IN
          /\ \A x \in shown : CreatedAt[e] <= CreatedAt[x]
          /\ shown # {}
          /\ (~full /\ shown \intersect retried = {}) => Cardinality(shown) >= Limit(p)
\* A limiter holds back only old messages: each event it drops is no newer than
\* any it let through under the same key by then, and so many were let through
\* (one that came again after a failed parse, or with the ids full, counts twice).
HeldIsOldest == [][HeldStep]_vars

\* A line reports a proof once, in whichever event it comes, as long as
\* seen_proofs has not given it up.
ProofsOnce ==
    \A l \in Lines : \A i, j \in 1..Len(out[l]) :
        (out[l][i].type = "proofs" /\ out[l][j].type = "proofs" /\ i # j)
            => (out[l][i].proofs \intersect out[l][j].proofs) \subseteq evicted

\* Every line gets to the end of its messages: nothing a pipe does leaves a
\* message in hand for ever.
Drains == \A l \in Lines : []<>(inbox[l] = <<>> /\ work[l] = Idle)
====
