----------------------------- MODULE EventParser ------------------------------
(* crates/core/src/parser/mod.rs and what stands around it. An event from a   *)
(* relay is parsed with the signer there is, the result is written as a       *)
(* message (the SerializeEvents pipe) and the page reads it. A template the   *)
(* page publishes is prepared and signed, and comes back from the relays like *)
(* any other event. A parse that failed for want of the signer is tried       *)
(* again when the event is delivered again.                                   *)
EXTENDS ListKinds

CONSTANTS
  Templates,  \* the templates the page may publish
  Arrivals    \* the events the relays may deliver

VARIABLES
  stage,     \* "idle", "prepared", "refused", "parsed", "failed", "written" or "panicked"
  template,  \* the template published, as an Option
  event,     \* the event in hand, as an Option
  signer,    \* "none", "ok", "fails", or "stranger": no party to what it is asked to decrypt
  result,    \* the outcome of prepare or parse, as an Option
  row        \* the message written, as an Option

vars == <<stage, template, event, signer, result, row>>

Signers == {"none", "ok", "fails", "stranger"}

DedicatedKinds == {0, 1, 3, 4, 6, 7, 8, 17, 20, 22, 1111, 1311, 7374, 7375, 7376, 9321, 9735, 1018, 1068,
                   10002, 10019, 17375, 30023}
AddressableLists == {30000, 30002, 30003, 30004, 30005, 30007, 30015, 30030, 30063, 30267, 31924, 39089}

IsList(kind) ==
  kind \notin DedicatedKinds /\ ((kind >= 10000 /\ kind < 20000) \/ kind \in AddressableLists)
IsAddressable(kind) == kind \notin DedicatedKinds \cup AddressableLists /\ kind >= 30000 /\ kind < 40000

\* Parser::parse. A kind without a parser flows through without a payload.
Parse(e, s) ==
  CASE e.kind = 0 -> Parse0(e)
    [] e.kind = 1 -> Parse1(e)
    [] e.kind = 3 -> Parse3(e)
    [] e.kind = 4 -> Parse4(e, s)
    [] e.kind = 6 -> Parse6(e)
    [] e.kind = 7 -> Parse7(e)
    [] e.kind = 8 -> Parse8(e)
    [] e.kind = 17 -> Parse17(e)
    [] e.kind = 20 -> Parse20(e)
    [] e.kind = 22 -> Parse22(e)
    [] e.kind = 1111 -> Parse1111(e)
    [] e.kind = 1311 -> Parse1311(e)
    [] e.kind = 7374 -> Parse7374(e, s)
    [] e.kind = 7375 -> Parse7375(e, s)
    [] e.kind = 7376 -> Parse7376(e, s)
    [] e.kind = 9321 -> Parse9321(e)
    [] e.kind = 9735 -> Parse9735(e)
    [] e.kind = 1018 -> Parse1018(e)
    [] e.kind = 1068 -> Parse1068(e)
    [] e.kind = 10002 -> Parse10002(e)
    [] e.kind = 10019 -> Parse10019(e)
    [] e.kind = 17375 -> Parse17375(e, s)
    [] e.kind = 30023 -> Parse30023(e)
    [] IsList(e.kind) -> ParseNip51(e, s)
    [] IsAddressable(e.kind) -> ParsePreGeneric(e)
    [] OTHER -> Ok(<<>>, <<>>, {})

\* ParsedData::build_flatbuffer, with no row for an event without a payload.
BuildData(kind, p) ==
  CASE kind = 0 -> <<Build0(p)>>
    [] kind = 1 -> <<Build1(p)>>
    [] kind = 3 -> <<Build3(p)>>
    [] kind = 4 -> <<Build4(p)>>
    [] kind = 6 -> <<Build6(p)>>
    [] kind = 7 -> <<Build7(p)>>
    [] kind = 8 -> <<Build8(p)>>
    [] kind = 17 -> <<Build17(p)>>
    [] kind = 20 -> <<Build20(p)>>
    [] kind = 22 -> <<Build22(p)>>
    [] kind = 1111 -> <<Build1111(p)>>
    [] kind = 1311 -> <<Build1311(p)>>
    [] kind = 7374 -> <<Build7374(p)>>
    [] kind = 7375 -> <<Build7375(p)>>
    [] kind = 7376 -> <<Build7376(p)>>
    [] kind = 9321 -> <<Build9321(p)>>
    [] kind = 9735 -> <<Build9735(p)>>
    [] kind = 1018 -> <<Build1018(p)>>
    [] kind = 1068 -> <<Build1068(p)>>
    [] kind = 10002 -> <<Build10002(p)>>
    [] kind = 10019 -> <<Build10019(p)>>
    [] kind = 17375 -> <<Build17375(p)>>
    [] kind = 30023 -> <<Build30023(p)>>
    [] IsList(kind) -> <<BuildNip51(p)>>
    [] IsAddressable(kind) -> <<BuildPreGeneric(p)>>
    [] OTHER -> <<>>

\* Parser::prepare.
Prepare(t, s) ==
  CASE t.kind = 4 -> Prepare4(t, s)
    [] t.kind = 7374 -> Prepare7374(t, s)
    [] t.kind = 7375 -> Prepare7375(t, s)
    [] t.kind = 7376 -> Prepare7376(t, s)
    [] t.kind = 9321 -> Prepare9321(t, s)
    [] t.kind = 1018 -> Prepare1018(t, s)
    [] t.kind = 1068 -> Prepare1068(t, s)
    [] t.kind = 10019 -> Prepare10019(t, s)
    [] t.kind = 9735 -> Prepare9735(t, s)
    [] t.kind = 17375 -> Prepare17375(t, s)
    [] t.kind \notin {10019, 17375} /\ t.kind >= 10000 /\ t.kind < 20000 -> PrepareNip51(t, s)
    [] t.kind >= 30000 /\ t.kind < 40000 -> PrepareNip51(t, s)
    [] OTHER -> Sign(t, s)

-----------------------------------------------------------------------------
\* A template has the id and the author its signature is going to give it.
Init ==
  /\ stage = "idle" /\ template = <<>> /\ event = <<>> /\ signer \in Signers
  /\ result = <<>> /\ row = <<>>

\* The parser worker prepares what the page publishes.
PublishTemplate(t) ==
  /\ stage = "idle"
  /\ template' = <<t>>
  /\ result' = <<Prepare(t, signer)>>
  /\ stage' = IF result'[1].ok THEN "prepared" ELSE "refused"
  /\ UNCHANGED <<event, signer, row>>

\* What the pipeline hands to the parser, with the signer there is by then: an event of a relay,
\* or what was published.
Arrived == IF stage = "idle" THEN Arrivals \X {signer} ELSE {}
Echoed == IF stage = "prepared" THEN {<<result[1].parsed, signer>>} ELSE {}

\* The pipeline forgets an event whose parse failed with Crypto, so a redelivery is parsed again,
\* by then with a signer that may answer.
Redelivered ==
  IF stage = "failed" /\ result[1].error = "Crypto" /\ signer \in {"fails", "ok"}
  THEN {event[1]} \X {"ok", "fails"} ELSE {}

ParseEvent ==
  \E d \in Arrived \cup Echoed \cup Redelivered :
    /\ event' = <<d[1]>> /\ signer' = d[2]
    /\ result' = <<Parse(d[1], d[2])>>
    /\ stage' = IF result'[1].ok THEN "parsed" ELSE "failed"
    /\ UNCHANGED <<template, row>>

\* SerializeEvents: ParsedEvent::build_flatbuffer inside the builder, which panics on a missing
\* required field.
MessageRow(e, r) == ParsedEventRow(e, BuildData(e.kind, r.parsed), r.requests)

Write ==
  /\ stage = "parsed"
  /\ row' = <<MessageRow(event[1], result[1])>>
  /\ stage' = IF Builds(row'[1]) THEN "written" ELSE "panicked"
  /\ UNCHANGED <<template, event, signer, result>>

Next ==
  \/ \E t \in Templates : PublishTemplate(t)
  \/ ParseEvent
  \/ Write

Spec == Init /\ [][Next]_vars

-----------------------------------------------------------------------------
(* What the properties speak about.                                           *)

\* The blocks a parsed event shows of its content.
BlocksOf(kind, p) ==
  CASE kind \in {1, 1111, 1311} -> p.parsed_content
    [] kind = 1068 -> p.content_blocks
    [] OTHER -> <<>>

Strings(blocks) == FlattenSeq([i \in DOMAIN blocks |-> blocks[i].text])

NotBlank(tokens) == SelectSeq(tokens, LAMBDA t : ~t.blank)

\* The pieces of text in an article's tree.
RECURSIVE PiecesOf(_)
PiecesOf(nodes) ==
  IF nodes = <<>> THEN <<>>
  ELSE Head(nodes).text \o PiecesOf(Head(nodes).inlines) \o PiecesOf(Head(nodes).children)
         \o PiecesOf(Tail(nodes))

\* The pieces of text the markdown has inside of some block.
PiecesIn(content) ==
  LET Step(st, m) ==
        CASE m.e = "open" /\ m.t \in BlockElements -> [st EXCEPT !.open = Append(@, m.t)]
          [] m.e = "close" /\ m.t \in BlockElements -> [st EXCEPT !.open = Front(@)]
          [] m.e = "text" /\ st.open # <<>> ->
               [st EXCEPT !.out = @ \o IF Last(st.open) = "CodeBlock" THEN <<m.s>>
                                       ELSE [i \in DOMAIN InlinesOf[m.s] |-> InlinesOf[m.s][i].s]]
          [] m.e \in {"code", "html"} /\ st.open # <<>> -> [st EXCEPT !.out = Append(@, m.s)]
          [] OTHER -> st
  IN  IF content = "" THEN <<>>
      ELSE FoldLeft(Step, [open |-> <<>>, out |-> <<>>], MarkdownOf[content]).out

Count(s, x) == Cardinality({i \in DOMAIN s : s[i] = x})

\* A required field for which the event has nothing to write.
NothingToWrite(e, p) ==
  \/ e.kind = 22 /\ p.videos = <<>>
  \/ /\ e.kind \in {7375, 9321}
     /\ \E x \in Rows(p.proofs) : x.id = <<>> \/ \E d \in Rows(x.dleq) : d.r = <<>>

SealedKinds == {4, 7374, 7375, 7376, 17375}

\* The scheme a template's encryption tag asks for.
AsksFor(t) == IF TagValue(t.tags, "encryption") = <<>> THEN "" ELSE TagValue(t.tags, "encryption")[1]

Confidential(t) ==
  t.kind \in SealedKinds \/ (t.kind >= 10000 /\ t.kind # 10019 /\ AsksFor(t) \in {"nip04", "nip44"})

-----------------------------------------------------------------------------
(* Whatever parses is written as a message that the page's verifier accepts,  *)
(* for every kind's parser and builder taken together: no required field is   *)
(* left out, no union has a value without a tag. The two places where the     *)
(* event itself may have nothing for a required field (a video note without   *)
(* media, a proof without a keyset id or a DLEQ r) are left to               *)
(* NothingMissing.                                                            *)
Readable ==
  /\ stage = "panicked" => NothingToWrite(event[1], result[1].parsed)
  /\ stage = "written" => Verifies(row[1])

(* The builder never panics on a required field of the schema                 *)
(* (schemas/kinds/kind22.fbs:23: "videos: [VideoVariant] (required)").        *)
NothingMissing == stage # "panicked"

(* What the wallet and message kinds prepare is read back by their own        *)
(* parser when the relays echo it: prepare_kind_* accepts nothing that        *)
(* parse_kind_* refuses, and what was encrypted is what is decrypted. Lists   *)
(* give back their public and their private tags.                             *)
PreparedReadsBack ==
  template # <<>> /\ event # <<>> =>
    LET t == template[1]
        p == result[1].parsed
    IN  CASE t.kind = 4 -> result[1].ok /\ p.decrypted_content = <<t.content>>
          [] t.kind = 7375 -> result[1].ok /\ p.proofs = TokenOf[t.content].proofs /\ p.proofs # <<>>
          [] t.kind = 7376 -> result[1].ok /\ p.direction \in {"in", "out"}
          [] t.kind \in {9321, 10019} -> result[1].ok
          [] t.kind = 17375 -> /\ result[1].ok /\ p.decrypted /\ p.p2pk_priv_key # <<>>
                               /\ Rows(TagValues(TagArraysOf[t.content], "mint")) \subseteq Rows(p.mints)
          [] IsList(t.kind) /\ AsksFor(t) \in {"nip04", "nip44"} ->
               result[1].ok /\ (t.content \in DOMAIN TagArraysOf =>
                                  p = ProcessListTags(t.tags \o TagArraysOf[t.content]))
          [] OTHER -> TRUE

(* Private content leaves encrypted: a signed template of a sealed kind, or   *)
(* of a list that asks for encryption, never carries its content in the       *)
(* clear.                                                                     *)
PrivateStaysPrivate ==
  stage = "prepared" /\ Confidential(template[1]) =>
    LET content == result[1].parsed.content
    IN  /\ content \in DOMAIN PlainOf
        /\ PlainOf[content] \in {template[1].content, Reserialised(template[1].content)}

(* A signer that is there but does not answer never turns a ciphertext into a *)
(* parsed event (kind17375.rs: "treating a transient remote-signer failure as *)
(* plaintext emits an empty wallet and makes the pipeline permanently         *)
(* deduplicate the real event"): either the plaintext was read or the parse   *)
(* failed with the error the pipeline retries.                                *)
ReadOrRetried ==
  event # <<>> /\ event[1].kind \in SealedKinds /\ event[1].content \in DOMAIN PlainOf =>
    /\ signer = "fails" => ~result[1].ok
    /\ result[1].ok /\ signer = "ok" =>
         LET plain == PlainOf[event[1].content]
             p == result[1].parsed
         IN  CASE event[1].kind = 4 -> p.decrypted_content = <<plain>>
               [] event[1].kind = 7374 -> p.quote_id = plain
               [] event[1].kind = 7375 -> p.proofs = TokenOf[plain].proofs
               [] event[1].kind = 7376 -> p.tags = SelectSeq(TagArraysOf[plain], LAMBDA t : Len(t) >= 2)
               [] OTHER -> p.decrypted <=> plain \in DOMAIN TagArraysOf

(* Deduplication loses no request and no relay: every request a parser asks   *)
(* for is handed out with the same filter and at least its relays, nothing    *)
(* is sent to a relay nobody named, and the kinds that deduplicate hand out   *)
(* no filter twice.                                                           *)
RequestsCovered ==
  event # <<>> /\ result[1].ok =>
    LET asked == Rows(result[1].asked)
        given == result[1].requests
        Of(r, rs) == {x \in rs : FilterKey(x) = FilterKey(r)}
    IN  /\ \A a \in asked : \E g \in Of(a, given) : a.relays \subseteq g.relays
        /\ \A g \in given : g.relays \subseteq UNION {a.relays : a \in Of(g, asked)}
        /\ event[1].kind \in {1, 4, 6, 7, 9321, 9735} =>
             \A g, h \in given : FilterKey(g) = FilterKey(h) => g = h

(* Blocks lose nothing of a content: what is not white space between media is *)
(* there, once and in order, and every recognised picture or video is a       *)
(* medium of some block (parse_content, group_media, flush_media_group).      *)
ContentKept ==
  event # <<>> /\ result[1].ok /\ event[1].kind \in {1, 1068, 1111, 1311} =>
    LET blocks == BlocksOf(event[1].kind, result[1].parsed)
        tokens == Tokens(event[1].content)
        media == SelectSeq(tokens, LAMBDA t : IsMedia(Recognise(t, {})))
        blanks == {t.s : t \in {u \in Rows(tokens) : u.blank}}
        items == MediaItems(blocks)
    IN  /\ SelectSeq(Strings(blocks), LAMBDA s : s \notin blanks)
             = [i \in DOMAIN NotBlank(tokens) |-> NotBlank(tokens)[i].s]
        /\ [i \in DOMAIN items |-> items[i].ref] = [i \in DOMAIN media |-> media[i].s]

(* A preview is one: at most 10 lines and 500 bytes of text plus the dots, of *)
(* which a fifth is kept free when something follows it, then at most one     *)
(* tail with at most 3 media, the first ones (shorten_content).               *)
PreviewBounded ==
  event # <<>> /\ event[1].kind = 1 /\ result[1].ok /\ result[1].parsed.shortened_content # <<>> =>
    LET blocks == result[1].parsed.parsed_content
        short == result[1].parsed.shortened_content
        texts == SelectSeq(short, IsTextish)
        rest == SelectSeq(short, LAMBDA b : ~IsTextish(b))
        Total(F(_)) == FoldLeft(LAMBDA n, b : n + F(b.lines), 0, texts)
    IN  /\ Total(Chars) <= TextBudget(blocks, 500) + 3
        /\ Total(LineCount) <= 10
        /\ short = texts \o rest /\ Len(rest) <= 1
        /\ MediaItems(short) = SubSeq(MediaItems(blocks), 1, Len(MediaItems(short)))
        /\ Len(MediaItems(short)) = IF Len(MediaItems(blocks)) < 3 THEN Len(MediaItems(blocks)) ELSE 3

(* The article tree holds every piece of text that stands inside a block,     *)
(* exactly once, however blocks and inlines nest (parse_article_markdown).    *)
ArticleKept ==
  event # <<>> /\ event[1].kind = 30023 /\ result[1].ok =>
    LET tree == PiecesOf(result[1].parsed.article_blocks)
        text == PiecesIn(event[1].content)
    IN  \A x \in Rows(tree) \cup Rows(text) : Count(tree, x) = Count(text, x)

(* What is shown of a text is the text: the blocks of a content, the preview  *)
(* of a note and the tree of an article lose, repeat and invent nothing.      *)
TextKept == ContentKept /\ PreviewBounded /\ ArticleKept
=============================================================================
