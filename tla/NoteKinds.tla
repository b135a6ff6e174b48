------------------------------ MODULE NoteKinds -------------------------------
(* crates/core/src/parser/kind{0,1,3,4,6}.rs: for each kind, ParseN is what   *)
(* its parser makes of an event and BuildN the row its build_flatbuffer       *)
(* writes. An optional field and a list are sequences; a pointer's relays are *)
(* a set.                                                                     *)
EXTENDS ContentBlocks

CONSTANTS
  ProfileOf,   \* Kind0Parsed::parse_profile_json: the fields a profile's JSON has
  EventOf      \* Event::from_json

-----------------------------------------------------------------------------
(* Kind 0: a profile. Content that is no profile leaves an empty one.         *)
Parse0(event) ==
  LET fields == IF event.content \in DOMAIN ProfileOf THEN ProfileOf[event.content] ELSE {}
      named == fields \cap {"display_name", "display_name_alt"} # {}
  IN  Ok([fields |-> fields \cup When(named, {"name"})], <<>>, {})

Build0(p) == Row("Kind0Parsed", {"pubkey"} \cup p.fields, <<>>)

-----------------------------------------------------------------------------
(* Kind 1: a text note.                                                       *)
HintsFor(tags, names, value) ==
  UNION {IF t[1] \in names /\ t[2] = value THEN Hint(t, 3) ELSE {} :
           t \in {u \in Rows(tags) : Len(u) >= 3}}

\* The entities the NIP-19 regexes find, wherever in the content they stand.
EntitiesIn(content, prefixes) ==
  LET found == SelectSeq(Tokens(content),
                         LAMBDA t : "nostr" \in t.matches /\ t.s \in DOMAIN EntityOf
                                    /\ EntityOf[t.s].prefix \in prefixes)
  IN  [i \in DOMAIN found |-> EntityOf[found[i].s]]

\* extract_profile_mentions and extract_event_refs: the relays of the entity and of the tags.
ProfileMentions(event) ==
  LET es == EntitiesIn(event.content, {"npub"}) \o EntitiesIn(event.content, {"nprofile"})
  IN  [i \in DOMAIN es |->
         [key |-> es[i].id, relays |-> es[i].relays \cup HintsFor(event.tags, {"p"}, es[i].id)]]

EventRefs(event) ==
  LET es == EntitiesIn(event.content, {"note"}) \o EntitiesIn(event.content, {"nevent"})
  IN  [i \in DOMAIN es |->
         [id |-> es[i].id, author |-> es[i].author,
          relays |-> es[i].relays \cup HintsFor(event.tags, {"e", "q"}, es[i].id)]]

AddressRefs(event) == EntitiesIn(event.content, {"naddr"})

\* resolve_author_sync: the author in the "e" tag, else the "p" tag of the same rank.
ResolveAuthor(tags, at) ==
  LET rank == Cardinality({i \in 1 .. at : Len(tags[i]) >= 2 /\ tags[i][1] = "e"})
      ps == Entry(Named(tags, "p", 2), 2)
  IN  CASE Len(tags[at]) >= 4 /\ tags[at][4] \in Hex64 -> <<tags[at][4]>>
        [] ~(Len(tags[at]) >= 4 /\ tags[at][4] \in Hex64) /\ rank <= Len(ps) -> <<ps[rank]>>
        [] OTHER -> <<>>

ETags(tags) == {i \in DOMAIN tags : Len(tags[i]) >= 2 /\ tags[i][1] = "e"}
Marked(tags, marker) == {i \in ETags(tags) : Len(tags[i]) >= 4 /\ tags[i][4] = marker}

PointerAt(tags, i) ==
  [id |-> tags[i][2], relays |-> Hint(tags[i], 3), author |-> ResolveAuthor(tags, i)]

\* get_immediate_parent: the last tag marked "reply", else the last "e" tag.
ImmediateParent(tags) ==
  LET marked == Marked(tags, "reply")
      among == IF marked # {} THEN marked ELSE ETags(tags)
  IN  IF among = {} THEN <<>> ELSE <<PointerAt(tags, Max(among))>>

\* get_thread_root: the first tag marked "root", else the first "e" tag.
ThreadRoot(tags) ==
  LET marked == Marked(tags, "root")
      among == IF marked # {} THEN marked ELSE ETags(tags)
  IN  IF among = {} THEN <<>> ELSE <<PointerAt(tags, Min(among))>>

\* The value an imeta tag gives a key, the last one if it has several.
ImetaField(tag, key) ==
  LET fs == SelectSeq(Tail(tag), LAMBDA f : f \in DOMAIN FieldOf /\ FieldOf[f][1] = key)
  IN  IF fs = <<>> THEN <<>> ELSE <<FieldOf[Last(fs)][2]>>

\* extract_imeta_tags: the last tag of a url counts.
ImetaMap(tags) ==
  LET ts == SelectSeq(Named(tags, "imeta", 2), LAMBDA t : ImetaField(t, "url") # <<>>)
      urls == {ImetaField(t, "url")[1] : t \in Rows(ts)}
  IN  [u \in urls |->
         LET t == Last(SelectSeq(ts, LAMBDA x : ImetaField(x, "url") = <<u>>))
         IN  [alt |-> ImetaField(t, "alt"), dim |-> ImetaField(t, "dim")]]

AskNote(pointer) == [AskIds({pointer.id}, pointer.relays) EXCEPT !.limit = 3]

Requests1(event, mentions, refs, addresses, reply, root) ==
  [i \in DOMAIN mentions |->
     [AskProfile(mentions[i].key, mentions[i].relays) EXCEPT !.limit = 1]]
  \o [i \in DOMAIN refs |-> AskNote(refs[i])]
  \o [i \in DOMAIN addresses |->
        [Ask EXCEPT !.authors = {addresses[i].author[1]}, !.kinds = {addresses[i].kind},
                    !.tags = {addresses[i].d}, !.limit = 1, !.relays = addresses[i].relays]]
  \o [i \in DOMAIN reply |-> AskNote(reply[i])]
  \o (IF root # <<>> /\ root[1].id # event.id THEN <<AskNote(root[1])>> ELSE <<>>)

Parse1(event) ==
  LET mentions == ProfileMentions(event)
      refs == EventRefs(event)
      addresses == AddressRefs(event)
      reply == ImmediateParent(event.tags)
      root == ThreadRoot(event.tags)
      blocks == EnrichMedia(ParseContent(event.content, EmojiMap(event.tags)), ImetaMap(event.tags))
      short == ShortenContent(blocks, 500, 3, 10)
      asked == Requests1(event, mentions, refs, addresses, reply, root)
  IN  Ok([parsed_content |-> blocks, shortened_content |-> IF short = blocks THEN <<>> ELSE short,
          profile_mentions |-> mentions, event_refs |-> refs, address_refs |-> addresses,
          reply |-> reply, root |-> root],
         asked, DeduplicateRequests(asked))

Build1(p) ==
  Row("Kind1Parsed",
      Written(p, {"parsed_content"}, {"shortened_content", "profile_mentions", "event_refs",
                                      "address_refs", "reply", "root"}),
      Kids([parsed_content |-> BlockRows(p.parsed_content),
            shortened_content |-> BlockRows(p.shortened_content),
            profile_mentions |-> {ProfileRow(m) : m \in Rows(p.profile_mentions)},
            event_refs |-> {EventPointerRow(r) : r \in Rows(p.event_refs)},
            address_refs |-> {Row("AddressPointer", {"kind", "pubkey", "d"}
                                    \cup When(a.relays # {}, {"relays"}), <<>>) : a \in Rows(p.address_refs)},
            reply |-> {EventPointerRow(r) : r \in Rows(p.reply)},
            root |-> {EventPointerRow(r) : r \in Rows(p.root)}]))

-----------------------------------------------------------------------------
(* Kind 3: contacts.                                                          *)
Parse3(event) ==
  LET ps == Named(event.tags, "p", 2)
  IN  Ok([contacts |-> [i \in DOMAIN ps |->
            [pubkey |-> ps[i][2], relays |-> {Normal(u) : u \in Hint(ps[i], 3)},
             petname |-> At(ps[i], 4)]]], <<>>, {})

ContactRow(c) ==
  Row("Contact", Written(c, {"pubkey"}, {"petname"}) \cup When(c.relays # {}, {"relays"}), <<>>)

Build3(p) == Row("Kind3Parsed", {"contacts"}, Kids([contacts |-> {ContactRow(c) : c \in Rows(p.contacts)}]))

-----------------------------------------------------------------------------
(* Kind 4: a direct message. The signer is "none", "ok", "fails" (a timeout   *)
(* or a transport failure) or "stranger" (not a participant of the chat).     *)
Decrypts(signer, scheme, content) ==
  signer = "ok" /\ content \in DOMAIN PlainOf /\ SchemeOf[content] = scheme

Encrypted(scheme, content) == CHOOSE c \in DOMAIN PlainOf : PlainOf[c] = content /\ SchemeOf[c] = scheme

Parse4(event, signer) ==
  LET to == TagValue(event.tags, "p")
      read == Decrypts(signer, "nip04", event.content)
      asked == <<AskProfile(event.pubkey, {}), AskProfile(to[1], {})>>
  IN  IF to = <<>> THEN Err("Other")
      ELSE IF signer \in {"ok", "fails"} /\ ~read THEN Err("Crypto")
      ELSE Ok([parsed_content |-> IF read THEN ParseContent(PlainOf[event.content], {}) ELSE <<>>,
               decrypted_content |-> IF read THEN <<PlainOf[event.content]>> ELSE <<>>,
               chat_id |-> {event.pubkey, to[1]}, recipient |-> to[1]],
              asked, DeduplicateRequests(asked))

\* prepare_* functions: the template to sign, or the reason there is none.
Sign(template, signer) == IF signer = "ok" THEN Ok(template, <<>>, {}) ELSE Err("Crypto")

Prepare4(template, signer) ==
  IF TagValue(template.tags, "p") = <<>> THEN Err("Other")
  ELSE IF signer # "ok" THEN Err("Crypto")
  ELSE Sign([template EXCEPT !.content = Encrypted("nip04", @)], signer)

Build4(p) ==
  Row("Kind4Parsed", Written(p, {"parsed_content", "chat_id", "recipient"}, {"decrypted_content"}),
      Kids([parsed_content |-> BlockRows(p.parsed_content)]))

-----------------------------------------------------------------------------
(* Kind 6: a repost. A note in the content is parsed in place, anything else  *)
(* is asked for by id from the hinted relay (or from the empty url).          *)
LastTag(tags, name) == LastOf(Named(tags, name, 1))

Parse6(event) ==
  LET e == LastTag(event.tags, "e")
      inner == IF event.content \in DOMAIN EventOf /\ EventOf[event.content].kind = 1
               THEN <<EventOf[event.content]>> ELSE <<>>
      note == Parse1(inner[1])
      asked == IF inner # <<>> THEN SetToSeq(note.requests)
               ELSE <<AskIds({e[1][2]}, {IF Len(e[1]) >= 3 THEN e[1][3] ELSE ""})>>
  IN  IF e = <<>> \/ Len(e[1]) < 2 THEN Err("Other")
      ELSE Ok([reposted_event |-> IF inner = <<>> THEN <<>>
                                  ELSE <<[event |-> inner[1], parsed |-> note.parsed]>>],
              asked, DeduplicateRequests(asked))

Build6(p) ==
  Row("Kind6Parsed", Written(p, {}, {"reposted_event"}),
      Kids([reposted_event |->
              {ParsedEventRow(r.event, <<Build1(r.parsed)>>, {}) : r \in Rows(p.reposted_event)}]))
=============================================================================
