----------------------------- MODULE SocialKinds ------------------------------
(* crates/core/src/parser/kind{7,8,17,20,22,1018,1068,1111,1311,10002}.rs:    *)
(* reactions, badges, pictures, videos, polls, comments, live chat and relay  *)
(* lists, in the form of NoteKinds.                                           *)
EXTENDS NoteKinds

-----------------------------------------------------------------------------
(* Kinds 7 and 17: reactions to an event and to a web page.                   *)
ReactionOf(content, like) ==
  CASE content \in like -> "Like"
    [] content = "-" -> "Dislike"
    [] content \in DOMAIN ShortcodeOf -> "Emoji"
    [] OTHER -> "Custom"

\* parse_emoji_content: the first emoji tag of the shortcode.
ReactionEmoji(event) ==
  IF event.content \notin DOMAIN ShortcodeOf THEN <<>>
  ELSE FirstOf(SelectSeq(Named(event.tags, "emoji", 3),
                         LAMBDA t : ShortcodeOf[event.content] = t[2] /\ t[2] # ""))

\* find_last_tag, then its value if it has one.
LastValue(tags, name) ==
  LET t == LastTag(tags, name) IN IF t # <<>> /\ Len(t[1]) >= 2 THEN <<t[1][2]>> ELSE <<>>

Parse7(event) ==
  LET target == LastValue(event.tags, "e")
      asked == <<AskProfile(event.pubkey, {})>>
  IN  IF target = <<>> THEN Err("Other")
      ELSE Ok([reaction_type |-> ReactionOf(event.content, {"+", ""}), event_id |-> target[1],
               pubkey |-> Or(LastValue(event.tags, "p"), <<"">>)[1],
               event_kind |-> Through(NumberOf, LastValue(event.tags, "k")),
               emoji |-> ReactionEmoji(event), target_coordinates |-> LastValue(event.tags, "a")],
              asked, DeduplicateRequests(asked))

Parse17(event) ==
  IF TagValue(event.tags, "r") = <<>> THEN Err("Other")
  ELSE Ok([reaction_type |-> ReactionOf(event.content, {"+"}), event_id |-> "", pubkey |-> "",
           event_kind |-> <<>>, emoji |-> ReactionEmoji(event), target_coordinates |-> <<>>], <<>>, {})

ReactionRow(table, p) ==
  Row(table, Written(p, {"reaction_type", "event_id", "pubkey", "event_kind"}, {"emoji", "target_coordinates"}),
      Kids([emoji |-> {Row("Emoji", {"shortcode", "url"}, <<>>) : e \in Rows(p.emoji)}]))

Build7(p) == ReactionRow("Kind7Parsed", p)
Build17(p) == ReactionRow("Kind17Parsed", p)

-----------------------------------------------------------------------------
(* Kind 8: a badge award, which asks for the badge's definition.              *)
BadgeDefinitionKinds == {30009, 30402, 31922, 31923}

\* parse_definition_address.
DefinitionAddress(address) ==
  LET c == Through(CoordinateOf, <<address>>)
      kind == IF c = <<>> THEN <<>> ELSE Through(NumberOf, <<c[1][1]>>)
  IN  IF kind # <<>> /\ Len(c[1]) = 3 /\ c[1][2] \in Hex64 /\ c[1][3] # ""
      THEN <<[kind |-> kind[1], author |-> c[1][2], d |-> c[1][3]]>> ELSE <<>>

Parse8(event) ==
  LET badge == FirstOf(Named(event.tags, "a", 2))
      address == DefinitionAddress(badge[1][2])
      recipients == PTagMentions(event.tags)
      asked == <<[Ask EXCEPT !.authors = {address[1].author}, !.kinds = {address[1].kind},
                             !.tags = {address[1].d}, !.relays = Hint(badge[1], 3)]>>
  IN  IF badge = <<>> THEN Err("MissingField")
      ELSE IF address = <<>> \/ address[1].kind \notin BadgeDefinitionKinds THEN Err("InvalidTag")
      ELSE IF recipients = <<>> THEN Err("MissingField")
      ELSE Ok([badge_address |-> badge[1][2], badge_relay |-> At(badge[1], 3),
               recipients |-> recipients, content |-> event.content], asked, Rows(asked))

\* A pubkey with one optional relay (badge recipients, live chat participants).
ParticipantRow(table, m) == Row(table, {"pubkey"} \cup When(m.relays # {}, {"relay"}), <<>>)

Build8(p) ==
  Row("Kind8Parsed", Written(p, {"badge_address", "recipients"}, {"badge_relay"})
                       \cup When(p.content # "", {"content"}),
      [recipients |-> {ParticipantRow("BadgeAwardRecipient", m) : m \in Rows(p.recipients)}])

-----------------------------------------------------------------------------
(* Kinds 20 and 22: pictures and short videos.                                *)

\* extract_imeta_tags / extract_video_imeta_tags: one medium per imeta tag with a url.
ImetaMedia(tags, fields) ==
  LET ts == SelectSeq(Named(tags, "imeta", 2), LAMBDA t : ImetaField(t, "url") # <<>>)
  IN  [i \in DOMAIN ts |-> [f \in fields |-> ImetaField(ts[i], f)]]

Parse20(event) ==
  Ok([title |-> TagValue(event.tags, "title"), content_warning |-> TagValue(event.tags, "content-warning"),
      location |-> TagValue(event.tags, "location"), geohash |-> TagValue(event.tags, "g"),
      hashtags |-> TagValues(event.tags, "t"), mentions |-> PTagMentions(event.tags),
      images |-> ImetaMedia(event.tags, {"m", "dim", "alt", "blurhash", "x", "fallback", "annotate-user"})],
     <<>>, {})

\* The schema's name of an imeta key.
ImetaNames == [m |-> "mime_type", x |-> "hash"]
ImetaName(key) ==
  IF key \in DOMAIN ImetaNames THEN ImetaNames[key]
  ELSE IF key = "annotate-user" THEN "annotate_user" ELSE key

ImetaRow(table, m) ==
  Row(table, {"url"} \cup {ImetaName(f) : f \in {g \in DOMAIN m : m[g] # <<>>}}, <<>>)

Build20(p) ==
  Row("Kind20Parsed", Written(p, {"description"}, {"title", "images", "content_warning", "location",
                                                   "geohash", "hashtags", "mentions"}),
      Kids([images |-> {ImetaRow("ImetaTag", m) : m \in Rows(p.images)},
            mentions |-> {ProfileRow(m) : m \in Rows(p.mentions)}]))

Parse22(event) ==
  Ok([title |-> Or(TagValue(event.tags, "title"), <<"">>)[1], alt |-> TagValue(event.tags, "alt"),
      content_warning |-> TagValue(event.tags, "content-warning"),
      duration |-> Through(NumberOf, TagValue(event.tags, "duration")),
      published_at |-> Through(NumberOf, TagValue(event.tags, "published_at")),
      hashtags |-> TagValues(event.tags, "t"), participants |-> PTagMentions(event.tags),
      videos |-> ImetaMedia(event.tags, {"m", "dim", "blurhash", "x", "image", "fallback"})],
     <<>>, {})

Build22(p) ==
  Row("Kind22Parsed",
      Written(p, {"title", "description", "duration", "published_at"},
              {"videos", "alt", "content_warning", "hashtags", "participants"}),
      Kids([videos |-> {ImetaRow("VideoVariant", m) : m \in Rows(p.videos)},
            participants |-> {ProfileRow(m) : m \in Rows(p.participants)}]))

-----------------------------------------------------------------------------
(* Kinds 1018 and 1068: a poll's answer and a poll. What prepare accepts and  *)
(* what parse accepts differ in the length of the tags.                       *)
Parse1018(event) ==
  LET poll == TagValue(event.tags, "e")
      selected == TagValues(event.tags, "response")
  IN  IF poll = <<>> \/ selected = <<>> THEN Err("Other")
      ELSE Ok([poll_event_id |-> poll[1], selected_options |-> selected], <<>>, {})

Prepare1018(template, signer) ==
  IF Named(template.tags, "e", 1) = <<>> \/ Named(template.tags, "response", 1) = <<>>
  THEN Err("Other") ELSE Sign(template, signer)

Build1018(p) == Row("Kind1018Parsed", {"id", "pubkey", "poll_event_id", "selected_options"}, <<>>)

Parse1068(event) ==
  LET options == Named(event.tags, "option", 3)
      types == TagValues(event.tags, "polltype")
      ends == SelectSeq(TagValues(event.tags, "endsAt"), LAMBDA s : s \in DOMAIN NumberOf)
  IN  IF options = <<>> THEN Err("Other")
      ELSE Ok([content_blocks |-> ParseContent(event.content, EmojiMap(event.tags)), options |-> options,
               multiple |-> types # <<>> /\ Last(types) = "multiplechoice",
               ends_at |-> IF ends = <<>> THEN 0 ELSE NumberOf[Last(ends)],
               relay_urls |-> TagValues(event.tags, "relay")], <<>>, {})

Prepare1068(template, signer) ==
  IF Named(template.tags, "option", 1) = <<>> THEN Err("Other") ELSE Sign(template, signer)

Build1068(p) ==
  Row("Kind1068Parsed",
      Written(p, {"id", "pubkey", "question", "options", "poll_type", "ends_at"}, {"content_blocks", "relay_urls"}),
      Kids([content_blocks |-> BlockRows(p.content_blocks),
            options |-> {Row("PollOption", {"id", "label"}, <<>>)}]))

-----------------------------------------------------------------------------
(* Kind 1111: a comment on a root (upper-case tags) and a parent (lower-case  *)
(* tags).                                                                     *)
RelaysOfTag(tags, name) ==
  LET t == FirstOf(Named(tags, name, 2)) IN IF t = <<>> THEN {} ELSE Hint(t[1], 3)

\* all_mentions.retain(|m| seen.insert(m.pubkey)): the first of each pubkey.
UniqueMentions(mentions) ==
  FoldLeft(LAMBDA out, m : IF \E x \in Rows(out) : x.key = m.key THEN out ELSE Append(out, m), <<>>, mentions)

\* extract_content_mentions: the profiles among the blocks, without relays.
ContentMentions(blocks) ==
  LET found == SelectSeq(blocks, LAMBDA b : b.type \in {"npub", "nprofile"})
  IN  [i \in DOMAIN found |-> [key |-> EntityOf[found[i].data[1].ref].id, relays |-> {}]]

Citations(tags) ==
  LET qs == Named(tags, "q", 2)
  IN  [i \in DOMAIN qs |-> [id |-> qs[i][2], relays |-> Hint(qs[i], 3),
                            author |-> IF Len(qs[i]) >= 4 THEN <<qs[i][4]>> ELSE <<>>]]

Parse1111(event) ==
  LET blocks == ParseContent(event.content, EmojiMap(event.tags))
      citations == Citations(event.tags)
      hinted == SelectSeq(citations, LAMBDA c : c.relays # {})
      asked == [i \in DOMAIN hinted |-> AskIds({hinted[i].id}, hinted[i].relays)]
      Value(key) == TagValue(event.tags, key)
  IN  Ok([parsed_content |-> blocks, citations |-> citations,
          mentions |-> UniqueMentions(PTagMentions(event.tags) \o ContentMentions(blocks)),
          root_id |-> Value("E"), root_coordinate |-> Value("A"), root_external |-> Value("I"),
          root_kind |-> Through(NumberOf, Value("K")), root_author |-> Value("P"),
          root_relays |-> RelaysOfTag(event.tags, "P"),
          parent_id |-> Value("e"), parent_coordinate |-> Value("a"), parent_external |-> Value("i"),
          parent_kind |-> Through(NumberOf, Value("k")), parent_author |-> Value("p"),
          parent_relays |-> RelaysOfTag(event.tags, "p")],
         asked, Rows(asked))

Build1111(p) ==
  Row("Kind1111Parsed",
      Written(p, {"content", "root_kind", "parent_kind"},
              {"parsed_content", "citations", "mentions", "root_id", "root_coordinate", "root_external",
               "root_author", "parent_id", "parent_coordinate", "parent_external", "parent_author"})
        \cup When(p.root_relays # {}, {"root_relays"}) \cup When(p.parent_relays # {}, {"parent_relays"}),
      Kids([parsed_content |-> BlockRows(p.parsed_content),
            citations |-> {EventPointerRow(c) : c \in Rows(p.citations)},
            mentions |-> {ProfileRow(m) : m \in Rows(p.mentions)}]))

-----------------------------------------------------------------------------
(* Kind 1311: a live chat message. extract_activity_ref gives up at the first *)
(* "a" tag it cannot read, even when a later one names the activity.          *)
KindOfCoordinate(address) ==
  IF address \in DOMAIN CoordinateOf THEN Through(NumberOf, <<CoordinateOf[address][1]>>) ELSE <<>>

ActivityRef(tags) ==
  LET as == Named(tags, "a", 2)
      stops == {i \in DOMAIN as : KindOfCoordinate(as[i][2]) \in {<<>>, <<30311>>}}
      stop == as[Min(stops)]
  IN  IF stops # {} /\ KindOfCoordinate(stop[2]) = <<30311>> /\ Len(CoordinateOf[stop[2]]) = 3
      THEN <<[relays |-> Hint(stop, 3)]>> ELSE <<>>

Parse1311(event) ==
  LET activity == ActivityRef(event.tags)
      es == Named(event.tags, "e", 2)
  IN  IF activity = <<>> THEN Err("Other")
      ELSE Ok([parsed_content |-> ParseContent(event.content, EmojiMap(event.tags)), activity |-> activity[1],
               thread_refs |-> [i \in DOMAIN es |-> [relays |-> Hint(es[i], 3)]],
               mentions |-> PTagMentions(event.tags)], <<>>, {})

Build1311(p) ==
  Row("Kind1311Parsed", Written(p, {"content", "activity"}, {"parsed_content", "thread_refs", "mentions"}),
      Kids([parsed_content |-> BlockRows(p.parsed_content),
            activity |-> {Row("LiveActivityRef", {"kind", "pubkey", "identifier"}
                                \cup When(p.activity.relays # {}, {"relay"}), <<>>)},
            thread_refs |-> {Row("LiveChatThreadRef", {"event_id"} \cup When(r.relays # {}, {"relay"}), <<>>) :
                               r \in Rows(p.thread_refs)},
            mentions |-> {ParticipantRow("LiveChatParticipant", m) : m \in Rows(p.mentions)}]))

-----------------------------------------------------------------------------
(* Kind 10002: a relay list, the last "r" tag of a url counting.              *)
RelayOf(tag) ==
  LET marker == IF Len(tag) >= 3 THEN Lower(tag[3]) ELSE ""
  IN  [url |-> Normal(tag[2]), read |-> marker \in {"", "read"}, write |-> marker \in {"", "write"}]

Parse10002(event) ==
  LET rs == SelectSeq(Named(event.tags, "r", 2), LAMBDA t : t[2] # "" /\ Normal(t[2]) # "")
      lasts == {i \in DOMAIN rs : \A j \in DOMAIN rs : j > i => RelayOf(rs[j]).url # RelayOf(rs[i]).url}
  IN  Ok([relays |-> {RelayOf(rs[i]) : i \in lasts}], <<>>, {})

Build10002(p) ==
  Row("Kind10002Parsed", {"relays"},
      Kids([relays |-> {Row("RelayInfo", {"url", "read", "write"}, <<>>) : r \in p.relays}]))

=============================================================================
