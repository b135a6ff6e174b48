------------------------------ MODULE EventParts ------------------------------
(* What every kind's parser is made of: Nostr tags and the ways the parsers   *)
(* pick values out of them, the requests for further events a parser hands    *)
(* out with its result and their deduplication                                *)
(* (parser_utils/request_deduplication.rs), and the row a parsed structure is *)
(* written to.                                                                *)
(*                                                                            *)
(* A string is an atom (a TLA+ string); what a conversion makes of it is a    *)
(* constant function whose domain is the strings it accepts.                  *)
EXTENDS Naturals, WireSchema, SequencesExt

CONSTANTS
  NumberOf,      \* str::parse of an integer
  Hex64,         \* the strings kind1::is_hex64 accepts
  CoordinateOf,  \* "kind:pubkey:d" cut by splitn(3, ':'): <<kind, pubkey, d>>
  NormalOf,      \* Relay::normalize_url; a string outside the domain is normal already
  LowerOf,       \* str::to_lowercase; a string outside the domain is lower case already
  FieldOf,       \* "key value" of an imeta tag cut by split_once(' '): <<key, value>>
  TagArraysOf,   \* NostrTags::from_json / parse_tag_arrays_json: a sequence of tags
  PlainOf,       \* what the right key decrypts a ciphertext to
  SchemeOf,      \* "nip04" (a ciphertext with "?iv=") or "nip44", of every ciphertext
  JsonOf         \* from_json, then to_json; a string outside the domain comes back as it is

\* An event is its kind, id, author, tags and content; a tag is a sequence of strings.
Event(kind, id, pubkey, tags, content) ==
  [kind |-> kind, id |-> id, pubkey |-> pubkey, tags |-> tags, content |-> content]

-----------------------------------------------------------------------------
(* Tags. An Option and a Vec are both sequences.                              *)

\* The tags called `name` with at least n entries.
Named(tags, name, n) == SelectSeq(tags, LAMBDA t : Len(t) >= n /\ t[1] = name)

Entry(ts, n) == [i \in DOMAIN ts |-> ts[i][n]]

Rows(s) == {s[i] : i \in DOMAIN s}

\* Option::first / last of a list.
FirstOf(s) == IF s = <<>> THEN <<>> ELSE <<s[1]>>
LastOf(s) == IF s = <<>> THEN <<>> ELSE <<s[Len(s)]>>

\* tag_value and tag_values, which each kind module repeats.
TagValue(tags, key) == FirstOf(Entry(Named(tags, key, 2), 2))
TagValues(tags, key) == Entry(Named(tags, key, 2), 2)

\* tag.get(n - 1).filter(|s| !s.is_empty())
At(tag, n) == IF Len(tag) >= n /\ tag[n] # "" THEN <<tag[n]>> ELSE <<>>

\* The value of an Option<String>, mapped through a conversion that may fail.
Through(F, option) == IF option # <<>> /\ option[1] \in DOMAIN F THEN <<F[option[1]]>> ELSE <<>>

Or(option, other) == IF option = <<>> THEN other ELSE option

Normal(url) == IF url \in DOMAIN NormalOf THEN NormalOf[url] ELSE url

Lower(s) == IF s \in DOMAIN LowerOf THEN LowerOf[s] ELSE s

Reserialised(s) == IF s \in DOMAIN JsonOf THEN JsonOf[s] ELSE s

\* The relay hint of a pointer tag, as the list of relays the pointer gets.
Hint(tag, n) == IF Len(tag) >= n /\ tag[n] # "" THEN {tag[n]} ELSE {}

\* The profiles the "p" tags point to (extract_mentions, extract_participants).
PTagMentions(tags) ==
  LET ps == Named(tags, "p", 2)
  IN  [i \in DOMAIN ps |-> [key |-> ps[i][2], relays |-> Hint(ps[i], 3)]]

-----------------------------------------------------------------------------
(* Results. A parser error is transient (ParserError::Crypto, which the       *)
(* pipeline retries) or final. A result keeps the requests as they were asked *)
(* for beside the ones handed out.                                            *)
Ok(parsed, asked, requests) ==
  [ok |-> TRUE, parsed |-> parsed, asked |-> asked, requests |-> requests]
Err(error) == [ok |-> FALSE, error |-> error]

-----------------------------------------------------------------------------
(* Requests. Every request a parser makes is cache_first and leaves since,    *)
(* until, search and the cache switches at their defaults.                    *)
Ask == [ids |-> {}, authors |-> {}, kinds |-> {}, tags |-> {}, limit |-> 0, relays |-> {}]

AskProfile(pubkey, relays) == [Ask EXCEPT !.authors = {pubkey}, !.kinds = {0}, !.relays = relays]
AskIds(ids, relays) == [Ask EXCEPT !.ids = ids, !.relays = relays]

\* create_filter_key: the filter without the relays it is sent to.
FilterKey(request) == [request EXCEPT !.relays = {}]

MergeKeepsFirst(request, known) ==
  LET key == FilterKey(request)
  IN  [k \in DOMAIN known \cup {key} |-> IF k \in DOMAIN known THEN known[k] ELSE request]

\* deduplicate_requests: one entry per key, the relays of later ones merged into it.
Merge(request, known) ==
  LET key == FilterKey(request)
  IN  IF key \in DOMAIN known
      THEN [known EXCEPT ![key].relays = @ \cup request.relays]
      ELSE [k \in DOMAIN known \cup {key} |-> IF k = key THEN request ELSE known[k]]

DeduplicateRequests(requests) ==
  LET map == FoldLeft(LAMBDA known, r : Merge(r, known), <<>>, requests)
  IN  {map[k] : k \in DOMAIN map}

-----------------------------------------------------------------------------
(* Rows. A parsed structure is a record whose optional fields and vectors are *)
(* sequences. `always` are the fields its builder always adds, `some` the     *)
(* ones it adds when there is something to write.                             *)
Written(p, always, some) == always \cup {f \in some : p[f] # <<>>}

When(condition, fields) == IF condition THEN fields ELSE {}

\* A row whose `some` fields hold rows of their own.
Kids(rows) == [f \in {g \in DOMAIN rows : rows[g] # {}} |-> rows[f]]

StringVecRow == Row("StringVec", {"items"}, <<>>)

ProfileRow(m) == Row("ProfilePointer", {"public_key"} \cup When(m.relays # {}, {"relays"}), <<>>)

EventPointerRow(p) ==
  Row("EventPointer", Written(p, {"id", "kind"}, {"author"}) \cup When(p.relays # {}, {"relays"}), <<>>)

\* Request::build_flatbuffer; flatbuffers leaves a zero limit out.
RequestRow(r) ==
  Row("Request",
      {"cache_first"} \cup {f \in {"ids", "authors", "kinds", "tags", "relays"} : r[f] # {}}
        \cup When(r.limit # 0, {"limit"}),
      Kids([tags |-> When(r.tags # {}, {StringVecRow})]))

\* ParsedEvent::build_flatbuffer: the event's own fields, the requests if there are any, and the
\* payload (an Option) beside the union tag of its kind. The parser sets no relays.
ParsedEventRow(event, payload, requests) ==
  UnionRow("ParsedEvent",
           {"id", "pubkey", "kind", "created_at", "tags"}
             \cup When(requests # {}, {"requests"}) \cup When(payload # <<>>, {"parsed"}),
           Kids([tags |-> When(event.tags # <<>>, {StringVecRow}),
                 requests |-> {RequestRow(r) : r \in requests},
                 parsed |-> Rows(payload)]),
           IF payload = <<>> THEN "NONE" ELSE payload[1].table)
=============================================================================
