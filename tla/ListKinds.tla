------------------------------ MODULE ListKinds -------------------------------
(* crates/core/src/parser/nip51.rs and pre_generic.rs: lists with a public    *)
(* and an encrypted part, and the addressable kinds with no parser of their   *)
(* own.                                                                       *)
EXTENDS WalletKinds

CONSTANT Blank   \* the contents that are empty once trimmed

\* parse_coordinate; the pieces of a coordinate are not written as such.
Coordinates(tags) ==
  LET good == SelectSeq(Named(tags, "a", 2),
                        LAMBDA t : KindOfCoordinate(t[2]) # <<>> /\ Len(CoordinateOf[t[2]]) = 3)
  IN  [i \in DOMAIN good |-> [relays |-> Hint(good[i], 3)]]

CoordinateRow(c) ==
  Row("Coordinate", {"kind", "pubkey", "d"} \cup When(c.relays # {}, {"relays"}), <<>>)

-----------------------------------------------------------------------------
(* NIP-51 lists.                                                              *)
ListTagNames == {"p", "e", "a", "t", "title", "summary", "description", "image", "d"}

\* process_list_tags over the public tags, then the private ones: collections grow, the first
\* title, description, image and d stay.
ProcessListTags(tags) ==
  [d |-> TagValue(tags, "d"), title |-> TagValue(tags, "title"), image |-> TagValue(tags, "image"),
   description |-> FirstOf(Entry(SelectSeq(tags, LAMBDA t : Len(t) >= 2 /\ t[1] \in {"summary", "description"}), 2)),
   topics |-> TagValues(tags, "t"), people |-> TagValues(tags, "p"), events |-> TagValues(tags, "e"),
   addresses |-> Coordinates(tags),
   other_tags |-> SelectSeq(tags, LAMBDA t : Len(t) = 1 \/ (Len(t) >= 2 /\ t[1] \notin ListTagNames))]

\* The encryption tag names the scheme, else the ciphertext shows it.
ListScheme(event) ==
  LET said == TagValue(event.tags, "encryption")
      tag == IF said = <<>> THEN "" ELSE Lower(said[1])
  IN  CASE tag \in {"nip04", "nip-04"} -> "nip04"
        [] tag \in {"nip44", "nip-44"} -> "nip44"
        [] OTHER -> IF event.content \in DOMAIN SchemeOf THEN SchemeOf[event.content] ELSE "nip44"

\* Private content that does not decrypt or parse is skipped, and the list is read without it.
PrivateTags(event, signer) ==
  LET plain == CASE event.content \in Blank -> <<>>
                 [] event.content \notin Blank /\ signer = "none" -> <<event.content>>
                 [] OTHER -> IF Decrypts(signer, ListScheme(event), event.content)
                             THEN <<PlainOf[event.content]>> ELSE <<>>
  IN  IF plain # <<>> /\ plain[1] \in DOMAIN TagArraysOf THEN TagArraysOf[plain[1]] ELSE <<>>

ParseNip51(event, signer) == Ok(ProcessListTags(event.tags \o PrivateTags(event, signer)), <<>>, {})

PrepareNip51Public(template, signer) == Sign(template, signer)

\* Only an encryption tag has the content encrypted.
PrepareNip51(template, signer) ==
  LET said == TagValue(template.tags, "encryption")
      tag == IF said = <<>> THEN "" ELSE Lower(said[1])
      Sealed(scheme) == [template EXCEPT !.content = Encrypted(scheme, @)]
  IN  IF signer # "ok" THEN Err("Crypto")
      ELSE CASE tag \in {"nip04", "nip-04"} -> Sign(Sealed("nip04"), signer)
             [] tag \in {"nip44", "nip-44"} -> Sign(Sealed("nip44"), signer)
             [] OTHER -> Sign(template, signer)

BuildNip51(p) ==
  Row("ListParsed",
      Written(p, {"list_kind"}, {"d", "title", "description", "image", "topics", "people", "events",
                                 "addresses", "other_tags"}),
      Kids([addresses |-> {CoordinateRow(c) : c \in Rows(p.addresses)},
            other_tags |-> {Row("Tag", {"key"} \cup When(Len(t) > 1, {"values"}), <<>>) : t \in Rows(p.other_tags)}]))

-----------------------------------------------------------------------------
(* Other addressable kinds: tags only.                                        *)
PlainFields == {"d", "title", "image", "streaming", "recording", "service", "endpoint", "room", "status",
                "location", "pinned"}

\* "relay" names one relay, "relays" any number of them.
ListedRelays(tags) ==
  FlattenSeq([i \in DOMAIN tags |->
                CASE Len(tags[i]) >= 2 /\ tags[i][1] = "relay" -> <<tags[i][2]>>
                  [] Len(tags[i]) >= 2 /\ tags[i][1] = "relays" -> SelectSeq(Tail(tags[i]), LAMBDA u : u # "")
                  [] OTHER -> <<>>])

\* Topics and links are collected once by tag_values and once more with the references.
ParsePreGeneric(event) ==
  LET tags == event.tags
      ps == Named(tags, "p", 2)
      es == Named(tags, "e", 2)
      collected == [topics |-> TagValues(tags, "t") \o TagValues(tags, "t"),
                    links |-> TagValues(tags, "r") \o TagValues(tags, "r"),
                    description |-> Or(TagValue(tags, "description"), TagValue(tags, "summary")),
                    relays |-> ListedRelays(tags),
                    participants |-> [i \in DOMAIN ps |-> [relay |-> At(ps[i], 3), role |-> At(ps[i], 4),
                                                           proof |-> At(ps[i], 5)]],
                    events |-> [i \in DOMAIN es |-> [relay |-> At(es[i], 3), marker |-> At(es[i], 4)]],
                    addresses |-> Coordinates(tags), tags |-> tags]
  IN  Ok(collected @@ [f \in PlainFields |-> TagValue(tags, f)], <<>>, {})

BuildPreGeneric(p) ==
  Row("PreGenericParsed",
      Written(p, {"kind", "content", "starts", "ends", "current_participants", "total_participants"},
              PlainFields \cup {"description", "topics", "links", "relays", "participants", "events",
                                "addresses", "tags"}),
      Kids([participants |-> {Row("PreParticipant", Written(x, {"pubkey"}, {"relay", "role", "proof"}), <<>>) :
                                x \in Rows(p.participants)},
            events |-> {Row("PreRefEvent", Written(x, {"id"}, {"relay", "marker"}), <<>>) : x \in Rows(p.events)},
            addresses |-> {CoordinateRow(c) : c \in Rows(p.addresses)},
            tags |-> When(p.tags # <<>>, {StringVecRow})]))
=============================================================================
