------------------------------- MODULE WireSchema -------------------------------
(* The FlatBuffers tables the engine's messages are made of, as              *)
(* crates/core/src/generated/message.rs implements them: one definition per  *)
(* generated table with the fields its builder insists on, the offset fields *)
(* and scalars it may leave out, the tables its fields nest and its union.   *)
(*                                                                           *)
(* A message is a row: the table, the set of fields written, the rows below  *)
(* each nested field, and the union tag written beside the union's value.    *)
(* Strings, numbers and offsets are not represented: whether a builder       *)
(* completes and whether a reader's verifier accepts the bytes depends only  *)
(* on which fields are present.                                              *)
EXTENDS FiniteSets, Sequences

None == <<>>

\* What the generated XxxArgs / XxxBuilder::finish / Verifiable::run_verifier say of a table.
Table(required, optional, scalars, nested) ==
  [required |-> required, optional |-> optional, scalars |-> scalars, nested |-> nested,
   union |-> None, members |-> {}, must |-> FALSE]

UnionTable(required, optional, scalars, nested, field, members) ==
  [Table(required, optional, scalars, nested) EXCEPT !.union = <<field>>, !.members = members]

RequiredUnionTable(required, optional, scalars, nested, field, members) ==
  [UnionTable(required, optional, scalars, nested, field, members) EXCEPT !.must = TRUE]

ContentDataMembers == {"CodeData", "HashtagData", "CashuData", "ImageData", "VideoData",
                       "MediaGroupData", "NostrData", "LinkPreviewData", "EmojiData",
                       "LightningData"}
WitnessMembers == {"WitnessString", "P2PKWitness", "HTLCWitness"}
SignerTypeMembers == {"PrivateKey", "Nip07", "Nip46Bunker", "Nip46QR"}
PipeConfigMembers == {"ParsePipeConfig", "KindFilterPipeConfig", "CounterPipeConfig",
                      "NpubLimiterPipeConfig", "ChatLimiterPipeConfig", "SaveToDbPipeConfig",
                      "SerializeEventsPipeConfig", "ProofVerificationPipeConfig",
                      "MuteFilterPipeConfig"}
MainContentMembers == {"Subscribe", "Unsubscribe", "Publish", "SignEvent", "SetSigner",
                       "GetPublicKey"}
ParsedDataMembers == {"Kind0Parsed", "Kind1Parsed", "Kind3Parsed", "Kind4Parsed", "Kind6Parsed",
                      "Kind7Parsed", "Kind8Parsed", "Kind17Parsed", "Kind20Parsed",
                      "Kind22Parsed", "Kind1111Parsed", "Kind1311Parsed", "Kind1068Parsed",
                      "Kind1018Parsed", "Kind10002Parsed", "Kind10019Parsed", "Kind17375Parsed",
                      "Kind7374Parsed", "Kind7375Parsed", "Kind7376Parsed", "Kind9321Parsed",
                      "Kind9735Parsed", "Kind30023Parsed", "ListParsed", "PreGenericParsed"}
MessageMembers == {"ParsedEvent", "NostrEvent", "ConnectionStatus", "CountResponse", "Eoce",
                   "BufferFull", "ValidProofs", "SignedEvent", "Pubkey", "Raw",
                   "SetSignerResponse", "AuthUrl"}

CodeData == Table({"code"}, {"language"}, {}, None)
EmojiData == Table({"shortcode", "url"}, {"emoji_set"}, {}, None)
HashtagData == Table({"tag"}, {}, {}, None)
CashuData == Table({"token"}, {}, {}, None)
LightningData == Table({"invoice"}, {}, {}, None)
ImageData == Table({"url"}, {"alt", "dim"}, {}, None)
VideoData == Table({"url"}, {"thumbnail", "dim"}, {}, None)
MediaItem == Table({}, {"image", "video"}, {}, [image |-> "ImageData", video |-> "VideoData"])
MediaGroupData == Table({}, {"items"}, {}, [items |-> "MediaItem"])
NostrData == Table({"id", "entity"}, {"relays", "author"}, {"kind"}, None)
LinkPreviewData == Table({"url"}, {"title", "description", "image"}, {}, None)
ContentBlock == UnionTable({"type_", "text"}, {}, {}, None, "data", ContentDataMembers)
ArticleEntity == Table({"entity"}, {"id", "relays", "author"}, {"kind"}, None)
ArticleInline == Table({}, {"text", "url", "tag", "entity", "children"}, {"type_"}, [entity |-> "ArticleEntity",
                       children |-> "ArticleInline"])
ArticleBlock == Table({}, {"text", "url", "language", "inlines", "children"}, {"type_", "depth", "ordered", "start"},
                      [inlines |-> "ArticleInline", children |-> "ArticleBlock"])
StringVec == Table({}, {"items"}, {}, None)
ProfilePointer == Table({"public_key"}, {"relays"}, {}, None)
EventPointer == Table({"id"}, {"relays", "author"}, {"kind"}, None)
AddressPointer == Table({"pubkey", "d"}, {"relays"}, {"kind"}, None)
RelayInfo == Table({"url"}, {}, {"read", "write"}, None)
MintInfo == Table({"url", "base_units"}, {}, {}, None)
Emoji == Table({"shortcode", "url"}, {}, {}, None)
Contact == Table({"pubkey"}, {"relays", "petname"}, {}, None)
DLEQProof == Table({"e", "s", "r"}, {}, {}, None)
P2PKWitness == Table({}, {"signatures"}, {}, None)
HTLCWitness == Table({"preimage"}, {"signatures"}, {}, None)
WitnessString == Table({}, {"value"}, {}, None)
Proof == UnionTable({"id", "secret", "c"}, {"dleq"}, {"amount", "version"}, [dleq |-> "DLEQProof"], "witness",
                    WitnessMembers)
HistoryTag == Table({"name", "value"}, {"relay", "marker"}, {}, None)
ZapRequest == Table({"pubkey", "content", "tags"}, {"signature"}, {"kind"}, [tags |-> "StringVec"])
Request == Table({}, {"ids", "authors", "kinds", "tags", "search", "relays"}, {"limit", "since", "until",
                 "cache_first", "no_cache", "max_relays", "cache_only", "mesh_only"}, [tags |-> "StringVec"])
NostrEvent == Table({"id", "pubkey", "content", "tags", "sig"}, {}, {"kind", "created_at"}, [tags |-> "StringVec"])
PrivateKey == Table({"private_key"}, {}, {}, None)
Nip07 == Table({}, {}, {}, None)
Nip46Bunker == Table({"bunker_url"}, {"client_secret"}, {}, None)
Nip46QR == Table({"nostrconnect_url"}, {"client_secret"}, {}, None)
ParsePipeConfig == Table({}, {}, {}, None)
KindFilterPipeConfig == Table({"kinds"}, {}, {}, None)
CounterPipeConfig == Table({"kinds", "pubkey"}, {}, {}, None)
NpubLimiterPipeConfig == Table({}, {}, {"kind", "limit_per_npub", "max_total_npubs", "key_by"}, None)
ChatLimiterPipeConfig == Table({"own_pubkey"}, {"kinds"}, {"limit_per_chat", "max_chats"}, None)
SaveToDbPipeConfig == Table({}, {}, {}, None)
SerializeEventsPipeConfig == Table({"subscription_id"}, {}, {}, None)
ProofVerificationPipeConfig == Table({}, {}, {"max_proofs"}, None)
MuteFilterPipeConfig == Table({}, {"pubkeys", "hashtags", "words", "event_ids"}, {"target"}, None)
Pipe == RequiredUnionTable({}, {}, {}, None, "config", PipeConfigMembers)
PipelineConfig == Table({"pipes"}, {}, {}, [pipes |-> "Pipe"])
Template == Table({"content", "tags"}, {}, {"kind", "created_at"}, [tags |-> "StringVec"])
SubscriptionConfig == Table({}, {"pipeline", "pagination"}, {"close_on_eose", "cache_first", "timeout_ms",
                            "max_events", "skip_cache", "force", "bytes_per_event", "is_slow", "cache_only"},
                            [pipeline |-> "PipelineConfig"])
Subscribe == Table({"subscription_id", "requests", "config"}, {}, {}, [requests |-> "Request",
                   config |-> "SubscriptionConfig"])
Unsubscribe == Table({"subscription_id"}, {}, {}, None)
Publish == Table({"publish_id", "template", "relays"}, {"optimistic_subids"}, {}, [template |-> "Template"])
SignEvent == Table({"template"}, {}, {"request_id"}, [template |-> "Template"])
SetSigner == RequiredUnionTable({}, {}, {}, None, "signer_type", SignerTypeMembers)
GetPublicKey == Table({}, {}, {}, None)
MainMessage == RequiredUnionTable({}, {}, {}, None, "content", MainContentMembers)
Kind0Parsed == Table({}, {"pubkey", "name", "display_name", "picture", "banner", "about", "website", "nip05", "lud06",
                     "lud16", "github", "twitter", "mastodon", "nostr", "display_name_alt", "username", "bio",
                     "image", "avatar", "background"}, {}, None)
Kind1Parsed == Table({"parsed_content"}, {"shortened_content", "profile_mentions", "event_refs", "address_refs",
                     "reply", "root"}, {}, [parsed_content |-> "ContentBlock", shortened_content |-> "ContentBlock",
                     profile_mentions |-> "ProfilePointer", event_refs |-> "EventPointer",
                     address_refs |-> "AddressPointer", reply |-> "EventPointer", root |-> "EventPointer"])
Kind3Parsed == Table({"contacts"}, {}, {}, [contacts |-> "Contact"])
Kind4Parsed == Table({"chat_id", "recipient"}, {"parsed_content", "decrypted_content"}, {},
                     [parsed_content |-> "ContentBlock"])
Kind6Parsed == Table({}, {"reposted_event"}, {}, [reposted_event |-> "ParsedEvent"])
Kind7Parsed == Table({"event_id", "pubkey"}, {"emoji", "target_coordinates"}, {"reaction_type", "event_kind"},
                     [emoji |-> "Emoji"])
BadgeAwardRecipient == Table({"pubkey"}, {"relay"}, {}, None)
Kind8Parsed == Table({"badge_address", "recipients"}, {"badge_relay", "content"}, {},
                     [recipients |-> "BadgeAwardRecipient"])
Kind17Parsed == Table({"event_id", "pubkey"}, {"emoji", "target_coordinates"}, {"reaction_type", "event_kind"},
                      [emoji |-> "Emoji"])
Kind10002Parsed == Table({"relays"}, {}, {}, [relays |-> "RelayInfo"])
Kind10019Parsed == Table({}, {"trusted_mints", "p2pk_pubkey", "read_relays"}, {}, [trusted_mints |-> "MintInfo"])
Kind17375Parsed == Table({"mints"}, {"p2pk_priv_key", "p2pk_pub_key"}, {"decrypted"}, None)
Kind7374Parsed == Table({"quote_id", "mint_url"}, {}, {"expiration"}, None)
Kind7375Parsed == Table({"mint_url", "proofs"}, {"deleted_ids"}, {"decrypted"}, [proofs |-> "Proof"])
Kind7376Parsed == Table({"direction"}, {"created_events", "destroyed_events", "redeemed_events", "tags"}, {"amount",
                        "decrypted"}, [tags |-> "HistoryTag"])
Kind9321Parsed == Table({"id", "recipient", "sender", "mint_url", "proofs"}, {"event_id", "comment", "p2pk_pubkey"},
                        {"amount", "redeemed", "is_p2pk_locked"}, [proofs |-> "Proof"])
Kind9735Parsed == Table({"id", "content", "bolt11", "sender", "recipient", "description"}, {"preimage", "event",
                        "event_coordinate"}, {"amount", "timestamp", "valid"}, [description |-> "ZapRequest"])
Kind30023Parsed == Table({}, {"slug", "title", "summary", "image", "canonical", "topics", "naddr", "content",
                         "article_blocks"}, {"published_at"}, [article_blocks |-> "ArticleBlock"])
ImetaTag == Table({"url"}, {"mime_type", "dim", "alt", "blurhash", "hash", "fallback", "annotate_user"}, {}, None)
Kind20Parsed == Table({}, {"title", "description", "images", "content_warning", "location", "geohash", "hashtags",
                      "mentions"}, {}, [images |-> "ImetaTag", mentions |-> "ProfilePointer"])
VideoVariant == Table({"url"}, {"mime_type", "dim", "blurhash", "hash", "image", "fallback"}, {"duration", "bitrate"},
                      None)
Kind22Parsed == Table({"title", "videos"}, {"description", "alt", "content_warning", "hashtags", "participants"},
                      {"duration", "published_at"}, [videos |-> "VideoVariant", participants |-> "ProfilePointer"])
Kind1111Parsed == Table({"content"}, {"parsed_content", "root_id", "root_coordinate", "root_external", "root_author",
                        "root_relays", "parent_id", "parent_coordinate", "parent_external", "parent_author",
                        "parent_relays", "citations", "mentions"}, {"root_kind", "parent_kind"},
                        [parsed_content |-> "ContentBlock", citations |-> "EventPointer",
                        mentions |-> "ProfilePointer"])
LiveChatParticipant == Table({"pubkey"}, {"relay"}, {}, None)
LiveChatThreadRef == Table({"event_id"}, {"relay"}, {}, None)
LiveActivityRef == Table({"pubkey", "identifier"}, {"relay"}, {"kind"}, None)
Kind1311Parsed == Table({"content", "activity"}, {"parsed_content", "thread_refs", "mentions"}, {},
                        [parsed_content |-> "ContentBlock", activity |-> "LiveActivityRef",
                        thread_refs |-> "LiveChatThreadRef", mentions |-> "LiveChatParticipant"])
Tag == Table({"key"}, {"values"}, {}, None)
Coordinate == Table({"pubkey", "d"}, {"relays"}, {"kind"}, None)
ListParsed == Table({}, {"d", "title", "description", "image", "topics", "people", "events", "addresses",
                    "other_tags"}, {"list_kind"}, [addresses |-> "Coordinate", other_tags |-> "Tag"])
PreParticipant == Table({"pubkey"}, {"relay", "role", "proof"}, {}, None)
PreRefEvent == Table({"id"}, {"relay", "marker"}, {}, None)
PreGenericParsed == Table({}, {"d", "content", "title", "description", "image", "streaming", "recording", "service",
                          "endpoint", "room", "status", "location", "pinned", "topics", "links", "relays",
                          "participants", "events", "addresses", "tags"}, {"kind", "starts", "ends",
                          "current_participants", "total_participants"}, [participants |-> "PreParticipant",
                          events |-> "PreRefEvent", addresses |-> "Coordinate", tags |-> "StringVec"])
PollOption == Table({"id", "label"}, {}, {}, None)
Kind1068Parsed == Table({"id", "pubkey", "question", "options"}, {"content_blocks", "relay_urls"}, {"poll_type",
                        "ends_at"}, [content_blocks |-> "ContentBlock", options |-> "PollOption"])
Kind1018Parsed == Table({"id", "pubkey", "poll_event_id", "selected_options"}, {}, {}, None)
ParsedEvent == UnionTable({"id", "pubkey", "tags"}, {"requests", "relays"}, {"kind", "created_at"},
                          [requests |-> "Request", tags |-> "StringVec"], "parsed", ParsedDataMembers)
ConnectionStatus == Table({"relay_url", "status"}, {"message"}, {}, None)
CountResponse == Table({}, {}, {"count", "kind", "you"}, None)
Eoce == Table({"subscription_id"}, {}, {}, None)
BufferFull == Table({}, {}, {"dropped_events"}, None)
ValidProofs == Table({"proofs"}, {}, {}, [proofs |-> "MintProofs"])
MintProofs == Table({"mint", "proofs"}, {}, {}, [proofs |-> "Proof"])
Pubkey == Table({"pubkey"}, {"error"}, {}, None)
SignedEvent == Table({}, {"event", "error"}, {"request_id"}, [event |-> "NostrEvent"])
SetSignerResponse == Table({}, {"pubkey", "bunker_url", "error"}, {}, None)
Raw == Table({"raw"}, {}, {}, None)
AuthUrl == Table({"url"}, {"request_id"}, {}, None)
WorkerMessage == UnionTable({}, {"sub_id", "url"}, {"type_"}, None, "content", MessageMembers)
CacheRequest == Table({"sub_id"}, {"requests", "event", "parsed_event", "relays"}, {"close", "keep_mesh_watch"},
                      [requests |-> "Request", event |-> "NostrEvent", parsed_event |-> "ParsedEvent"])
SignerRequest == Table({}, {"payload", "pubkey", "sender_pubkey", "recipient_pubkey"}, {"request_id", "op"}, None)
SignerResponse == Table({}, {"result", "error"}, {"request_id"}, None)
CacheResponse == Table({"sub_id"}, {"payload"}, {}, None)

Schema == [CodeData |-> CodeData, EmojiData |-> EmojiData, HashtagData |-> HashtagData,
           CashuData |-> CashuData, LightningData |-> LightningData, ImageData |-> ImageData,
           VideoData |-> VideoData, MediaItem |-> MediaItem, MediaGroupData |-> MediaGroupData,
           NostrData |-> NostrData, LinkPreviewData |-> LinkPreviewData,
           ContentBlock |-> ContentBlock, ArticleEntity |-> ArticleEntity,
           ArticleInline |-> ArticleInline, ArticleBlock |-> ArticleBlock,
           StringVec |-> StringVec, ProfilePointer |-> ProfilePointer,
           EventPointer |-> EventPointer, AddressPointer |-> AddressPointer,
           RelayInfo |-> RelayInfo, MintInfo |-> MintInfo, Emoji |-> Emoji, Contact |-> Contact,
           DLEQProof |-> DLEQProof, P2PKWitness |-> P2PKWitness, HTLCWitness |-> HTLCWitness,
           WitnessString |-> WitnessString, Proof |-> Proof, HistoryTag |-> HistoryTag,
           ZapRequest |-> ZapRequest, Request |-> Request, NostrEvent |-> NostrEvent,
           PrivateKey |-> PrivateKey, Nip07 |-> Nip07, Nip46Bunker |-> Nip46Bunker,
           Nip46QR |-> Nip46QR, ParsePipeConfig |-> ParsePipeConfig,
           KindFilterPipeConfig |-> KindFilterPipeConfig, CounterPipeConfig |-> CounterPipeConfig,
           NpubLimiterPipeConfig |-> NpubLimiterPipeConfig,
           ChatLimiterPipeConfig |-> ChatLimiterPipeConfig,
           SaveToDbPipeConfig |-> SaveToDbPipeConfig,
           SerializeEventsPipeConfig |-> SerializeEventsPipeConfig,
           ProofVerificationPipeConfig |-> ProofVerificationPipeConfig,
           MuteFilterPipeConfig |-> MuteFilterPipeConfig, Pipe |-> Pipe,
           PipelineConfig |-> PipelineConfig, Template |-> Template,
           SubscriptionConfig |-> SubscriptionConfig, Subscribe |-> Subscribe,
           Unsubscribe |-> Unsubscribe, Publish |-> Publish, SignEvent |-> SignEvent,
           SetSigner |-> SetSigner, GetPublicKey |-> GetPublicKey, MainMessage |-> MainMessage,
           Kind0Parsed |-> Kind0Parsed, Kind1Parsed |-> Kind1Parsed, Kind3Parsed |-> Kind3Parsed,
           Kind4Parsed |-> Kind4Parsed, Kind6Parsed |-> Kind6Parsed, Kind7Parsed |-> Kind7Parsed,
           BadgeAwardRecipient |-> BadgeAwardRecipient, Kind8Parsed |-> Kind8Parsed,
           Kind17Parsed |-> Kind17Parsed, Kind10002Parsed |-> Kind10002Parsed,
           Kind10019Parsed |-> Kind10019Parsed, Kind17375Parsed |-> Kind17375Parsed,
           Kind7374Parsed |-> Kind7374Parsed, Kind7375Parsed |-> Kind7375Parsed,
           Kind7376Parsed |-> Kind7376Parsed, Kind9321Parsed |-> Kind9321Parsed,
           Kind9735Parsed |-> Kind9735Parsed, Kind30023Parsed |-> Kind30023Parsed,
           ImetaTag |-> ImetaTag, Kind20Parsed |-> Kind20Parsed, VideoVariant |-> VideoVariant,
           Kind22Parsed |-> Kind22Parsed, Kind1111Parsed |-> Kind1111Parsed,
           LiveChatParticipant |-> LiveChatParticipant, LiveChatThreadRef |-> LiveChatThreadRef,
           LiveActivityRef |-> LiveActivityRef, Kind1311Parsed |-> Kind1311Parsed, Tag |-> Tag,
           Coordinate |-> Coordinate, ListParsed |-> ListParsed,
           PreParticipant |-> PreParticipant, PreRefEvent |-> PreRefEvent,
           PreGenericParsed |-> PreGenericParsed, PollOption |-> PollOption,
           Kind1068Parsed |-> Kind1068Parsed, Kind1018Parsed |-> Kind1018Parsed,
           ParsedEvent |-> ParsedEvent, ConnectionStatus |-> ConnectionStatus,
           CountResponse |-> CountResponse, Eoce |-> Eoce, BufferFull |-> BufferFull,
           ValidProofs |-> ValidProofs, MintProofs |-> MintProofs, Pubkey |-> Pubkey,
           SignedEvent |-> SignedEvent, SetSignerResponse |-> SetSignerResponse, Raw |-> Raw,
           AuthUrl |-> AuthUrl, WorkerMessage |-> WorkerMessage, CacheRequest |-> CacheRequest,
           SignerRequest |-> SignerRequest, SignerResponse |-> SignerResponse,
           CacheResponse |-> CacheResponse]

-----------------------------------------------------------------------------
\* A table as a builder call leaves it; a union value goes in as kids[field] = {row} with its tag.
Row(table, has, kids) == [table |-> table, has |-> has, kids |-> kids, tag |-> "NONE"]

UnionRow(table, has, kids, tag) == [Row(table, has, kids) EXCEPT !.tag = tag]

Fields(t) == t.required \cup t.optional \cup t.scalars \cup {t.union[i] : i \in DOMAIN t.union}

\* The table a field's rows have to be read as.
Nested(t, row, field) == IF field \in DOMAIN t.nested THEN t.nested[field] ELSE row.tag

(* XxxBuilder::finish: `required` panics on the first required offset that  *)
(* was not added, in this table or in one built before it.                  *)
RECURSIVE Builds(_)
Builds(row) ==
  /\ Schema[row.table].required \subseteq row.has
  /\ \A f \in DOMAIN row.kids : \A kid \in row.kids[f] : Builds(kid)

(* Verifiable::run_verifier as root::<T>() runs it: required fields are     *)
(* there, nested rows are of the field's table, and a union's tag and value *)
(* are both there or both absent, the tag being one of the union's members. *)
RECURSIVE Verifies(_)
Verifies(row) ==
  LET t == Schema[row.table]
  IN  /\ t.required \subseteq row.has
      /\ row.has \subseteq Fields(t)
      /\ \A i \in DOMAIN t.union : (t.union[i] \in row.has) <=> (row.tag # "NONE")
      /\ row.tag \in t.members \cup {"NONE"}
      /\ t.must => row.tag # "NONE"
      /\ \A f \in DOMAIN row.kids : \A kid \in row.kids[f] :
           /\ f \in row.has
           /\ kid.table = Nested(t, row, f)
           /\ Verifies(kid)

\* Every nested or union member named by a table is a table of the schema.
SchemaClosed ==
  \A n \in DOMAIN Schema :
    /\ {Schema[n].nested[f] : f \in DOMAIN Schema[n].nested} \subseteq DOMAIN Schema
    /\ DOMAIN Schema[n].nested \subseteq Schema[n].required \cup Schema[n].optional
    /\ Schema[n].members \subseteq DOMAIN Schema

ASSUME SchemaIsClosed == SchemaClosed
=============================================================================
