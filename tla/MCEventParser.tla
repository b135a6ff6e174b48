---------------------------- MODULE MCEventParser -----------------------------
(* Small pools of tags and contents per kind, and what the conversions make   *)
(* of the strings in them.                                                    *)
EXTENDS EventParser, TLC

Over(pool, n) == UNION {[1 .. k -> pool] : k \in 0 .. n}

Events(kind, pool, n, contents) ==
  {Event(kind, "self", "alice", tags, c) : tags \in Over(pool, n), c \in contents}

MCNumberOf == ("1" :> 1) @@ ("30009" :> 30009) @@ ("30311" :> 30311) @@ ("30023" :> 30023)
MCHex64 == {"alice", "bob", "n1", "n2"}
MCCoordinateOf ==
  ("30009:bob:badge" :> <<"30009", "bob", "badge">>) @@ ("30311:bob:live" :> <<"30311", "bob", "live">>)
  @@ ("30311:bob" :> <<"30311", "bob">>) @@ ("x:bob:d" :> <<"x", "bob", "d">>)
MCNormalOf == ("wss://R1/" :> "wss://r1")
MCLowerOf == ("READ" :> "read")
MCFieldOf ==
  ("url a.jpg" :> <<"url", "a.jpg">>) @@ ("url v.mp4" :> <<"url", "v.mp4">>)
  @@ ("alt a" :> <<"alt", "a">>) @@ ("dim 1x1" :> <<"dim", "1x1">>) @@ ("x 00" :> <<"x", "00">>)

MCTagArraysOf ==
  ("private" :> <<<<"p", "carol">>, <<"title", "hidden">>, <<"word">>>>)
  @@ ("history" :> <<<<"direction", "in">>, <<"amount", "1">>, <<"e", "n1", "", "created">>, <<"e", "n2", "", "redeemed">>>>)
  @@ ("history-json" :> <<<<"direction", "in">>, <<"amount", "1">>, <<"e", "n1", "", "created">>, <<"e", "n2", "", "redeemed">>>>)
  @@ ("sideways" :> <<<<"direction", "sideways">>, <<"amount", "1">>>>)
  @@ ("wallet" :> <<<<"mint", "m1">>, <<"privkey", "key32">>>>)
  @@ ("keyless" :> <<<<"mint", "m1">>>>)
  @@ ("shortkey" :> <<<<"mint", "m1">>, <<"privkey", "key">>>>)
MCPlainOf ==
  ("hi04" :> "hi") @@ ("private04" :> "private") @@ ("private44" :> "private") @@ ("quote44" :> "quote")
  @@ ("empty44" :> "") @@ ("token44" :> "token") @@ ("history44" :> "history-json") @@ ("sideways44" :> "sideways")
  @@ ("wallet44" :> "wallet") @@ ("junk44" :> "junk")
MCSchemeOf == [c \in DOMAIN MCPlainOf |-> IF c \in {"hi04", "private04"} THEN "nip04" ELSE "nip44"]
MCJsonOf == ("history" :> "history-json") @@ ("zap" :> "zap-json")
MCBlank == {"", " "}

-----------------------------------------------------------------------------
Token(s, matches) == [s |-> s, matches |-> matches, lines |-> <<6>>, blank |-> FALSE]
Text(s, lines) == [s |-> s, matches |-> {}, lines |-> lines, blank |-> FALSE]
Space == [s |-> " ", matches |-> {}, lines |-> <<1>>, blank |-> TRUE]
Image(s) == Token(s, {"image", "link"})

MCTokensOf ==
  ("hi" :> <<Text("hi", <<2>>)>>)
  @@ ("quote" :> <<Text("quote", <<5>>)>>)
  @@ ("album" :> <<Text("see", <<3, 0>>), Image("a.jpg"), Space, Image("b.jpg"), Text("and", <<4>>), Token("v.mp4", {"video", "link"})>>)
  @@ ("gallery" :> <<Image("a.jpg"), Space, Token("v.mp4", {"video", "link"}), Space, Image("b.jpg"), Space, Image("c.jpg"), Space>>)
  @@ ("people" :> <<Token("npub1", {"nostr"}), Space, Token("nprofile1", {"nostr"}), Token("nostr1x", {"nostr"}), Token(":wave:", {"emoji"})>>)
  @@ ("quotes" :> <<Text("look", <<4>>), Token("nevent1", {"nostr"}), Space, Token("note1", {"nostr"}), Token("naddr1", {"nostr"})>>)
  @@ ("long" :> <<Text("words", <<300, 150>>), Token("#tag", {"hashtag"}), Text("more", <<300>>), Token("http://x", {"link"})>>)
  @@ ("tall" :> <<Text("lines", <<1, 1, 1, 1, 1, 1, 1>>), Token("#tag", {"hashtag"}), Text("lines", <<1, 1, 1, 1, 1, 0>>)>>)
  @@ ("money" :> <<Token("lnbc1", {"lightning"}), Token("lnbcx", {"lightning"}), Token("cashuA", {"cashu"}), Token("code", {"code"})>>)
Contents == DOMAIN MCTokensOf \cup {""}

Entity(prefix, id, relays, author) ==
  [prefix |-> prefix, id |-> id, relays |-> relays, author |-> author, kind |-> 30023, d |-> "slug"]
MCEntityOf ==
  ("npub1" :> Entity("npub", "bob", {}, <<>>)) @@ ("nprofile1" :> Entity("nprofile", "bob", {"wss://r1"}, <<>>))
  @@ ("nevent1" :> Entity("nevent", "n1", {"wss://r1"}, <<"bob">>)) @@ ("note1" :> Entity("note", "n1", {}, <<>>))
  @@ ("naddr1" :> Entity("naddr", "slug", {"wss://r2"}, <<"bob">>))
MCShortcodeOf == (":wave:" :> "wave")
MCBolt11 == {"lnbc1"}
MCProfileOf == ("profile" :> {"name", "about", "picture"}) @@ ("shown" :> {"display_name", "lud16"})
MCEventOf ==
  ("note" :> Event(1, "n1", "bob", <<<<"e", "n2", "wss://r1">>>>, "quotes"))
  @@ ("photo" :> Event(20, "n1", "bob", <<>>, ""))

-----------------------------------------------------------------------------
Md(e, t, s) == [e |-> e, t |-> t, s |-> s]
Open(t) == Md("open", t, "")
Close(t) == Md("close", t, "")
MdText(s) == Md("text", "", s)
MCInlinesOf ==
  ("one" :> <<[t |-> "Text", s |-> "one"]>>) @@ ("two" :> <<[t |-> "Text", s |-> "two"]>>)
  @@ ("both" :> <<[t |-> "Text", s |-> "see "], [t |-> "NostrEntity", s |-> "nevent1"], [t |-> "Hashtag", s |-> "tag"]>>)
MCMarkdownOf ==
  ("para" :> <<Open("Paragraph"), MdText("both"), Open("Strong"), Open("Emphasis"), MdText("one"), Close("Emphasis"),
               MdText("two"), Close("Strong"), Md("break", "", ""), Md("code", "", "c"), Close("Paragraph")>>)
  @@ ("nested" :> <<Open("List"), Open("ListItem"), MdText("one"), Open("List"), Open("ListItem"), MdText("one"),
                    Close("ListItem"), Close("List"), MdText("two"), Close("ListItem"), Close("List"),
                    Md("rule", "", ""), Open("Blockquote"), Open("CodeBlock"), MdText("both"), Close("CodeBlock"), Close("Blockquote")>>)
  @@ ("table" :> <<Open("Table"), MdText("one"), Open("Link"), MdText("two"), Close("Link"), Close("Table"),
                   Open("Heading"), Open("Link"), MdText("two"), Close("Link"), Md("html", "", "<b>"), Close("Heading")>>)

-----------------------------------------------------------------------------
Dleq(r) == [r |-> r]
ProofAs(id, dleq, witness, p2pk) ==
  [id |-> id, dleq |-> dleq, witness |-> witness, locked |-> p2pk # <<>>, p2pk |-> p2pk]
Witnessed(table, signed) == <<[table |-> table, signed |-> signed]>>
MCProofOf ==
  ("proof" :> ProofAs(<<"ks">>, <<Dleq(<<"r">>)>>, Witnessed("P2PKWitness", TRUE), <<"bob">>))
  @@ ("plain" :> ProofAs(<<"ks">>, <<>>, <<>>, <<>>))
  @@ ("bare" :> ProofAs(<<>>, <<>>, Witnessed("WitnessString", FALSE), <<>>))
MCTokenOf ==
  ("token" :> [mint |-> "m1", del |-> <<"n1">>,
               proofs |-> <<MCProofOf["proof"], ProofAs(<<"ks">>, <<>>, Witnessed("HTLCWitness", FALSE), <<>>)>>])
  @@ ("spent" :> [mint |-> "m1", proofs |-> <<>>, del |-> <<>>])
  @@ ("rless" :> [mint |-> "m1", proofs |-> <<ProofAs(<<"ks">>, <<Dleq(<<>>)>>, <<>>, <<>>)>>, del |-> <<>>])
Zap(kind, tags, signature) ==
  [kind |-> kind, pubkey |-> "bob", content |-> "hi", tags |-> tags, signature |-> signature]
ZapTags == <<<<"p", "bob">>, <<"e", "n1">>, <<"amount", "1000">>, <<"relays", "wss://r1", "wss://r2">>>>
MCZapOf ==
  ("zap" :> Zap(9734, ZapTags, <<"sig">>)) @@ ("zap-json" :> Zap(9734, ZapTags, <<"sig">>))
  @@ ("untold" :> Zap(9734, <<<<"p">>>>, <<>>)) @@ ("other" :> Zap(1, ZapTags, <<>>))
MCPublicOf == ("key32" :> "pub32")
MCLongKey == {"key32"}

-----------------------------------------------------------------------------
ETag(id, relay, marker) == <<"e", id, relay, marker>>
NoteTags ==
  {<<"e", "n1">>, ETag("n2", "wss://r2", "root"), ETag("n1", "wss://r2", "reply"), ETag("self", "", "bob"),
   <<"p", "bob", "wss://r2">>, <<"imeta", "url a.jpg", "alt a", "dim 1x1">>, <<"imeta", "url v.mp4", "alt a">>,
   <<"emoji", "wave", "http://w">>}

Notes == Events(1, NoteTags, 2, Contents)

Social ==
  Events(0, {}, 0, {"", "profile", "shown", "junk"})
  \cup Events(3, {<<"p">>, <<"p", "bob", "wss://R1/", "bobby">>, <<"p", "n1", "", "">>}, 2, {""})
  \cup Events(6, {<<"e">>, <<"e", "n1">>, <<"e", "n1", "wss://r1">>}, 2, {"", "note", "photo"})
  \cup Events(7, {<<"e", "n1">>, <<"e">>, <<"p", "bob">>, <<"k", "1">>, <<"a", "30023:x">>, <<"emoji", "wave", "http://w">>},
              2, {"", "-", ":wave:", "x"})
  \cup Events(17, {<<"r", "http://x">>, <<"r">>, <<"emoji", "wave", "http://w">>}, 2, {"+", ":wave:"})
  \cup Events(8, {<<"a", "30009:bob:badge", "wss://r1">>, <<"a", "30311:bob:live">>, <<"a", "x:bob:d">>, <<"p", "bob", "wss://r2">>},
              2, {"", "hi"})
  \cup UNION {Events(k, {<<"title", "t">>, <<"imeta", "url a.jpg", "x 00">>, <<"imeta", "alt a">>, <<"t", "tag">>,
                         <<"p", "bob", "wss://r1">>, <<"duration", "1">>}, 2, {"hi"}) : k \in {20, 22}}
  \cup Events(1018, {<<"e", "n1">>, <<"e">>, <<"response", "a">>, <<"response">>}, 2, {""})
  \cup Events(1068, {<<"option", "a", "A">>, <<"option", "b">>, <<"polltype", "multiplechoice">>, <<"endsAt", "1">>,
                     <<"relay", "wss://r1">>}, 2, {"hi", "album"})
  \cup Events(1111, {<<"E", "n1">>, <<"K", "1">>, <<"P", "bob", "wss://r1">>, <<"e", "n2">>, <<"p", "bob">>,
                     <<"q", "n1", "wss://r1">>, <<"q", "n1", "wss://r2", "bob">>}, 2, {"people", "gallery"})
  \cup Events(1311, {<<"a", "30311:bob:live", "wss://r1">>, <<"a", "30311:bob">>, <<"a", "30009:bob:badge">>,
                     <<"e", "n1">>, <<"p", "bob">>}, 2, {"hi", "album"})
  \cup Events(10002, {<<"r", "wss://R1/">>, <<"r", "wss://r1", "READ">>, <<"r", "wss://r1", "write">>, <<"r", "">>}, 2, {""})
  \cup Events(30023, {<<"d", "slug">>, <<"published_at", "1">>, <<"t", "tag">>}, 2, DOMAIN MCMarkdownOf \cup {""})
  \cup Events(5, {<<"e", "n1">>}, 1, {""})

WalletTags == {<<"mint", "m1">>, <<"mint", "">>, <<"mint", "m2", "sat">>, <<"relay", "wss://r1">>, <<"pubkey", "bob">>}
NutzapTags == {<<"proof", "proof">>, <<"proof", "bare">>, <<"proof", "junk">>, <<"u", "m1">>, <<"p", "bob">>, <<"e", "n1">>}
ZapReceiptTags == {<<"p", "bob">>, <<"bolt11", "lnbc1">>, <<"description", "zap">>, <<"description", "untold">>,
                   <<"description", "other">>, <<"e", "n2">>, <<"P", "carol">>}
Wallets ==
  UNION {Events(k, WalletTags, 1, {"", "junk", "junk44", "quote44", "token", "token44", "rless", "history", "history44",
                                   "sideways44", "wallet", "wallet44", "hi04"}) : k \in {7374, 7375, 7376, 17375}}
  \cup Events(7376, {<<"e", "n1", "", "redeemed">>, <<"e", "n1", "", "created">>}, 2, {"history44", "junk"})
  \cup Events(4, {<<"p", "bob">>, <<"p">>}, 1, {"hi04", "quote44", "junk"})
  \cup Events(9321, NutzapTags, 4, {"", "hi"})
  \cup Events(9735, ZapReceiptTags, 4, {""})
  \cup Events(10019, WalletTags, 2, {""})

ListTags == {<<"d", "x">>, <<"title", "t">>, <<"summary", "s">>, <<"a", "30311:bob:live", "wss://r1">>, <<"a", "x:bob:d">>,
             <<"p", "bob", "", "host">>, <<"e", "n1", "wss://r1">>, <<"relays", "wss://r1", "", "wss://r2">>, <<"t", "tag">>, <<"r">>}
Sealings == {<<"encryption", "nip44">>, <<"encryption", "nip04">>}
Lists ==
  UNION {Events(k, ListTags, 2, {"", "private"}) : k \in {30000, 30311}}
  \cup Events(10000, {<<"title", "t">>} \cup Sealings, 2, {"", " ", "private", "private44", "private04", "junk"})

MCArrivals == Notes \cup Social \cup Wallets \cup Lists

MCTemplates ==
  Events(1, {<<"e", "n1">>}, 1, {"hi"})
  \cup Events(4, {<<"p", "bob">>, <<"p">>}, 1, {"hi"})
  \cup Events(7374, WalletTags, 1, {"quote", ""})
  \cup Events(7375, {}, 0, {"token", "spent", "junk"})
  \cup Events(7376, {}, 0, {"history", "sideways", "keyless", "junk"})
  \cup Events(17375, {<<"mint", "m2">>}, 1, {"wallet", "keyless", "shortkey", "junk"})
  \cup Events(9321, NutzapTags, 3, {"hi"})
  \cup Events(9735, {<<"p", "bob">>, <<"bolt11", "lnbc1">>}, 2, {"zap", "untold", "other", "junk"})
  \cup Events(1018, {<<"e", "n1">>, <<"e">>, <<"response", "a">>, <<"response">>}, 2, {""})
  \cup Events(1068, {<<"option", "a", "A">>, <<"option", "b">>}, 1, {"hi"})
  \cup Events(10019, WalletTags, 2, {""})
  \cup UNION {Events(k, {<<"d", "x">>, <<"p", "bob">>} \cup Sealings, 2, {"private"}) : k \in {10000, 30000, 30311}}
=============================================================================
