---------------------------- MODULE ContentBlocks -----------------------------
(* crates/core/src/parser/content.rs: how the text of a note becomes blocks   *)
(* (ContentParser::parse_content), how the blocks become a preview            *)
(* (shorten_content), and how a block is written.                             *)
(*                                                                            *)
(* A content is a sequence of tokens, the spans the pattern regexes cut it    *)
(* into. A token has the string, the set of patterns that match it, the sizes *)
(* of its lines and whether it is all whitespace. Sizes are bytes; a text     *)
(* that a multi-byte character forces to be cut earlier, or that ends in an   *)
(* ellipsis before it is cut, is not represented.                             *)
EXTENDS EventParts

CONSTANTS
  TokensOf,    \* the tokens of a content
  EntityOf,    \* nip19 from_bech32: [prefix, id, relays, author, kind, d]
  ShortcodeOf, \* the shortcode between the colons of an emoji token
  Bolt11       \* the strings is_well_formed_bolt11 accepts

\* PATTERNS, in the order they are tried.
Patterns == <<"code", "cashu", "hashtag", "image", "video", "link", "nostr", "lightning", "emoji">>

Tokens(content) == IF content = "" THEN <<>> ELSE TokensOf[content]

-----------------------------------------------------------------------------
(* Blocks: type, text (the strings it holds), line sizes, data (an Option).   *)
Data(variant, ref) == [variant |-> variant, ref |-> ref, alt |-> <<>>, dim |-> <<>>, items |-> <<>>]

Block(type, token, data) ==
  [type |-> type, text |-> <<token.s>>, lines |-> token.lines, blank |-> token.blank, data |-> data]

TextBlock(token) == Block("text", token, <<>>)

\* ContentParser::with_emojis: the shortcodes the event's emoji tags define.
EmojiMap(tags) == {t[2] : t \in Rows(Named(tags, "emoji", 3))}

\* process_nostr: an entity that does not decode stays text.
ProcessNostr(token) ==
  IF token.s \in DOMAIN EntityOf
  THEN Block(EntityOf[token.s].prefix, token, <<Data("Nostr", token.s)>>)
  ELSE TextBlock(token)

\* process_lightning fails on a malformed invoice, and parse_content keeps the match as text.
ProcessLightning(token) ==
  IF token.s \in Bolt11 THEN Block("lightning", token, <<Data("Lightning", token.s)>>)
  ELSE TextBlock(token)

\* process_emoji_with_map / process_emoji_placeholder.
ProcessEmoji(token, emojis) ==
  IF token.s \in DOMAIN ShortcodeOf /\ ShortcodeOf[token.s] \in emojis
  THEN Block("emoji", token, <<Data("Emoji", token.s)>>)
  ELSE TextBlock(token)

Process(pattern, token, emojis) ==
  CASE pattern = "code" -> Block("code", token, <<Data("Code", token.s)>>)
    [] pattern = "cashu" -> Block("cashu", token, <<Data("Cashu", token.s)>>)
    [] pattern = "hashtag" -> Block("hashtag", token, <<Data("Hashtag", token.s)>>)
    [] pattern = "image" -> Block("image", token, <<Data("Image", token.s)>>)
    [] pattern = "video" -> Block("video", token, <<Data("Video", token.s)>>)
    [] pattern = "link" -> Block("link", token, <<Data("LinkPreview", token.s)>>)
    [] pattern = "nostr" -> ProcessNostr(token)
    [] pattern = "lightning" -> ProcessLightning(token)
    [] OTHER -> ProcessEmoji(token, emojis)

\* One pattern after the other, each over what is still text.
Recognise(token, emojis) ==
  FoldLeft(LAMBDA block, p : IF block.type = "text" /\ p \in token.matches
                             THEN Process(p, token, emojis) ELSE block,
           TextBlock(token), Patterns)

-----------------------------------------------------------------------------
(* Lines: <<3, 2>> is a text of three bytes, a newline and two bytes.         *)
Chars(lines) == FoldLeft(LAMBDA n, l : n + l, 0, lines) + Len(lines) - 1

\* str::lines().count(): a final newline starts no line.
LineCount(lines) == IF lines[Len(lines)] = 0 THEN Len(lines) - 1 ELSE Len(lines)

JoinLines(a, b) == Front(a) \o <<a[Len(a)] + b[1]>> \o Tail(b)

\* The first n bytes of a longer text.
CutChars(lines, n) ==
  LET k == CHOOSE i \in DOMAIN lines :
             /\ Chars(SubSeq(lines, 1, i)) >= n
             /\ \A j \in 1 .. i - 1 : Chars(SubSeq(lines, 1, j)) < n
      before == SubSeq(lines, 1, k - 1)
  IN  Append(before, IF k = 1 THEN n ELSE n - (Chars(before) + 1))

Dots(lines) == [lines EXCEPT ![Len(lines)] = @ + 3]

-----------------------------------------------------------------------------
\* Combine adjacent text blocks.
CombineText(blocks) ==
  FoldLeft(LAMBDA out, b :
             IF out # <<>> /\ b.type = "text" /\ Last(out).type = "text"
             THEN Append(Front(out),
                         [Last(out) EXCEPT !.text = @ \o b.text, !.lines = JoinLines(@, b.lines),
                                           !.blank = @ /\ b.blank])
             ELSE Append(out, b),
           <<>>, blocks)

IsMedia(block) == block.type \in {"image", "video"}

FlushLast(st) ==
  IF st.group = <<>> THEN st
  ELSE [out |-> Append(st.out, Last(st.group)), group |-> <<>>]

\* flush_media_group: one medium stays as it is, several become one grid.
FlushMediaGroup(st) ==
  IF st.group = <<>> THEN st
  ELSE [out |-> Append(st.out,
                  IF Len(st.group) = 1 THEN st.group[1]
                  ELSE [type |-> "mediaGrid",
                        text |-> FlattenSeq([i \in DOMAIN st.group |-> st.group[i].text]),
                        lines |-> FlattenSeq([i \in DOMAIN st.group |-> st.group[i].lines]),
                        blank |-> FALSE,
                        data |-> <<[Data("MediaGrid", "") EXCEPT
                                      !.items = [i \in DOMAIN st.group |-> st.group[i].data[1]]]>>]),
        group |-> <<>>]

\* group_media: whitespace between two media is dropped, anything else ends the group.
GroupMedia(blocks) ==
  LET Step(st, i) ==
        CASE IsMedia(blocks[i]) -> [st EXCEPT !.group = Append(@, blocks[i])]
          [] /\ ~IsMedia(blocks[i]) /\ blocks[i].type = "text" /\ st.group # <<>>
             /\ blocks[i].blank /\ i < Len(blocks) /\ IsMedia(blocks[i + 1]) -> st
          [] OTHER -> LET f == FlushMediaGroup(st) IN [f EXCEPT !.out = Append(@, blocks[i])]
      Indexes == [i \in DOMAIN blocks |-> i]
  IN  FlushMediaGroup(FoldLeft(Step, [out |-> <<>>, group |-> <<>>], Indexes)).out

\* ContentParser::parse_content.
ParseContent(content, emojis) ==
  LET tokens == Tokens(content)
      recognised == [i \in DOMAIN tokens |-> Recognise(tokens[i], emojis)]
  IN  SelectSeq(GroupMedia(CombineText(recognised)),
                LAMBDA b : b.type # "text" \/ Chars(b.lines) # 0)

\* enrich_media_with_imeta: a video inside a grid gets the dimensions only.
EnrichData(d, imeta, inGrid) ==
  IF d.ref \notin DOMAIN imeta THEN d
  ELSE [d EXCEPT !.alt = IF inGrid /\ d.variant = "Video" THEN @ ELSE Or(@, imeta[d.ref].alt),
                 !.dim = Or(@, imeta[d.ref].dim)]

EnrichMedia(blocks, imeta) ==
  [i \in DOMAIN blocks |->
     CASE IsMedia(blocks[i]) -> [blocks[i] EXCEPT !.data = <<EnrichData(@[1], imeta, FALSE)>>]
       [] blocks[i].type = "mediaGrid" ->
            [blocks[i] EXCEPT !.data[1].items =
               [j \in DOMAIN @ |-> EnrichData(@[j], imeta, TRUE)]]
       [] OTHER -> blocks[i]]

-----------------------------------------------------------------------------
(* ContentParser::shorten_content. *)
IsQuote(b) == b.type \in {"note", "nevent", "naddr"}

IsTextish(b) ==
  ~IsQuote(b) /\ (b.type \in {"text", "hashtag"} \/ (b.data # <<>> /\ b.data[1].variant = "Nostr"))

\* max_length / 5, at least 48 and at most 160, is kept free for a tail.
TailReserve(maxLength) ==
  LET fifth == maxLength \div 5 IN IF fifth < 48 THEN 48 ELSE IF fifth > 160 THEN 160 ELSE fifth

Monus(a, b) == IF a > b THEN a - b ELSE 0

\* The media of a list of blocks, those of grids included.
MediaItems(blocks) ==
  FlattenSeq([i \in DOMAIN blocks |->
                CASE IsMedia(blocks[i]) -> blocks[i].data
                  [] blocks[i].type = "mediaGrid" -> blocks[i].data[1].items
                  [] OTHER -> <<>>])

HasTail(blocks) ==
  MediaItems(blocks) # <<>> \/ \E b \in Rows(blocks) : IsQuote(b) \/ b.type = "link"

TextBudget(blocks, maxLength) ==
  IF HasTail(blocks) THEN Monus(maxLength, TailReserve(maxLength)) ELSE maxLength

\* One block of the preview text; the first one that has to be cut is the last one.
ShortenStep(st, b, budget, maxLines) ==
  IF st.stop \/ st.chars >= budget \/ st.lines >= maxLines THEN [st EXCEPT !.stop = TRUE]
  ELSE LET left == maxLines - st.lines
           room == budget - st.chars
           tall == LineCount(b.lines) > left
           kept == IF tall THEN SubSeq(b.lines, 1, left) ELSE b.lines
           long == Chars(kept) > room
           cut == CASE long -> Dots(CutChars(kept, Monus(room, 3)))
                    [] tall /\ ~long -> Dots(kept)
                    [] OTHER -> kept
       IN  [out |-> Append(st.out, [b EXCEPT !.lines = cut]),
            chars |-> st.chars + Chars(cut), lines |-> st.lines + LineCount(cut),
            stop |-> tall \/ long]

PreviewText(blocks, budget, maxLines) ==
  FoldLeft(LAMBDA st, b : ShortenStep(st, b, budget, maxLines),
           [out |-> <<>>, chars |-> 0, lines |-> 0, stop |-> FALSE],
           SelectSeq(blocks, IsTextish)).out

MediaBlock(items) ==
  [type |-> IF Len(items) > 1 THEN "mediaGrid" ELSE IF items[1].variant = "Image" THEN "image" ELSE "video",
   text |-> [i \in DOMAIN items |-> items[i].ref], lines |-> <<0>>, blank |-> FALSE,
   data |-> IF Len(items) > 1 THEN <<[Data("MediaGrid", "") EXCEPT !.items = items]>> ELSE items]

\* One tail: the media, else the first quote, else the last link.
PreviewTail(blocks, maxImages) ==
  LET media == MediaItems(blocks)
      quotes == SelectSeq(blocks, IsQuote)
      links == SelectSeq(blocks, LAMBDA b : b.type = "link")
  IN  IF media # <<>> /\ maxImages > 0
      THEN <<MediaBlock(SubSeq(media, 1, IF Len(media) < maxImages THEN Len(media) ELSE maxImages))>>
      ELSE IF quotes # <<>> THEN <<quotes[1]>> ELSE LastOf(links)

ShortenContent(blocks, maxLength, maxImages, maxLines) ==
  LET texts == SelectSeq(blocks, IsTextish)
      size == FoldLeft(LAMBDA n, b : n + Chars(b.lines), 0, texts)
      height == FoldLeft(LAMBDA n, b : n + LineCount(b.lines), 0, texts)
  IN  IF ~HasTail(blocks) /\ size <= maxLength /\ height <= maxLines THEN <<>>
      ELSE PreviewText(blocks, TextBudget(blocks, maxLength), maxLines) \o PreviewTail(blocks, maxImages)

-----------------------------------------------------------------------------
(* serialize_content_data and serialize_content_block.                        *)
MediaRow(d) ==
  IF d.variant = "Image"
  THEN Row("ImageData", Written(d, {"url"}, {"alt", "dim"}), <<>>)
  ELSE Row("VideoData", Written(d, {"url"}, {"dim"}) \cup When(d.alt # <<>>, {"thumbnail"}), <<>>)

MediaItemRow(d) ==
  LET field == IF d.variant = "Image" THEN "image" ELSE "video"
  IN  Row("MediaItem", {field}, [f \in {field} |-> {MediaRow(d)}])

NostrRow(e) ==
  Row("NostrData", Written(e, {"id", "entity", "kind"}, {"author"})
                     \cup When(e.relays # {}, {"relays"}), <<>>)

ContentDataRow(d) ==
  CASE d.variant = "Code" -> Row("CodeData", {"code"}, <<>>)
    [] d.variant = "Cashu" -> Row("CashuData", {"token"}, <<>>)
    [] d.variant = "Hashtag" -> Row("HashtagData", {"tag"}, <<>>)
    [] d.variant = "Lightning" -> Row("LightningData", {"invoice"}, <<>>)
    [] d.variant = "Emoji" -> Row("EmojiData", {"shortcode", "url"}, <<>>)
    [] d.variant = "LinkPreview" -> Row("LinkPreviewData", {"url", "title", "description"}, <<>>)
    [] d.variant = "Nostr" -> NostrRow(EntityOf[d.ref])
    [] d.variant = "MediaGrid" ->
         Row("MediaGroupData", {"items"}, [items |-> {MediaItemRow(i) : i \in Rows(d.items)}])
    [] OTHER -> MediaRow(d)

BlockRow(b) ==
  IF b.data = <<>> THEN Row("ContentBlock", {"type_", "text"}, <<>>)
  ELSE LET data == ContentDataRow(b.data[1])
       IN  UnionRow("ContentBlock", {"type_", "text", "data"}, [data |-> {data}], data.table)

BlockRows(blocks) == {BlockRow(b) : b \in Rows(blocks)}
=============================================================================
