------------------------------- MODULE Article --------------------------------
(* crates/core/src/parser/kind30023.rs: a long-form article. The markdown     *)
(* library turns the content into a well-nested sequence of events, which     *)
(* parse_article_markdown folds into a tree with one stack of open blocks and *)
(* one of open inlines.                                                       *)
(*                                                                            *)
(* A markdown event is [e, t, s]: e is "open", "close", "text", "code",       *)
(* "break", "rule" or "html", t the element it opens or closes, s its text.   *)
EXTENDS SocialKinds

CONSTANTS
  MarkdownOf,  \* pulldown_cmark::Parser::new_ext (external)
  InlinesOf    \* INLINE_RE over a text: a sequence of [t, s], t in Text, NostrEntity, Hashtag

BlockElements == {"Paragraph", "Heading", "Blockquote", "List", "ListItem", "CodeBlock"}
InlineElements == {"Emphasis", "Strong", "Link", "Image"}

\* article_block and article_inline.
ArticleNode(type, text) == [type |-> type, text |-> text, inlines |-> <<>>, children |-> <<>>]

ReplaceLast(stack, node) == Append(Front(stack), node)

\* append_block and append_inline; an inline with nothing open around it is dropped.
AppendBlock(st, node) ==
  IF st.blocks = <<>> THEN [st EXCEPT !.out = Append(@, node)]
  ELSE [st EXCEPT !.blocks = ReplaceLast(@, [Last(@) EXCEPT !.children = Append(@, node)])]

AppendInlineRoot(st, node) ==
  IF st.blocks = <<>> THEN st
  ELSE [st EXCEPT !.blocks = ReplaceLast(@, [Last(@) EXCEPT !.inlines = Append(@, node)])]

AppendInline(st, node) ==
  IF st.inlines # <<>>
  THEN [st EXCEPT !.inlines = ReplaceLast(@, [Last(@) EXCEPT !.children = Append(@, node)])]
  ELSE AppendInlineRoot(st, node)

AppendText(st, s) ==
  IF st.blocks # <<>> /\ Last(st.blocks).type = "CodeBlock"
  THEN [st EXCEPT !.blocks = ReplaceLast(@, [Last(@) EXCEPT !.text = Append(@, s)])]
  ELSE FoldLeft(LAMBDA acc, i : AppendInline(acc, ArticleNode(i.t, <<i.s>>)), st, InlinesOf[s])

\* Elements of no other kind (tables, footnotes, HTML blocks) open and close nothing.
MarkdownStep(st, m) ==
  CASE m.e = "open" /\ m.t \in BlockElements ->
         [st EXCEPT !.blocks = Append(@, ArticleNode(m.t, <<>>))]
    [] m.e = "open" /\ m.t \in InlineElements ->
         [st EXCEPT !.inlines = Append(@, ArticleNode(m.t, <<>>))]
    [] m.e = "close" /\ m.t \in BlockElements /\ st.blocks # <<>> ->
         AppendBlock([st EXCEPT !.blocks = Front(@)], Last(st.blocks))
    [] m.e = "close" /\ m.t \in InlineElements /\ st.inlines # <<>> ->
         AppendInline([st EXCEPT !.inlines = Front(@)], Last(st.inlines))
    [] m.e = "text" -> AppendText(st, m.s)
    [] m.e \in {"code", "html"} -> AppendInline(st, ArticleNode(m.e, <<m.s>>))
    [] m.e = "break" -> AppendInline(st, ArticleNode("SoftBreak", <<>>))
    [] m.e = "rule" -> AppendBlock(st, ArticleNode("ThematicBreak", <<>>))
    [] OTHER -> st

\* What the library leaves open is closed at the end, the inlines into the innermost block.
CloseAll(st) ==
  LET inner == FoldLeft(LAMBDA acc, i : AppendInlineRoot(acc, i), st, Reverse(st.inlines))
      Close(acc, i) == AppendBlock([acc EXCEPT !.blocks = Front(@)], Last(acc.blocks))
  IN  FoldLeft(Close, inner, inner.blocks).out

ParseArticle(content) ==
  IF content = "" THEN <<>>
  ELSE CloseAll(FoldLeft(MarkdownStep, [out |-> <<>>, blocks |-> <<>>, inlines |-> <<>>], MarkdownOf[content]))

Parse30023(event) ==
  LET Value(key) == TagValue(event.tags, key)
  IN  Ok([slug |-> Value("d"), title |-> Value("title"), summary |-> Value("summary"), image |-> Value("image"),
          canonical |-> Value("canonical"), topics |-> TagValues(event.tags, "t"),
          published_at |-> Through(NumberOf, Value("published_at")), naddr |-> Value("d"),
          article_blocks |-> ParseArticle(event.content)], <<>>, {})

-----------------------------------------------------------------------------
RECURSIVE InlineRow(_)
InlineRow(n) ==
  Row("ArticleInline",
      Written(n, {"type_"}, {"text", "children"}) \cup When(n.type \in {"Link", "Image"}, {"url"})
        \cup When(n.type = "Hashtag", {"tag"}) \cup When(n.type = "NostrEntity", {"entity"}),
      Kids([children |-> {InlineRow(c) : c \in Rows(n.children)},
            entity |-> When(n.type = "NostrEntity", {Row("ArticleEntity", {"entity", "kind"}, <<>>)})]))

RECURSIVE ArticleRow(_)
ArticleRow(n) ==
  Row("ArticleBlock",
      Written(n, {"type_", "depth", "ordered", "start"}, {"text", "inlines", "children"}),
      Kids([inlines |-> {InlineRow(i) : i \in Rows(n.inlines)},
            children |-> {ArticleRow(c) : c \in Rows(n.children)}]))

Build30023(p) ==
  Row("Kind30023Parsed",
      Written(p, {"content", "published_at"},
              {"slug", "title", "summary", "image", "canonical", "topics", "naddr", "article_blocks"}),
      Kids([article_blocks |-> {ArticleRow(b) : b \in Rows(p.article_blocks)}]))
=============================================================================
