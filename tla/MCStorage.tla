------------------------------ MODULE MCStorage ------------------------------
EXTENDS PersistentStorage

CONSTANTS n1, art1, art2, del1, delArt, delRival, eph, dm, list, a, b, slug

MCCapacity == [s \in Shards |-> 2]
MCEvent == {n1, art1, art2, del1, delArt, delRival, eph, dm, list}
Ev(k, p, t, tags) == [kind |-> k, author |-> p, created |-> t, size |-> 1, tags |-> tags]

\* A note, two versions of an article, an ephemeral event; the author's deletions
\* of the note and of the article's first version, and a rival's of the note.
MCEventInfo == [e \in MCEvent |->
    CASE e = n1 -> Ev(1, a, 1, {<<"p", b>>})
      [] e = art1 -> Ev(30023, a, 1, {<<"d", slug>>})
      [] e = art2 -> Ev(30023, a, 3, {<<"d", slug>>})
      [] e = del1 -> Ev(5, a, 2, {<<"e", n1>>})
      [] e = delArt -> Ev(5, a, 2, {<<"a", <<30023, a, slug>>>>})
      [] e = delRival -> Ev(5, b, 3, {<<"e", n1>>})
      [] e = eph -> Ev(20001, b, 2, {<<"e", n1>>, <<"p", a>>})
      [] e = dm -> Ev(4, b, 1, {<<"p", a>>})
      [] e = list -> Ev(10002, a, 1, {})]

\* A first start; an upgrade from a release that kept encrypted events and the
\* relay lists apart; a start after a session of this release.
MCOldDisks ==
    {[shards |-> << >>, kind10002 |-> <<>>, wal |-> <<>>, marker |-> FALSE],
     [shards |-> [kind4 |-> <<dm>>, regular |-> <<n1>>], kind10002 |-> <<list>>, wal |-> <<>>, marker |-> FALSE],
     [shards |-> [regular |-> <<del1, n1>>, addressable |-> <<art1, art2>>], kind10002 |-> <<>>,
      wal |-> <<del1, delArt>>, marker |-> TRUE]}

F(fields, limit) == [fields |-> fields, since |-> 0, until |-> 9, limit |-> limit]
MCFilters ==
    {F(<< >>, 9), F(<< >>, 2), F([author |-> {a}], 1), F([id |-> {n1, eph}], 9),
     F([kind |-> {30023}, d |-> {slug}], 1), F([kind |-> {5, 20001}, e |-> {n1}], 9),
     F([kind |-> {1}, p |-> {a}], 9),
     [fields |-> [author |-> {a, b}], since |-> 2, until |-> 2, limit |-> 9]}
==============================================================================
