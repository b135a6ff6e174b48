--------------------------- MODULE MCCacheWorker ---------------------------
EXTENDS CacheWorker, TLC

Request(noCache, cacheFirst, cacheOnly, meshOnly, keep) ==
    [noCache |-> noCache, cacheFirst |-> cacheFirst, cacheOnly |-> cacheOnly,
     meshOnly |-> meshOnly, keep |-> keep]

\* A live and a one-shot mesh request, and a cache-first one.
MeshRequests ==
    {Request(FALSE, FALSE, FALSE, TRUE, TRUE), Request(FALSE, FALSE, FALSE, TRUE, FALSE),
     Request(FALSE, TRUE, FALSE, FALSE, TRUE)}

\* cacheOnly alone.
LocalRequests == {Request(FALSE, FALSE, TRUE, FALSE, FALSE)}

Symmetry == Permutations(Ids) \union Permutations(Subs)
=============================================================================
