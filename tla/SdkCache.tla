------------------------------ MODULE SdkCache ------------------------------
(***************************************************************************)
(* The SDK's bounded cache of file contents (utils/fileCache.ts): least    *)
(* recently used entries go, by number and by bytes.                       *)
(***************************************************************************)
EXTENDS Naturals, Sequences, FiniteSets, SequencesExt, Loops

CONSTANTS
    Paths,              \* files
    Sizes,              \* sizes of their contents
    MaxEntries, MaxBytes,   \* the limits
    MaxCacheCalls       \* bound: calls
ASSUME CacheAssumption ==
    /\ Sizes \subseteq Nat /\ MaxCacheCalls \in Nat
    /\ MaxEntries \in Nat \ {0} /\ MaxBytes \in Nat

VARIABLES
    fileCache,      \* entries, least recently used first: sequence of <<path, size>>
    bytes,          \* currentSizeBytes
    cacheCalls

cacheVars == <<fileCache, bytes, cacheCalls>>

CacheTypeOK ==
    /\ \A i \in DOMAIN fileCache : fileCache[i] \in Paths \X Sizes
    /\ bytes \in Nat /\ cacheCalls \in 0 .. MaxCacheCalls

CacheInit == fileCache = <<>> /\ bytes = 0 /\ cacheCalls = 0

CacheCall == cacheCalls < MaxCacheCalls /\ cacheCalls' = cacheCalls + 1
At(p) == {i \in DOMAIN fileCache : fileCache[i][1] = p}
WithoutPath(p) == IF At(p) = {} THEN fileCache ELSE RemoveAt(fileCache, CHOOSE i \in At(p) : TRUE)
SizeOf(p) == IF At(p) = {} THEN 0 ELSE LET i == CHOOSE i \in At(p) : TRUE IN fileCache[i][2]

Total(s) == Loop([p \in Nat \X (Paths \X Sizes) |-> p[1] + p[2][2]], 0, s)

\* get: the entry is the most recently used.
CacheGet ==
    /\ CacheCall
    /\ \E p \in Paths : At(p) # {} /\ fileCache' = Append(WithoutPath(p), <<p, SizeOf(p)>>)
    /\ UNCHANGED bytes

\* Variant for a mutation check: an entry that is replaced counts on.
CountedOn(p) == bytes

\* The bytes without the path's entry.
BytesWithout(p) == bytes - SizeOf(p)

\* How many entries go, least recently used first, for one of size n.
Evicts(s, held, n) ==
    CHOOSE k \in 0 .. Len(s) :
        LET fits(i) == i = Len(s) \/ (Len(s) - i < MaxEntries /\ held - Total(SubSeq(s, 1, i)) + n <= MaxBytes)
        IN fits(k) /\ \A i \in 0 .. (k - 1) : ~fits(i)

\* set.
CacheSet ==
    /\ CacheCall
    /\ \E p \in Paths, n \in Sizes :
         LET rest == WithoutPath(p)
             k == Evicts(rest, BytesWithout(p), n)
         IN
         /\ fileCache' = Append(SubSeq(rest, k + 1, Len(rest)), <<p, n>>)
         /\ bytes' = BytesWithout(p) - Total(SubSeq(rest, 1, k)) + n

CacheDelete ==
    /\ CacheCall
    /\ \E p \in Paths : At(p) # {} /\ fileCache' = WithoutPath(p) /\ bytes' = BytesWithout(p)

CacheClear ==
    /\ CacheCall /\ fileCache' = <<>> /\ bytes' = 0

CacheNext == CacheGet \/ CacheSet \/ CacheDelete \/ CacheClear

CacheSpec == CacheInit /\ [][CacheNext]_cacheVars
-----------------------------------------------------------------------------
\* The cache counts its bytes as they are, and keeps within its limits unless
\* one entry alone is above them.
CacheKeepsItsLimits ==
    /\ bytes = Total(fileCache)
    /\ Len(fileCache) <= MaxEntries /\ (bytes <= MaxBytes \/ Len(fileCache) = 1)
    /\ \A p \in Paths : Cardinality(At(p)) <= 1
=============================================================================
