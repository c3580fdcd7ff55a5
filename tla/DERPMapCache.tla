---------------------------- MODULE DERPMapCache ----------------------------
(***************************************************************************)
(* The cache of DERP maps on disk (derpMapCache in cmd/tailcat/tailcat.go) *)
(* as fetchDERPMap (tailcat.go) uses it: a file for the map, whose         *)
(* modification time is when it was stored, and one for the ETag that the  *)
(* map server gave with it.  Processes come and go, may be killed at any   *)
(* step, and are not kept apart.  The files are found by the URL alone,    *)
(* while the server may have another map for every mode (the Tailcat-Mode  *)
(* header) and address, publish new ones and take them back: it answers    *)
(* with any of them.  A version stands for the contents of a map and for   *)
(* its ETag.  A write truncates a file first; what was cut short does not  *)
(* decode, and is no ETag the server knows.                                *)
(***************************************************************************)
EXTENDS Naturals

CONSTANTS
  Procs,       \* processes that fetch the map
  MaxVersion   \* how many maps the server has

ASSUME CacheAssumption == MaxVersion \in Nat \ {0}

VARIABLES
  data,      \* the map in the file; 0 when there is none, Cut when it does not decode
  fresh,     \* its modification time is less than derpMapCacheMaxAge ago
  etag,      \* the ETag file, 0 when there is none or it was cut
  doing,     \* p |-> where fetchDERPMap of process p is, "idle" when it has none
  young,     \* the processes whose Get found a fresh file
  held,      \* p |-> the map it has: cachedData, or the body of a response
  tag,       \* p |-> its ETag: cachedETag, or the header of a response
  latest,    \* history: the map of the server's last answer
  past,      \* history: those of the answers before it
  back,      \* history: the server answered with a map after it gave another one
  torn,      \* history: a process ended between the two files
  mixed      \* history: a process was in fetchDERPMap while another stored

files == <<data, fresh, etag>>
given == <<latest, past, back>>
cacheVars == <<files, doing, young, held, tag, given, torn, mixed>>

Cut == MaxVersion + 1
Maps == 1 .. MaxVersion
Versions == 0 .. MaxVersion
Writing == {"data", "cut", "tag"}

CacheTypeOK ==
  /\ data \in Versions \cup {Cut} /\ etag \in Versions
  /\ latest \in Versions /\ past \subseteq Maps
  /\ fresh \in BOOLEAN /\ back \in BOOLEAN /\ torn \in BOOLEAN /\ mixed \in BOOLEAN /\ young \in SUBSET Procs
  /\ doing \in [Procs -> {"idle", "read", "etag", "fetch", "put", "data", "cut", "tag"}]
  /\ held \in [Procs -> Versions \cup {Cut}] /\ tag \in [Procs -> Versions]

CacheInit ==
  /\ data = 0 /\ fresh = FALSE /\ etag = 0
  /\ latest = 0 /\ past = {} /\ back = FALSE /\ torn = FALSE /\ mixed = FALSE
  /\ doing = [p \in Procs |-> "idle"] /\ young = {}
  /\ held = [p \in Procs |-> 0] /\ tag = [p \in Procs |-> 0]

To(p, l) == doing' = [doing EXCEPT ![p] = l]

\* fetchDERPMap returns, with a map or an error; or the process is killed, or a
\* call of Put fails, which nobody looks at.
Leave(p) == doing' = [doing EXCEPT ![p] = "idle"] /\ held' = [held EXCEPT ![p] = 0]
            /\ tag' = [tag EXCEPT ![p] = 0] /\ young' = young \ {p}
Kill(p) ==
  /\ doing[p] # "idle" /\ Leave(p) /\ torn' = (torn \/ doing[p] = "cut")
  /\ UNCHANGED <<files, given, mixed>>

-----------------------------------------------------------------------------
\* derpMapCache.Get: the time of the file, its contents, and the ETag.
Stat(p) ==
  /\ doing[p] = "idle" /\ To(p, IF data = 0 THEN "fetch" ELSE "read")
  /\ young' = IF data # 0 /\ fresh THEN young \cup {p} ELSE young
  /\ mixed' = (mixed \/ \E q \in Procs : doing[q] \in Writing)
  /\ UNCHANGED <<files, held, tag, given, torn>>
ReadData(p) ==
  /\ doing[p] = "read" /\ To(p, "etag") /\ held' = [held EXCEPT ![p] = data]
  /\ UNCHANGED <<files, young, tag, given, torn, mixed>>

\* ... and what fetchDERPMap makes of it: a fresh map is returned, an old one
\* kept with its ETag, and one that does not decode forgotten with it.
ReadETag(p) ==
  /\ doing[p] = "etag"
  /\ IF held[p] = Cut THEN To(p, "fetch") /\ held' = [held EXCEPT ![p] = 0] /\ UNCHANGED <<tag, young>>
     ELSE IF p \in young THEN Leave(p)
     ELSE To(p, "fetch") /\ tag' = [tag EXCEPT ![p] = etag] /\ UNCHANGED <<held, young>>
  /\ UNCHANGED <<files, given, torn, mixed>>

\* The request fails, times out, or is not answered with a map: the map at
\* hand is returned, however old, or an error.
FetchFail(p) == doing[p] = "fetch" /\ Leave(p) /\ UNCHANGED <<files, given, torn, mixed>>

\* The server answers with map v.
Answer(v) ==
  /\ latest' = v /\ past' = past \cup ({latest} \ {0, v})
  /\ back' = (back \/ v \in past)

\* 304: the map has the ETag that was sent.  The one at hand is stored again.
NotModified(p) ==
  /\ doing[p] = "fetch" /\ held[p] # 0 /\ tag[p] # 0 /\ Answer(tag[p]) /\ To(p, "put")
  /\ UNCHANGED <<files, young, held, tag, torn, mixed>>

\* 200: another map, with an ETag or without.
Fetched(p) ==
  /\ doing[p] = "fetch" /\ To(p, "put")
  /\ \E v \in Maps \ {tag[p]} : \E t \in {0, v} :
       Answer(v) /\ held' = [held EXCEPT ![p] = v] /\ tag' = [tag EXCEPT ![p] = t]
  /\ UNCHANGED <<files, young, torn, mixed>>

\* derpMapCache.Put: the map first, which makes it fresh ...
Alone(p) == \A q \in Procs \ {p} : doing[q] = "idle"
Mix(p) == mixed' = (mixed \/ ~Alone(p))

\* Mutant: the ETag first.
PutETagFirst(p) ==
  /\ doing[p] = "put" /\ To(p, "data") /\ etag' = tag[p] /\ Mix(p)
  /\ UNCHANGED <<data, fresh, young, held, tag, given, torn>>
PutBegin(p) ==
  /\ doing[p] = "put" /\ To(p, "data") /\ data' = Cut /\ fresh' = TRUE /\ Mix(p)
  /\ UNCHANGED <<etag, young, held, tag, given, torn>>
\* ... its contents, which another writer's may spoil ...
PutData(p) ==
  /\ doing[p] = "data" /\ To(p, "cut") /\ fresh' = TRUE /\ Mix(p)
  /\ data' \in {held[p]} \cup (IF \E q \in Procs \ {p} : doing[q] \in Writing THEN {Cut} ELSE {})
  /\ UNCHANGED <<etag, young, held, tag, given, torn>>
\* ... and then the ETag, or none.
PutCut(p) ==
  /\ doing[p] = "cut" /\ etag' = 0 /\ Mix(p)
  /\ IF tag[p] = 0 THEN Leave(p) ELSE To(p, "tag") /\ UNCHANGED <<young, held, tag>>
  /\ UNCHANGED <<data, fresh, given, torn>>
PutETag(p) ==
  /\ doing[p] = "tag" /\ etag' = tag[p] /\ Mix(p) /\ Leave(p)
  /\ UNCHANGED <<data, fresh, given, torn>>

-----------------------------------------------------------------------------
\* An hour passes.
Age == fresh /\ fresh' = FALSE /\ UNCHANGED <<data, etag, doing, young, held, tag, given, torn, mixed>>

CacheNext ==
  \/ \E p \in Procs :
       \/ Stat(p) \/ ReadData(p) \/ ReadETag(p) \/ FetchFail(p) \/ NotModified(p) \/ Fetched(p)
       \/ PutBegin(p) \/ PutData(p) \/ PutCut(p) \/ PutETag(p) \/ Kill(p)
  \/ Age

CacheSpec == CacheInit /\ [][CacheNext]_cacheVars
-----------------------------------------------------------------------------
\* What is stored, and returned, as the map of an ETag is that map: a server's
\* "not modified" never confirms another one.  The order of the two writes
\* makes this so for processes that do not overlap in one of two cases: none
\* ended between the two files, whatever maps the server has for whom; or
\* some did, and the server never answers with a map again after it gave
\* another one (so no map per mode, and no way back): then the ETag left
\* behind is one that the server has given up.  Outside them it can fail.
RevalidationSound ==
  /\ CacheTypeOK
  /\ ~mixed /\ ~(torn /\ back) =>
       \A p \in Procs : doing[p] \in {"put"} \cup Writing => tag[p] \in {0, held[p]}
=============================================================================
