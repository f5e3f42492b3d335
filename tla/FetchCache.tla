----------------------------- MODULE FetchCache -----------------------------
(***************************************************************************)
(* The web app's data cache (web/src/lib/fetchCache.ts): one entry per     *)
(* URL, shared by every page.  A read returns a fresh entry at once, joins *)
(* a request already under way, or starts one; a mutation marks entries    *)
(* stale and starts a request for those that have none.                    *)
(* The pages here never force a read, so an entry has one request at a     *)
(* time.  e.error is left out: nothing a page does depends on it; prewarm, *)
(* which only reads early, is left out too.                                *)
(***************************************************************************)
EXTENDS Naturals, FiniteSets

CONSTANTS
  Keys,          \* the URLs
  Nothing,       \* undefined
  MaxFails       \* how many requests of a page may fail

VARIABLES
  known,    \* URLs with an entry
  data,     \* Entry.data
  fresh,    \* whether Entry.ts is within the time to live
  request,  \* Entry.inflight: none, sent, or answered by the server
  reply,    \* the answer on its way
  fails     \* requests that have failed

cache == <<known, data, fresh, request, reply>>

(* What a page of the URLs K expects of the cache.                          *)
CacheTypeOK(K, Values) ==
  /\ known \subseteq Keys
  /\ \A k \in K : {data[k], reply[k]} \subseteq Values \cup {Nothing}
  /\ fresh \in [Keys -> BOOLEAN]
  /\ request \in [Keys -> {"none", "sent", "answered"}]
  /\ fails \in 0 .. MaxFails

CacheInit ==
  /\ known = {}
  /\ data = [k \in Keys |-> Nothing] /\ reply = [k \in Keys |-> Nothing]
  /\ fresh = [k \in Keys |-> FALSE]
  /\ request = [k \in Keys |-> "none"]
  /\ fails = 0

(* Seeded fault: an entry is good for ever.                                 *)
Hit_AnyAge(k) == data[k] # Nothing

(* Whether a read is answered from the entry.                               *)
Hit(k) == data[k] # Nothing /\ fresh[k]

(* cachedJson(k): a miss that finds no request under way starts one.        *)
Ask(k) ==
  /\ known' = known \cup {k}
  /\ request' = [request EXCEPT ![k] = IF ~Hit(k) /\ @ = "none" THEN "sent" ELSE @]

Read(k) == Ask(k) /\ UNCHANGED <<data, fresh, reply, fails>>

(* invalidateCache of the URLs K.                                           *)
Invalidate(K) ==
  /\ fresh' = [k \in Keys |-> fresh[k] /\ k \notin K]
  /\ request' = [k \in Keys |->
       IF k \in K \cap known /\ request[k] = "none" THEN "sent" ELSE request[k]]
  /\ UNCHANGED <<known, data, reply, fails>>

(* The server computes the answer v.                                        *)
Answer(k, v) ==
  /\ request[k] = "sent"
  /\ request' = [request EXCEPT ![k] = "answered"] /\ reply' = [reply EXCEPT ![k] = v]
  /\ UNCHANGED <<known, data, fresh, fails>>

(* The request is over, whether it succeeded or not.                        *)
Settle(k) == request' = [request EXCEPT ![k] = "none"]

Arrive(k) ==
  /\ request[k] = "answered" /\ Settle(k)
  /\ data' = [data EXCEPT ![k] = reply[k]]
  /\ reply' = [reply EXCEPT ![k] = Nothing]
  /\ fresh' = [fresh EXCEPT ![k] = TRUE]
  /\ UNCHANGED <<known, fails>>

(* The server does not answer, or answers with an error.                    *)
Refused(k) ==
  /\ request[k] # "none" /\ Settle(k)
  /\ reply' = [reply EXCEPT ![k] = Nothing]
  /\ UNCHANGED <<known, data, fresh>>

Fail(k) == fails < MaxFails /\ Refused(k) /\ fails' = fails + 1

Expire(k) ==
  /\ fresh[k] /\ fresh' = [fresh EXCEPT ![k] = FALSE]
  /\ UNCHANGED <<known, data, request, reply, fails>>
=============================================================================
