--------------------------- MODULE ExecutionGate ---------------------------
(***************************************************************************)
(* The gate in front of a provider: calls that ask for the same data       *)
(* (one single_flight_key, one cache_key) share one fetch.  A call is an   *)
(* enter of ExecutionGate and, if it becomes the owner, the fetch and the  *)
(* publication its caller goes on with.  The row of single_flight_calls    *)
(* and the entry of provider_result_cache are documents of the database;   *)
(* every call goes through a DatasetRepository, whose lock spans the read  *)
(* and the write of a compare-and-set.  Each report request builds a       *)
(* repository of its own, so the lock keeps out the calls of one           *)
(* repository only.                                                        *)
(***************************************************************************)
EXTENDS Integers

CONSTANTS
  Calls,       \* the calls for the data, each with its own owner token
  Repos,       \* the DatasetRepository objects over the database
  Placements,  \* which repository each call uses: a set of functions
  None,        \* no call, no time
  LeaseTTL,    \* lease_ttl_seconds, in ticks
  WaitCap,     \* _SINGLE_FLIGHT_WAIT_CAP_SECONDS, in ticks
  FreshFor,    \* from a write of the cache to fresh_until
  StaleFor,    \* from a write of the cache to stale_until
  OrphanLeases, \* until when the lease of an owner of before may last
  MaxNow       \* bound on the clock (ticks go on beyond it for waiters only)

ASSUME CallsAssumption == None \notin Calls \cup Nat
ASSUME PlacementAssumption == Placements \subseteq [Calls -> Repos]
ASSUME TimeAssumption ==
  /\ {LeaseTTL, WaitCap} \subseteq Nat \ {0}
  /\ FreshFor \in Nat /\ StaleFor \in Nat /\ MaxNow \in Nat /\ OrphanLeases \subseteq Nat

VARIABLES
  now,       \* the wall clock
  row,       \* the single-flight row of the key
  cache,     \* the cached result of the key
  repoOf,    \* the repository of each call
  holder,    \* per repository, the call inside a compare-and-set
  pc,        \* where a call is
  asked,     \* the time acquire has taken
  seen,      \* the row as the call has last read it
  until,     \* when a waiter gives up
  outcome,   \* what an owner has to publish
  said       \* what the call has come to

dataVars == <<row, cache>>
callVars == <<pc, asked, seen, until, outcome, said>>
vars == <<now, dataVars, repoOf, holder, callVars>>

-----------------------------------------------------------------------------
(* The documents. *)

Published == {"published_success", "published_error"}

\* updated: when the result was published (updated_at); by: whose fetch it is.
NoRow == [status |-> "absent", owner |-> None, lease |-> 0, version |-> 0,
          by |-> None, updated |-> 0]

Pending(c, version) ==
  [status |-> "pending", owner |-> c, lease |-> asked[c] + LeaseTTL,
   version |-> version, by |-> None, updated |-> 0]

\* What an owner of an earlier process has left: a flight nobody will publish.
Orphans == {[NoRow EXCEPT !.status = "pending", !.version = 1, !.lease = t] :
              t \in OrphanLeases}

NoEntry == [status |-> "miss", by |-> None, fresh |-> 0, stale |-> 0]

(* What an owner publishes: "ready" (rows, or raw data that has no parser),
   "invalid" (rows, and gaps of reason invalid_request), "short" (rows, and
   fields, dates or a granularity missing), "empty" (the provider has no data),
   "failed" (anything else), "refused" (the gate let no fetch happen). *)
Outcomes == {"ready", "invalid", "short", "empty", "failed"}

PublishedAs(o) == IF o = "ready" THEN "published_success" ELSE "published_error"

CachedAs(o) ==
  CASE o \in {"ready", "invalid"} -> "remote_success"
    [] o = "empty" -> "cached_empty"
    [] OTHER -> "miss"

\* state of ProviderResultCache.get.
Lookup ==
  CASE cache.status = "miss" -> "miss"
    [] now <= cache.fresh -> cache.status
    [] cache.fresh < now /\ now <= cache.stale -> "stale"
    [] OTHER -> "expired"

\* _single_flight_wait_budget_seconds: the deadline, if there is one, leaves a
\* waiter anything up to the cap.
WaitBudgets == 0 .. WaitCap

-----------------------------------------------------------------------------
(* A call's own state. *)

Unsaid == [kind |-> "none", by |-> None, lease |-> 0, updated |-> 0]

Said(kind, by) == [Unsaid EXCEPT !.kind = kind, !.by = by]

\* GateDecision of a result another call has published.
Shared(r) ==
  [kind |-> "shared_result", by |-> r.by, lease |-> r.lease, updated |-> r.updated]

Goto(c, from, to) == pc[c] = from /\ pc' = [pc EXCEPT ![c] = to]

\* The call ends with an answer.
End(c, from, answer) ==
  /\ Goto(c, from, "done")
  /\ said' = [said EXCEPT ![c] = answer]

Free(c) == holder[repoOf[c]] = None
Lock(c) == Free(c) /\ holder' = [holder EXCEPT ![repoOf[c]] = c]
Unlock(c) == holder' = [holder EXCEPT ![repoOf[c]] = None]

Init ==
  /\ now = 0 /\ row \in {NoRow} \cup Orphans /\ cache = NoEntry
  /\ repoOf \in Placements
  /\ holder = [r \in Repos |-> None]
  /\ pc = [c \in Calls |-> "idle"]
  /\ asked = [c \in Calls |-> 0]
  /\ seen = [c \in Calls |-> NoRow]
  /\ until = [c \in Calls |-> None]
  /\ outcome = [c \in Calls |-> "none"]
  /\ said = [c \in Calls |-> Unsaid]

-----------------------------------------------------------------------------
(* enter: the cache first. *)

\* A call may come at any time up to the bound.
Arrive(c) == pc[c] = "idle" /\ now <= MaxNow /\ Free(c)

CacheHit(c) ==
  /\ Arrive(c)
  /\ \/ Lookup = "remote_success" /\ End(c, "idle", Said("cache_hit", cache.by))
     \/ Lookup = "cached_empty" /\ End(c, "idle", Said("cached_empty", cache.by))
  /\ UNCHANGED <<now, dataVars, repoOf, holder, asked, seen, until, outcome>>

\* Nothing there, a stale entry, or a batch that ignores the cache.
CacheMiss(c) ==
  /\ Arrive(c)
  /\ Lookup # "expired"
  /\ Goto(c, "idle", "cooldown")
  /\ UNCHANGED <<now, dataVars, repoOf, holder, asked, seen, until, outcome, said>>

\* An entry that is too old, or whose datasets cannot be read, is to be deleted.
CacheUnusable(c) ==
  /\ Arrive(c)
  /\ Lookup = "expired" \/ cache.status = "remote_success"
  /\ Goto(c, "idle", "evict")
  /\ UNCHANGED <<now, dataVars, repoOf, holder, asked, seen, until, outcome, said>>

\* The delete does not look at the entry again.
Evict(c) ==
  /\ Free(c)
  /\ Goto(c, "evict", "cooldown")
  /\ cache' = NoEntry
  /\ UNCHANGED <<now, row, repoOf, holder, asked, seen, until, outcome, said>>

\* check_cooldown allows the call, at once or after a sleep; acquire takes the time.
CooldownOver(c) ==
  /\ Free(c)
  /\ Goto(c, "cooldown", "insert")
  /\ asked' = [asked EXCEPT ![c] = now]
  /\ UNCHANGED <<now, dataVars, repoOf, holder, seen, until, outcome, said>>

CooldownSkip(c) ==
  /\ Free(c)
  /\ End(c, "cooldown", Said("cooldown_skipped", None))
  /\ UNCHANGED <<now, dataVars, repoOf, holder, asked, seen, until, outcome>>

-----------------------------------------------------------------------------
(* SingleFlight.acquire. *)

\* try_insert_single_flight_call: the unique index decides.
Insert(c) ==
  /\ Free(c)
  /\ \/ /\ row.status = "absent"
        /\ row' = Pending(c, 1)
        /\ Goto(c, "insert", "gate")
     \/ /\ row.status # "absent"
        /\ Goto(c, "insert", "read")
        /\ UNCHANGED row
  /\ UNCHANGED <<now, cache, repoOf, holder, asked, seen, until, outcome, said>>

InLeaseIfPending(c) == row.status \in Published \/ row.lease > asked[c]

InLease(c) == row.lease > asked[c]

ReadShared(c) ==
  /\ Free(c)
  /\ row.status \in Published /\ InLease(c)
  /\ End(c, "read", Shared(row))
  /\ UNCHANGED <<now, dataVars, repoOf, holder, asked, seen, until, outcome>>

ReadPending(c) ==
  /\ Free(c)
  /\ row.status = "pending" /\ InLease(c)
  /\ Goto(c, "read", "wait")
  /\ UNCHANGED <<now, dataVars, repoOf, holder, asked, seen, until, outcome, said>>

ReadExpired(c) ==
  /\ Free(c)
  /\ ~InLease(c)
  /\ Goto(c, "read", "takeover")
  /\ seen' = [seen EXCEPT ![c] = row]
  /\ UNCHANGED <<now, dataVars, repoOf, holder, asked, until, outcome, said>>

SameRowUnread(c) == row.status # "absent"

SameRow(c) == row.owner = seen[c].owner /\ row.version = seen[c].version

\* cas_takeover_expired_single_flight: read and compare, then replace.
TakeoverCompare(c) ==
  /\ SameRow(c) /\ Lock(c)
  /\ Goto(c, "takeover", "takeover_set")
  /\ UNCHANGED <<now, dataVars, repoOf, asked, seen, until, outcome, said>>

TakeoverLost(c) ==
  /\ ~SameRow(c) /\ Free(c)
  /\ Goto(c, "takeover", "wait")
  /\ seen' = [seen EXCEPT ![c] = NoRow]
  /\ UNCHANGED <<now, dataVars, repoOf, holder, asked, until, outcome, said>>

TakeoverSet(c) ==
  /\ Goto(c, "takeover_set", "gate")
  /\ row' = Pending(c, seen[c].version + 1)
  /\ seen' = [seen EXCEPT ![c] = NoRow]
  /\ Unlock(c)
  /\ UNCHANGED <<now, cache, repoOf, asked, until, outcome, said>>

-----------------------------------------------------------------------------
(* A waiter. *)

NoTimeToWait(c) ==
  /\ 0 \in WaitBudgets
  /\ End(c, "wait", Said("rate_limited", None))
  /\ UNCHANGED <<now, dataVars, repoOf, holder, asked, seen, until, outcome>>

Wait(c) ==
  /\ Goto(c, "wait", "polling")
  /\ \E b \in WaitBudgets \ {0} : until' = [until EXCEPT ![c] = now + b]
  /\ UNCHANGED <<now, dataVars, repoOf, holder, asked, seen, outcome, said>>

\* wait: any published result will do.
PollFinds(c) ==
  /\ Free(c)
  /\ row.status \in Published
  /\ End(c, "polling", Shared(row))
  /\ until' = [until EXCEPT ![c] = None]
  /\ UNCHANGED <<now, dataVars, repoOf, holder, asked, seen, outcome>>

PollAgain(c) == pc[c] = "polling" /\ Free(c) /\ UNCHANGED vars

PollTimesOut(c) ==
  /\ Free(c)
  /\ row.status \notin Published
  /\ pc[c] = "polling" /\ now >= until[c]
  /\ End(c, "polling", Said("rate_limited", None))
  /\ until' = [until EXCEPT ![c] = None]
  /\ UNCHANGED <<now, dataVars, repoOf, holder, asked, seen, outcome>>

-----------------------------------------------------------------------------
(* An owner. *)

\* The source may be called: the start time has come and the quota is reserved.
Proceed(c) ==
  /\ Goto(c, "gate", "fetch")
  /\ UNCHANGED <<now, dataVars, repoOf, holder, asked, seen, until, outcome, said>>

RefuseSilently(c) ==
  /\ End(c, "gate", Said("rate_limited", None))
  /\ UNCHANGED <<now, dataVars, repoOf, holder, asked, seen, until, outcome>>

\* Skipped by the scheduler, due after the deadline, cooling down or out of
\* quota: the failure is published.
Refuse(c) ==
  /\ Goto(c, "gate", "publish")
  /\ outcome' = [outcome EXCEPT ![c] = "refused"]
  /\ UNCHANGED <<now, dataVars, repoOf, holder, asked, seen, until, said>>

\* The fetch, once more after a rate limit that allows it, and the ingest.
Fetch(c) ==
  /\ Goto(c, "fetch", "publish")
  /\ outcome' \in {[outcome EXCEPT ![c] = o] : o \in Outcomes}
  /\ UNCHANGED <<now, dataVars, repoOf, holder, asked, seen, until, said>>

\* publish reads the row for its version; rows are never deleted.
PublishRead(c) ==
  /\ Free(c)
  /\ Goto(c, "publish", "compare")
  /\ seen' = [seen EXCEPT ![c] = row]
  /\ UNCHANGED <<now, dataVars, repoOf, holder, asked, until, outcome, said>>

MayPublishIfSeen(c) == row.version = seen[c].version /\ row.status = "pending"

MayPublish(c) ==
  row.owner = c /\ row.version = seen[c].version /\ row.status = "pending"

\* cas_publish_single_flight_if_owner: read and compare, then replace.
PublishCompare(c) ==
  /\ MayPublish(c) /\ Lock(c)
  /\ Goto(c, "compare", "publish_set")
  /\ seen' = [seen EXCEPT ![c] = row]
  /\ UNCHANGED <<now, dataVars, repoOf, asked, until, outcome, said>>

\* What the caller of a call that was the owner gets.
OwnAnswer(c) == IF outcome[c] = "refused" THEN "rate_limited" ELSE "owner"

PublishLostUnnoticed(c) ==
  /\ ~MayPublish(c) /\ Free(c)
  /\ Goto(c, "compare", "cache")
  /\ seen' = [seen EXCEPT ![c] = NoRow]
  /\ UNCHANGED <<now, dataVars, repoOf, holder, asked, until, outcome, said>>

\* The result is not published, and not cached; the caller has it all the same.
PublishLost(c) ==
  /\ ~MayPublish(c) /\ Free(c)
  /\ End(c, "compare", Said(OwnAnswer(c), None))
  /\ outcome' = [outcome EXCEPT ![c] = "none"]
  /\ seen' = [seen EXCEPT ![c] = NoRow]
  /\ UNCHANGED <<now, dataVars, repoOf, holder, asked, until>>

PublishSet(c) ==
  /\ Goto(c, "publish_set", IF outcome[c] = "refused" THEN "done" ELSE "cache")
  /\ row' = [seen[c] EXCEPT !.status = PublishedAs(outcome[c]), !.by = c,
                            !.version = @ + 1, !.updated = now]
  /\ said' = [said EXCEPT ![c] = Said(OwnAnswer(c), c)]
  /\ seen' = [seen EXCEPT ![c] = NoRow]
  /\ Unlock(c)
  /\ UNCHANGED <<now, cache, repoOf, asked, until, outcome>>

\* publish_shared_result after a publish that was accepted.
CacheResult(c) ==
  /\ Free(c)
  /\ Goto(c, "cache", "done")
  /\ cache' = IF CachedAs(outcome[c]) = "miss" THEN cache
              ELSE [status |-> CachedAs(outcome[c]), by |-> c,
                    fresh |-> now + FreshFor, stale |-> now + StaleFor]
  /\ outcome' = [outcome EXCEPT ![c] = "none"]
  /\ UNCHANGED <<now, row, repoOf, holder, asked, seen, until, said>>

-----------------------------------------------------------------------------
(* The process of an owner stops, or an exception ends its call: nobody
   publishes for it, and its repository is unlocked.  A call that owns nothing
   and stops is one that just never goes on. *)
Owning == {"gate", "fetch", "publish", "compare", "publish_set", "cache"}

Stop(c) ==
  /\ pc[c] \in Owning
  /\ pc' = [pc EXCEPT ![c] = "dead"]
  /\ holder' = [r \in Repos |-> IF holder[r] = c THEN None ELSE holder[r]]
  /\ seen' = [seen EXCEPT ![c] = NoRow]
  /\ outcome' = [outcome EXCEPT ![c] = "none"]
  /\ UNCHANGED <<now, dataVars, repoOf, asked, until, said>>

Tick ==
  /\ now < MaxNow \/ \E c \in Calls : pc[c] = "polling" /\ now < until[c]
  /\ now' = now + 1
  /\ UNCHANGED <<dataVars, repoOf, holder, callVars>>

\* A call that comes.
Enter(c) == CacheHit(c) \/ CacheMiss(c) \/ CacheUnusable(c)

LookupStep(c) == Evict(c) \/ CooldownOver(c) \/ CooldownSkip(c)

AcquireStep(c) == Insert(c) \/ ReadShared(c) \/ ReadPending(c) \/ ReadExpired(c)
                  \/ TakeoverCompare(c) \/ TakeoverLost(c) \/ TakeoverSet(c)

WaiterStep(c) == NoTimeToWait(c) \/ Wait(c) \/ PollFinds(c) \/ PollTimesOut(c)

PublishStep(c) == PublishRead(c) \/ PublishCompare(c) \/ PublishLost(c)
                  \/ PublishSet(c) \/ CacheResult(c)

GateStep(c) == Proceed(c) \/ Refuse(c)

Step(c) == LookupStep(c) \/ AcquireStep(c) \/ WaiterStep(c) \/ GateStep(c) \/ PublishStep(c)

\* No call is under way, and the clock has come to its bound.
Finished ==
  /\ \A c \in Calls : pc[c] \in {"idle", "done", "dead"}
  /\ now >= MaxNow
  /\ UNCHANGED vars

Next ==
  \/ \E c \in Calls : Enter(c) \/ Step(c) \/ Fetch(c) \/ Stop(c)
  \/ Tick
  \/ Finished

Spec == Init /\ [][Next]_vars

\* A provider may never answer, and nobody has to call; the rest goes on.
FairSpec == Spec /\ WF_vars(Tick) /\ \A c \in Calls : WF_vars(Step(c))

-----------------------------------------------------------------------------
(* Properties. *)

Stages == {"idle", "evict", "cooldown", "insert", "read", "takeover",
           "takeover_set", "wait", "polling", "gate", "fetch", "publish",
           "compare", "publish_set", "cache", "done", "dead"}

Row == [status : {"absent", "pending"} \cup Published, owner : Calls \cup {None},
        lease : Nat, version : Nat, by : Calls \cup {None}, updated : Nat]

Answers == {"none", "cache_hit", "cached_empty", "cooldown_skipped",
            "rate_limited", "shared_result", "owner"}

TypeOK ==
  /\ now \in Nat
  /\ row \in Row
  /\ cache \in [status : {"miss", "remote_success", "cached_empty"},
                by : Calls \cup {None}, fresh : Nat, stale : Nat]
  /\ repoOf \in [Calls -> Repos]
  /\ holder \in [Repos -> Calls \cup {None}]
  /\ pc \in [Calls -> Stages]
  /\ asked \in [Calls -> Nat]
  /\ seen \in [Calls -> Row]
  /\ until \in [Calls -> Nat \cup {None}]
  /\ outcome \in [Calls -> Outcomes \cup {"none", "refused"}]
  /\ said \in [Calls -> [kind : Answers, by : Calls \cup {None}, lease : Nat, updated : Nat]]

\* A call that may go to the source, or is there.
GoesOut(c) == pc[c] \in {"gate", "fetch"}

LeaseLive(c) == now < asked[c] + LeaseTTL

OneRepository == \A c, d \in Calls : repoOf[c] = repoOf[d]

Exclusive ==
  \A c, d \in Calls :
    GoesOut(c) /\ LeaseLive(c) /\ GoesOut(d) /\ LeaseLive(d) => c = d

\* Calls that share a repository share one fetch: of two owners at most one
\* has a lease that has not run out (single_flight.py acquire).
OneLiveOwner == OneRepository => Exclusive

\* Only one of the calls for the same data goes out at a time, as long as its
\* lease lasts, whichever repositories the calls use.
OneOwnerGoesOut == Exclusive

\* A flight is not taken from its owner before its lease has run out, and its
\* result is the owner's own: neither a takeover nor a late publish of the
\* owner before interferes (repository.py compare-and-set).
LiveFlightKept ==
  [][OneRepository /\ row.status = "pending"
     => \/ row'.owner = row.owner /\ row'.by \in {None, row.owner}
        \/ row.lease <= now]_row

\* A call that ends, by whatever path, leaves no flight pending that only it
\* could publish; the others would wait for it until the lease runs out.
NoFlightLeft ==
  \A c \in Calls : pc[c] = "done" => ~(row.status = "pending" /\ row.owner = c)

\* What the cache holds, and what a call is given of another, its owner has been
\* able to publish: the result of an owner that came too late is never handed on
\* (gate.py publish_shared_result).
OnlyPublishedIsServed ==
  \A d \in Calls :
    cache.by = d \/ (\E c \in Calls : said[c].by = d) => said[d].by = d

\* A shared result was published after the call asked, or under a lease that
\* was live when it asked: an old flight does not answer a new call.
SharedIsRecent ==
  \A c \in Calls :
    said[c].kind = "shared_result" =>
      said[c].updated >= asked[c] \/ said[c].lease > asked[c]

\* A call that waits for another gets an answer, even if the owner dies or its
\* provider never answers.
WaitersEnd ==
  \A c \in Calls : pc[c] \in {"wait", "polling"} ~> pc[c] \in {"done", "dead"}

=============================================================================
