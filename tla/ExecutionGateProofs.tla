------------------------ MODULE ExecutionGateProofs ------------------------
(***************************************************************************)
(* Proofs about ExecutionGate, for any calls, repositories, leases and     *)
(* cache windows.                                                          *)
(***************************************************************************)
EXTENDS ExecutionGate, TLAPS

-----------------------------------------------------------------------------
(* Types *)

Answer == [kind : Answers, by : Calls \cup {None}, lease : Nat, updated : Nat]

LEMMA NoRowType == NoRow \in Row
BY DEF NoRow, Row, Published

LEMMA PendingType ==
  ASSUME TypeOK, NEW c \in Calls, NEW v \in Nat
  PROVE  Pending(c, v) \in Row
BY TimeAssumption DEF TypeOK, Pending, Row, Published

LEMMA SaidType ==
  ASSUME NEW k \in Answers, NEW c \in Calls \cup {None}
  PROVE  Said(k, c) \in Answer
BY DEF Said, Unsaid, Answer

LEMMA SharedType ==
  ASSUME TypeOK
  PROVE  Shared(row) \in Answer
BY DEF TypeOK, Shared, Row, Answer, Answers

LEMMA OutcomeType ==
  \A o \in Outcomes \cup {"none", "refused"} :
    PublishedAs(o) \in Published /\ CachedAs(o) \in {"miss", "remote_success", "cached_empty"}
BY DEF PublishedAs, CachedAs, Outcomes, Published

LEMMA PublishedRowType ==
  ASSUME NEW r \in Row, NEW s \in Published, NEW c \in Calls, NEW t \in Nat
  PROVE  [r EXCEPT !.status = s, !.by = c, !.version = @ + 1, !.updated = t] \in Row
<1>1. r.version + 1 \in Nat
  BY DEF Row
<1>2. [r EXCEPT !.status = s, !.by = c, !.version = r.version + 1, !.updated = t] \in Row
  BY <1>1 DEF Row
<1> QED
  BY <1>2

LEMMA InitTyped == Init => TypeOK
<1> SUFFICES ASSUME Init PROVE TypeOK
  OBVIOUS
<1>1. row \in Row
  <2>1. ASSUME NEW t \in OrphanLeases
        PROVE  [NoRow EXCEPT !.status = "pending", !.version = 1, !.lease = t] \in Row
    <3>1. t \in Nat
      BY TimeAssumption
    <3> QED
      BY <3>1 DEF NoRow, Row, Published
  <2> QED
    BY <2>1, NoRowType DEF Init, Orphans
<1>2. cache \in [status : {"miss", "remote_success", "cached_empty"},
                 by : Calls \cup {None}, fresh : Nat, stale : Nat]
  BY DEF Init, NoEntry
<1>3. Unsaid \in Answer
  BY DEF Unsaid, Answer, Answers
<1>4. said \in [Calls -> Answer] /\ seen \in [Calls -> Row]
  BY <1>3, NoRowType DEF Init
<1> QED
  BY <1>1, <1>2, <1>4, PlacementAssumption DEF Init, TypeOK, Stages, Answer

LEMMA NextTyped ==
  ASSUME TypeOK, [Next]_vars
  PROVE  TypeOK'
<1> USE DEF TypeOK, Answer
<1>1. ASSUME NEW c \in Calls, Enter(c) \/ LookupStep(c) PROVE TypeOK'
  <2> USE SaidType DEF Goto, End, dataVars, Stages, Answers
  <2>1. CASE CacheHit(c) BY <2>1 DEF CacheHit
  <2>2. CASE CacheMiss(c) BY <2>2 DEF CacheMiss
  <2>3. CASE CacheUnusable(c) BY <2>3 DEF CacheUnusable
  <2>4. CASE Evict(c) BY <2>4 DEF Evict, NoEntry
  <2>5. CASE CooldownOver(c) BY <2>5 DEF CooldownOver
  <2>6. CASE CooldownSkip(c) BY <2>6 DEF CooldownSkip
  <2> QED BY <1>1, <2>1, <2>2, <2>3, <2>4, <2>5, <2>6 DEF Enter, LookupStep
<1>2. ASSUME NEW c \in Calls, AcquireStep(c) PROVE TypeOK'
  <2> USE SaidType, SharedType DEF Goto, End, dataVars, Stages, Answers
  <2>1. CASE Insert(c)
    <3>1. Pending(c, 1) \in Row BY PendingType
    <3> QED BY <2>1, <3>1 DEF Insert
  <2>2. CASE ReadShared(c) BY <2>2 DEF ReadShared
  <2>3. CASE ReadPending(c) BY <2>3 DEF ReadPending
  <2>4. CASE ReadExpired(c) BY <2>4 DEF ReadExpired
  <2>5. CASE TakeoverCompare(c) BY <2>5 DEF TakeoverCompare, Lock
  <2>6. CASE TakeoverLost(c) BY <2>6, NoRowType DEF TakeoverLost
  <2>7. CASE TakeoverSet(c)
    <3>1. seen[c].version + 1 \in Nat BY DEF Row
    <3>2. Pending(c, seen[c].version + 1) \in Row BY <3>1, PendingType
    <3> QED BY <2>7, <3>2, NoRowType DEF TakeoverSet, Unlock
  <2> QED BY <1>2, <2>1, <2>2, <2>3, <2>4, <2>5, <2>6, <2>7 DEF AcquireStep
<1>3. ASSUME NEW c \in Calls, WaiterStep(c) PROVE TypeOK'
  <2> USE SaidType, SharedType DEF Goto, End, dataVars, Stages, Answers
  <2>1. CASE NoTimeToWait(c) BY <2>1 DEF NoTimeToWait
  <2>2. CASE Wait(c) BY <2>2, TimeAssumption DEF Wait, WaitBudgets
  <2>3. CASE PollFinds(c) BY <2>3 DEF PollFinds
  <2>4. CASE PollTimesOut(c) BY <2>4 DEF PollTimesOut
  <2> QED BY <1>3, <2>1, <2>2, <2>3, <2>4 DEF WaiterStep
<1>4. ASSUME NEW c \in Calls, GateStep(c) \/ Fetch(c) PROVE TypeOK'
  <2> USE DEF Goto, dataVars, Stages
  <2>1. CASE Proceed(c) BY <2>1 DEF Proceed
  <2>2. CASE Refuse(c) BY <2>2 DEF Refuse
  <2>3. CASE Fetch(c)
    <3>1. PICK o \in Outcomes : outcome' = [outcome EXCEPT ![c] = o] BY <2>3 DEF Fetch
    <3> QED BY <2>3, <3>1 DEF Fetch
  <2> QED BY <1>4, <2>1, <2>2, <2>3 DEF GateStep
<1>5. ASSUME NEW c \in Calls, PublishStep(c) PROVE TypeOK'
  <2> USE SaidType DEF Goto, End, dataVars, Stages, Answers
  <2>1. CASE PublishRead(c) BY <2>1 DEF PublishRead
  <2>2. CASE PublishCompare(c) BY <2>2 DEF PublishCompare, Lock
  <2>3. CASE PublishLost(c) BY <2>3, NoRowType DEF PublishLost, OwnAnswer
  <2>4. CASE PublishSet(c)
    <3>1. PublishedAs(outcome[c]) \in Published BY OutcomeType
    <3>2. seen[c] \in Row OBVIOUS
    <3>3. [seen[c] EXCEPT !.status = PublishedAs(outcome[c]), !.by = c,
                          !.version = @ + 1, !.updated = now] \in Row
      BY <3>1, <3>2, PublishedRowType
    <3>4. row' \in Row BY <2>4, <3>3 DEF PublishSet
    <3> QED BY <2>4, <3>4, NoRowType DEF PublishSet, Unlock, OwnAnswer
  <2>5. CASE CacheResult(c)
    <3>1. CachedAs(outcome[c]) \in {"miss", "remote_success", "cached_empty"}
      BY OutcomeType
    <3>2. now + FreshFor \in Nat /\ now + StaleFor \in Nat BY TimeAssumption
    <3> QED BY <2>5, <3>1, <3>2 DEF CacheResult
  <2> QED BY <1>5, <2>1, <2>2, <2>3, <2>4, <2>5 DEF PublishStep
<1>6. ASSUME NEW c \in Calls, Stop(c) PROVE TypeOK'
  BY <1>6, NoRowType DEF Stop, dataVars, Stages
<1>7. CASE Tick
  BY <1>7 DEF Tick, dataVars, callVars
<1>8. CASE UNCHANGED vars
  BY <1>8 DEF vars, dataVars, callVars
<1> QED
  BY <1>1, <1>2, <1>3, <1>4, <1>5, <1>6, <1>7, <1>8 DEF Next, Step, Finished

\* Every variable keeps its type.
THEOREM TypeCorrect == Spec => []TypeOK
<1>1. TypeOK /\ [Next]_vars => TypeOK'
  BY NextTyped
<1> QED
  BY InitTyped, <1>1, PTL DEF Spec

-----------------------------------------------------------------------------
(* What is handed on. *)

\* A call has nothing to tell before it ends or publishes, and what the row, the
\* cache and the answers name has been published by the call they name.
Handed ==
  /\ \A c \in Calls : pc[c] \notin {"cache", "done", "dead"} => said[c].by = None
  /\ \A c \in Calls : pc[c] = "cache" => said[c].by = c
  /\ row.by \in Calls => said[row.by].by = row.by
  /\ cache.by \in Calls => said[cache.by].by = cache.by
  /\ \A c \in Calls : said[c].by \in Calls => said[said[c].by].by = said[c].by

LEMMA InitRow ==
  Init => /\ row.by = None /\ row.owner = None /\ cache.by = None
          /\ \A c \in Calls : said[c].by = None
<1> SUFFICES ASSUME Init
             PROVE  /\ row.by = None /\ row.owner = None /\ cache.by = None
                    /\ \A c \in Calls : said[c].by = None
  OBVIOUS
<1>1. NoRow.by = None /\ NoRow.owner = None
  BY DEF NoRow
<1>2. \A o \in Orphans : o.by = None /\ o.owner = None
  BY DEF Orphans, NoRow
<1>3. row.by = None /\ row.owner = None
  BY <1>1, <1>2 DEF Init
<1> QED
  BY <1>3 DEF Init, NoEntry, Unsaid

LEMMA InitHanded == Init => Handed
<1> SUFFICES ASSUME Init PROVE Handed
  OBVIOUS
<1>1. \A c \in Calls : pc[c] = "idle"
  BY DEF Init
<1> QED
  BY <1>1, InitRow, CallsAssumption DEF Handed

LEMMA NextHanded ==
  ASSUME TypeOK, Handed, [Next]_vars
  PROVE  Handed'
<1> USE DEF Goto, dataVars, Handed, TypeOK
<1>1. ASSUME NEW c \in Calls, Enter(c) PROVE Handed'
  <2>1. CASE CacheHit(c)
    <3>1. said[c].by = None /\ cache.by # c
      BY <2>1, CallsAssumption DEF CacheHit, End
    <3>2. PICK k \in {"cache_hit", "cached_empty"} : said' = [said EXCEPT ![c] = Said(k, cache.by)]
      BY <2>1 DEF CacheHit, End
    <3>3. said'[c].by = cache.by /\ \A d \in Calls : d # c => said'[d] = said[d]
      BY <3>2 DEF Said, Unsaid
    <3>4. pc' = [pc EXCEPT ![c] = "done"] /\ row' = row /\ cache' = cache
      BY <2>1 DEF CacheHit, End
    <3> QED
      BY <3>1, <3>3, <3>4, CallsAssumption
  <2>2. CASE CacheMiss(c) BY <2>2, CallsAssumption DEF CacheMiss
  <2>3. CASE CacheUnusable(c) BY <2>3, CallsAssumption DEF CacheUnusable
  <2> QED BY <1>1, <2>1, <2>2, <2>3 DEF Enter
<1>2. ASSUME NEW c \in Calls, LookupStep(c) PROVE Handed'
  <2>1. CASE Evict(c) BY <2>1, CallsAssumption DEF Evict, NoEntry
  <2>2. CASE CooldownOver(c) BY <2>2, CallsAssumption DEF CooldownOver
  <2>3. CASE CooldownSkip(c) BY <2>3, CallsAssumption DEF CooldownSkip, End, Said, Unsaid
  <2> QED BY <1>2, <2>1, <2>2, <2>3 DEF LookupStep
<1>3. ASSUME NEW c \in Calls, AcquireStep(c) PROVE Handed'
  <2>1. CASE Insert(c) BY <2>1, CallsAssumption DEF Insert, Pending
  <2>2. CASE ReadShared(c) BY <2>2, CallsAssumption DEF ReadShared, End, Shared
  <2>3. CASE ReadPending(c) BY <2>3, CallsAssumption DEF ReadPending
  <2>4. CASE ReadExpired(c) BY <2>4, CallsAssumption DEF ReadExpired
  <2>5. CASE TakeoverCompare(c) BY <2>5, CallsAssumption DEF TakeoverCompare, Lock
  <2>6. CASE TakeoverLost(c) BY <2>6, CallsAssumption DEF TakeoverLost
  <2>7. CASE TakeoverSet(c) BY <2>7, CallsAssumption DEF TakeoverSet, Unlock, Pending
  <2> QED BY <1>3, <2>1, <2>2, <2>3, <2>4, <2>5, <2>6, <2>7 DEF AcquireStep
<1>4. ASSUME NEW c \in Calls, WaiterStep(c) PROVE Handed'
  <2>1. CASE NoTimeToWait(c) BY <2>1, CallsAssumption DEF NoTimeToWait, End, Said, Unsaid
  <2>2. CASE Wait(c) BY <2>2, CallsAssumption DEF Wait
  <2>3. CASE PollFinds(c) BY <2>3, CallsAssumption DEF PollFinds, End, Shared
  <2>4. CASE PollTimesOut(c) BY <2>4, CallsAssumption DEF PollTimesOut, End, Said, Unsaid
  <2> QED BY <1>4, <2>1, <2>2, <2>3, <2>4 DEF WaiterStep
<1>5. ASSUME NEW c \in Calls, GateStep(c) PROVE Handed'
  <2>1. CASE Proceed(c) BY <2>1, CallsAssumption DEF Proceed
  <2>2. CASE Refuse(c) BY <2>2, CallsAssumption DEF Refuse
  <2> QED BY <1>5, <2>1, <2>2 DEF GateStep
<1>6. ASSUME NEW c \in Calls, Fetch(c) PROVE Handed'
  BY <1>6, CallsAssumption DEF Fetch
<1>7. ASSUME NEW c \in Calls, PublishStep(c) PROVE Handed'
  <2>1. CASE PublishRead(c) BY <2>1, CallsAssumption DEF PublishRead
  <2>2. CASE PublishCompare(c) BY <2>2, CallsAssumption DEF PublishCompare, Lock
  <2>3. CASE PublishLost(c) BY <2>3, CallsAssumption DEF PublishLost, End, Said, Unsaid
  <2>4. CASE PublishSet(c) BY <2>4, CallsAssumption DEF PublishSet, Unlock, Said, Unsaid
  <2>5. CASE CacheResult(c) BY <2>5, CallsAssumption DEF CacheResult
  <2> QED BY <1>7, <2>1, <2>2, <2>3, <2>4, <2>5 DEF PublishStep
<1>8. ASSUME NEW c \in Calls, Stop(c) PROVE Handed'
  BY <1>8, CallsAssumption DEF Stop
<1>9. CASE Tick
  BY <1>9, CallsAssumption DEF Tick, callVars
<1>10. CASE UNCHANGED vars
  BY <1>10, CallsAssumption DEF vars, callVars
<1> QED
  BY <1>1, <1>2, <1>3, <1>4, <1>5, <1>6, <1>7, <1>8, <1>9, <1>10 DEF Next, Step, Finished

\* What the cache holds and what a call is given was published by its owner.
THEOREM OnlyPublishedIsServedCorrect == Spec => []OnlyPublishedIsServed
<1>1. TypeOK /\ Handed /\ [Next]_vars => Handed'
  BY NextHanded
<1>2. TypeOK /\ Handed => OnlyPublishedIsServed
  BY DEF Handed, OnlyPublishedIsServed, TypeOK
<1> QED
  BY InitHanded, TypeCorrect, <1>1, <1>2, PTL DEF Spec

-----------------------------------------------------------------------------
(* What is left behind. *)

\* A pending flight has an owner that is still to publish it, or is dead; an owner
\* about to compare has read the version of its own flight.
Attended ==
  \A c \in Calls : row.status = "pending" /\ row.owner = c =>
    /\ pc[c] \in {"gate", "fetch", "publish", "compare", "publish_set", "dead"}
    /\ pc[c] = "compare" => row.version = seen[c].version

LEMMA InitAttended == Init => Attended
BY InitRow, CallsAssumption DEF Attended

LEMMA NextAttended ==
  ASSUME TypeOK, Attended, [Next]_vars
  PROVE  Attended'
<1> USE DEF Goto, dataVars, Attended, TypeOK
<1>1. ASSUME NEW c \in Calls, Enter(c) PROVE Attended'
  <2>1. CASE CacheHit(c) BY <2>1, CallsAssumption DEF CacheHit, End, Said, Unsaid
  <2>2. CASE CacheMiss(c) BY <2>2, CallsAssumption DEF CacheMiss
  <2>3. CASE CacheUnusable(c) BY <2>3, CallsAssumption DEF CacheUnusable
  <2> QED BY <1>1, <2>1, <2>2, <2>3 DEF Enter
<1>2. ASSUME NEW c \in Calls, LookupStep(c) PROVE Attended'
  <2>1. CASE Evict(c) BY <2>1, CallsAssumption DEF Evict
  <2>2. CASE CooldownOver(c) BY <2>2, CallsAssumption DEF CooldownOver
  <2>3. CASE CooldownSkip(c) BY <2>3, CallsAssumption DEF CooldownSkip, End, Said, Unsaid
  <2> QED BY <1>2, <2>1, <2>2, <2>3 DEF LookupStep
<1>3. ASSUME NEW c \in Calls, AcquireStep(c) PROVE Attended'
  <2>1. CASE Insert(c) BY <2>1, CallsAssumption DEF Insert, Pending
  <2>2. CASE ReadShared(c) BY <2>2, CallsAssumption DEF ReadShared, End, Shared
  <2>3. CASE ReadPending(c) BY <2>3, CallsAssumption DEF ReadPending
  <2>4. CASE ReadExpired(c) BY <2>4, CallsAssumption DEF ReadExpired
  <2>5. CASE TakeoverCompare(c) BY <2>5, CallsAssumption DEF TakeoverCompare, Lock
  <2>6. CASE TakeoverLost(c) BY <2>6, CallsAssumption DEF TakeoverLost
  <2>7. CASE TakeoverSet(c) BY <2>7, CallsAssumption DEF TakeoverSet, Unlock, Pending
  <2> QED BY <1>3, <2>1, <2>2, <2>3, <2>4, <2>5, <2>6, <2>7 DEF AcquireStep
<1>4. ASSUME NEW c \in Calls, WaiterStep(c) PROVE Attended'
  <2>1. CASE NoTimeToWait(c) BY <2>1, CallsAssumption DEF NoTimeToWait, End, Said, Unsaid
  <2>2. CASE Wait(c) BY <2>2, CallsAssumption DEF Wait
  <2>3. CASE PollFinds(c) BY <2>3, CallsAssumption DEF PollFinds, End, Shared
  <2>4. CASE PollTimesOut(c) BY <2>4, CallsAssumption DEF PollTimesOut, End, Said, Unsaid
  <2> QED BY <1>4, <2>1, <2>2, <2>3, <2>4 DEF WaiterStep
<1>5. ASSUME NEW c \in Calls, GateStep(c) PROVE Attended'
  <2>1. CASE Proceed(c) BY <2>1, CallsAssumption DEF Proceed
  <2>2. CASE Refuse(c) BY <2>2, CallsAssumption DEF Refuse
  <2> QED BY <1>5, <2>1, <2>2 DEF GateStep
<1>6. ASSUME NEW c \in Calls, Fetch(c) PROVE Attended'
  BY <1>6, CallsAssumption DEF Fetch
<1>7. ASSUME NEW c \in Calls, PublishStep(c) PROVE Attended'
  <2>1. CASE PublishRead(c) BY <2>1, CallsAssumption DEF PublishRead
  <2>2. CASE PublishCompare(c) BY <2>2, CallsAssumption DEF PublishCompare, Lock
  <2>3. CASE PublishLost(c) BY <2>3, CallsAssumption DEF PublishLost, End, MayPublish
  <2>4. CASE PublishSet(c)
    <3>1. PublishedAs(outcome[c]) # "pending"
      BY OutcomeType DEF Published
    <3>2. row'.status # "pending"
      BY <2>4, <3>1 DEF PublishSet, Row
    <3> QED
      BY <3>2
  <2>5. CASE CacheResult(c) BY <2>5, CallsAssumption DEF CacheResult
  <2> QED BY <1>7, <2>1, <2>2, <2>3, <2>4, <2>5 DEF PublishStep
<1>8. ASSUME NEW c \in Calls, Stop(c) PROVE Attended'
  BY <1>8, CallsAssumption DEF Stop
<1>9. CASE Tick
  BY <1>9, CallsAssumption DEF Tick, callVars
<1>10. CASE UNCHANGED vars
  BY <1>10, CallsAssumption DEF vars, callVars
<1> QED
  BY <1>1, <1>2, <1>3, <1>4, <1>5, <1>6, <1>7, <1>8, <1>9, <1>10 DEF Next, Step, Finished

\* A call that ends leaves no flight that only it could publish.
THEOREM NoFlightLeftCorrect == Spec => []NoFlightLeft
<1>1. TypeOK /\ Attended /\ [Next]_vars => Attended'
  BY NextAttended
<1>2. Attended => NoFlightLeft
  BY DEF Attended, NoFlightLeft
<1> QED
  BY InitAttended, TypeCorrect, <1>1, <1>2, PTL DEF Spec

-----------------------------------------------------------------------------
(* What is shared. *)

\* A published row may be given to the call.
Recent(c) ==
  row.status \in Published => row.updated >= asked[c] \/ row.lease > asked[c]

\* A call that waits may be given any result it can find; one that is about to take
\* an expired flight over has either that flight before it or one it may wait for.
WaitsForRecent ==
  /\ \A c \in Calls : asked[c] <= now
  /\ \A c \in Calls : pc[c] = "takeover" => SameRow(c) \/ Recent(c)
  /\ \A c \in Calls : pc[c] \in {"wait", "polling"} => Recent(c)
  /\ \A c \in Calls : pc[c] \notin {"cache", "done", "dead"} => said[c].kind = "none"
  /\ SharedIsRecent

LEMMA InitWaitsForRecent == Init => WaitsForRecent
BY DEF Init, WaitsForRecent, SharedIsRecent, Unsaid

LEMMA NextWaitsForRecent ==
  ASSUME TypeOK, WaitsForRecent, [Next]_vars
  PROVE  WaitsForRecent'
<1> USE DEF Goto, dataVars, WaitsForRecent, TypeOK, Row, SharedIsRecent, Recent, SameRow, Published
<1>1. ASSUME NEW c \in Calls, Enter(c) PROVE WaitsForRecent'
  <2>1. CASE CacheHit(c)
    <3>1. PICK k \in {"cache_hit", "cached_empty"} : said' = [said EXCEPT ![c] = Said(k, cache.by)]
      BY <2>1 DEF CacheHit, End
    <3>2. said'[c].kind # "shared_result" /\ \A d \in Calls : d # c => said'[d] = said[d]
      BY <3>1 DEF Said, Unsaid
    <3>3. pc' = [pc EXCEPT ![c] = "done"]
      BY <2>1 DEF CacheHit, End
    <3> QED
      BY <2>1, <3>2, <3>3 DEF CacheHit
  <2>2. CASE CacheMiss(c) BY <2>2 DEF CacheMiss
  <2>3. CASE CacheUnusable(c) BY <2>3 DEF CacheUnusable
  <2> QED BY <1>1, <2>1, <2>2, <2>3 DEF Enter
<1>2. ASSUME NEW c \in Calls, LookupStep(c) PROVE WaitsForRecent'
  <2>1. CASE Evict(c) BY <2>1 DEF Evict
  <2>2. CASE CooldownOver(c) BY <2>2 DEF CooldownOver
  <2>3. CASE CooldownSkip(c) BY <2>3 DEF CooldownSkip, End, Said, Unsaid
  <2> QED BY <1>2, <2>1, <2>2, <2>3 DEF LookupStep
<1>3. ASSUME NEW c \in Calls, AcquireStep(c) PROVE WaitsForRecent'
  <2>1. CASE Insert(c) BY <2>1 DEF Insert, Pending
  <2>2. CASE ReadShared(c) BY <2>2 DEF ReadShared, End, Shared, InLease
  <2>3. CASE ReadPending(c) BY <2>3 DEF ReadPending, InLease
  <2>4. CASE ReadExpired(c) BY <2>4 DEF ReadExpired
  <2>5. CASE TakeoverCompare(c) BY <2>5 DEF TakeoverCompare, Lock
  <2>6. CASE TakeoverLost(c) BY <2>6 DEF TakeoverLost
  <2>7. CASE TakeoverSet(c) BY <2>7 DEF TakeoverSet, Unlock, Pending
  <2> QED BY <1>3, <2>1, <2>2, <2>3, <2>4, <2>5, <2>6, <2>7 DEF AcquireStep
<1>4. ASSUME NEW c \in Calls, WaiterStep(c) PROVE WaitsForRecent'
  <2>1. CASE NoTimeToWait(c) BY <2>1 DEF NoTimeToWait, End, Said, Unsaid
  <2>2. CASE Wait(c) BY <2>2 DEF Wait
  <2>3. CASE PollFinds(c) BY <2>3 DEF PollFinds, End, Shared
  <2>4. CASE PollTimesOut(c) BY <2>4 DEF PollTimesOut, End, Said, Unsaid
  <2> QED BY <1>4, <2>1, <2>2, <2>3, <2>4 DEF WaiterStep
<1>5. ASSUME NEW c \in Calls, GateStep(c) PROVE WaitsForRecent'
  <2>1. CASE Proceed(c) BY <2>1 DEF Proceed
  <2>2. CASE Refuse(c) BY <2>2 DEF Refuse
  <2> QED BY <1>5, <2>1, <2>2 DEF GateStep
<1>6. ASSUME NEW c \in Calls, Fetch(c) PROVE WaitsForRecent'
  BY <1>6 DEF Fetch
<1>7. ASSUME NEW c \in Calls, PublishStep(c) PROVE WaitsForRecent'
  <2>1. CASE PublishRead(c) BY <2>1 DEF PublishRead
  <2>2. CASE PublishCompare(c) BY <2>2 DEF PublishCompare, Lock
  <2>3. CASE PublishLost(c) BY <2>3 DEF PublishLost, End, Said, Unsaid, OwnAnswer
  <2>4. CASE PublishSet(c) BY <2>4 DEF PublishSet, Unlock, Said, Unsaid, OwnAnswer
  <2>5. CASE CacheResult(c) BY <2>5 DEF CacheResult
  <2> QED BY <1>7, <2>1, <2>2, <2>3, <2>4, <2>5 DEF PublishStep
<1>8. ASSUME NEW c \in Calls, Stop(c) PROVE WaitsForRecent'
  BY <1>8 DEF Stop
<1>9. CASE Tick
  BY <1>9 DEF Tick, callVars
<1>10. CASE UNCHANGED vars
  BY <1>10 DEF vars, callVars
<1> QED
  BY <1>1, <1>2, <1>3, <1>4, <1>5, <1>6, <1>7, <1>8, <1>9, <1>10 DEF Next, Step, Finished

\* A shared result is recent for the call it answers.
THEOREM SharedIsRecentCorrect == Spec => []SharedIsRecent
<1>1. TypeOK /\ WaitsForRecent /\ [Next]_vars => WaitsForRecent'
  BY NextWaitsForRecent
<1>2. WaitsForRecent => SharedIsRecent
  BY DEF WaitsForRecent
<1> QED
  BY InitWaitsForRecent, TypeCorrect, <1>1, <1>2, PTL DEF Spec

-----------------------------------------------------------------------------
(* Who holds the lease. *)

\* Under one repository the row changes in the hands of the call that has the lock:
\* it takes over only a flight whose lease has run out and publishes only its own,
\* and versions only grow, so the row a call compares is the row it has read.
Leased ==
  /\ \A c \in Calls : asked[c] <= now
  /\ row.status = "absent" => row.version = 0 /\ row.owner = None
  /\ \A c \in Calls : pc[c] = "takeover" =>
       /\ seen[c].lease <= asked[c] /\ seen[c].version <= row.version
       /\ row.version = seen[c].version => row.lease = seen[c].lease
  /\ \A c \in Calls : pc[c] = "takeover_set" =>
       /\ holder[repoOf[c]] = c
       /\ row.lease <= asked[c] /\ row.version = seen[c].version
  /\ \A c \in Calls : pc[c] = "publish_set" =>
       /\ holder[repoOf[c]] = c
       /\ row = seen[c] /\ row.owner = c
  /\ \A c \in Calls : GoesOut(c) =>
       (row.owner = c /\ row.lease = asked[c] + LeaseTTL) \/ ~LeaseLive(c)

LEMMA InitLeased == Init => Leased
<1> SUFFICES ASSUME Init PROVE Leased
  OBVIOUS
<1>1. \A c \in Calls : pc[c] = "idle" /\ asked[c] = 0
  BY DEF Init
<1>2. \A o \in Orphans : o.status = "pending"
  BY DEF Orphans, NoRow
<1>3. row.status = "absent" => row.version = 0 /\ row.owner = None
  BY <1>2 DEF Init, NoRow
<1> QED
  BY <1>1, <1>3 DEF Init, Leased, GoesOut

LEMMA NextLeased ==
  ASSUME TypeOK, OneRepository, Leased, [Next]_vars
  PROVE  Leased'
<1> USE DEF Goto, dataVars, Leased, TypeOK, Row, OneRepository, Free, GoesOut, LeaseLive
<1>1. ASSUME NEW c \in Calls, Enter(c) PROVE Leased'
  <2>1. CASE CacheHit(c) BY <2>1, CallsAssumption, TimeAssumption DEF CacheHit, End, Arrive
  <2>2. CASE CacheMiss(c) BY <2>2, CallsAssumption, TimeAssumption DEF CacheMiss, Arrive
  <2>3. CASE CacheUnusable(c) BY <2>3, CallsAssumption, TimeAssumption DEF CacheUnusable
  <2> QED BY <1>1, <2>1, <2>2, <2>3 DEF Enter
<1>2. ASSUME NEW c \in Calls, LookupStep(c) PROVE Leased'
  <2>1. CASE Evict(c) BY <2>1, CallsAssumption, TimeAssumption DEF Evict
  <2>2. CASE CooldownOver(c) BY <2>2, CallsAssumption, TimeAssumption DEF CooldownOver
  <2>3. CASE CooldownSkip(c) BY <2>3, CallsAssumption, TimeAssumption DEF CooldownSkip, End, Said, Unsaid
  <2> QED BY <1>2, <2>1, <2>2, <2>3 DEF LookupStep
<1>3. ASSUME NEW c \in Calls, AcquireStep(c) PROVE Leased'
  <2>1. CASE Insert(c)
    <3>1. CASE row.status = "absent"
      <4>1. row' = Pending(c, 1) /\ pc' = [pc EXCEPT ![c] = "gate"]
        BY <3>1, <2>1 DEF Insert
      <4>2. /\ row'.status = "pending" /\ row'.owner = c /\ row'.version = 1
            /\ row'.lease = asked[c] + LeaseTTL
        BY <4>1 DEF Pending
      <4>3. holder[repoOf[c]] = None
        BY <2>1 DEF Insert
      <4>4. \A d \in Calls : pc[d] \notin {"takeover_set", "publish_set"}
        BY <4>3, CallsAssumption
      <4>5. \A d \in Calls : GoesOut(d) => ~LeaseLive(d)
        BY <3>1, CallsAssumption
      <4> QED
        BY <2>1, <3>1, <4>1, <4>2, <4>4, <4>5 DEF Insert
    <3>2. CASE row.status # "absent"
      BY <3>2, <2>1 DEF Insert
    <3> QED
      BY <3>1, <3>2
  <2>2. CASE ReadShared(c) BY <2>2, CallsAssumption, TimeAssumption DEF ReadShared, End, Shared
  <2>3. CASE ReadPending(c) BY <2>3, CallsAssumption, TimeAssumption DEF ReadPending
  <2>4. CASE ReadExpired(c) BY <2>4, CallsAssumption, TimeAssumption DEF ReadExpired, InLease
  <2>5. CASE TakeoverCompare(c) BY <2>5, CallsAssumption, TimeAssumption DEF TakeoverCompare, Lock, SameRow
  <2>6. CASE TakeoverLost(c) BY <2>6, CallsAssumption, TimeAssumption DEF TakeoverLost
  <2>7. CASE TakeoverSet(c)
    <3>1. /\ holder[repoOf[c]] = c /\ row.version = seen[c].version
          /\ row.lease <= asked[c] /\ asked[c] <= now
      BY <2>7 DEF TakeoverSet
    <3>2. /\ row' = Pending(c, seen[c].version + 1) /\ pc' = [pc EXCEPT ![c] = "gate"]
          /\ seen' = [seen EXCEPT ![c] = NoRow]
          /\ UNCHANGED <<asked, now, repoOf>>
      BY <2>7 DEF TakeoverSet
    <3>3. /\ row'.status = "pending" /\ row'.owner = c /\ row'.version = row.version + 1
          /\ row'.lease = asked[c] + LeaseTTL
      BY <3>1, <3>2 DEF Pending
    <3>4. \A d \in Calls : d # c => pc[d] \notin {"takeover_set", "publish_set"}
      BY <3>1
    <3>5. \A d \in Calls : GoesOut(d) => ~LeaseLive(d)
      BY <3>1, TimeAssumption
    <3> QED
      BY <3>1, <3>2, <3>3, <3>4, <3>5, TimeAssumption
  <2> QED BY <1>3, <2>1, <2>2, <2>3, <2>4, <2>5, <2>6, <2>7 DEF AcquireStep
<1>4. ASSUME NEW c \in Calls, WaiterStep(c) PROVE Leased'
  <2>1. CASE NoTimeToWait(c) BY <2>1, CallsAssumption, TimeAssumption DEF NoTimeToWait, End, Said, Unsaid
  <2>2. CASE Wait(c) BY <2>2, CallsAssumption, TimeAssumption DEF Wait
  <2>3. CASE PollFinds(c) BY <2>3, CallsAssumption, TimeAssumption DEF PollFinds, End, Shared
  <2>4. CASE PollTimesOut(c) BY <2>4, CallsAssumption, TimeAssumption DEF PollTimesOut, End, Said, Unsaid
  <2> QED BY <1>4, <2>1, <2>2, <2>3, <2>4 DEF WaiterStep
<1>5. ASSUME NEW c \in Calls, GateStep(c) PROVE Leased'
  <2>1. CASE Proceed(c) BY <2>1, CallsAssumption, TimeAssumption DEF Proceed
  <2>2. CASE Refuse(c) BY <2>2, CallsAssumption, TimeAssumption DEF Refuse
  <2> QED BY <1>5, <2>1, <2>2 DEF GateStep
<1>6. ASSUME NEW c \in Calls, Fetch(c) PROVE Leased'
  BY <1>6, CallsAssumption, TimeAssumption DEF Fetch
<1>7. ASSUME NEW c \in Calls, PublishStep(c) PROVE Leased'
  <2>1. CASE PublishRead(c) BY <2>1, CallsAssumption, TimeAssumption DEF PublishRead
  <2>2. CASE PublishCompare(c) BY <2>2, CallsAssumption, TimeAssumption DEF PublishCompare, Lock, MayPublish
  <2>3. CASE PublishLost(c) BY <2>3, CallsAssumption, TimeAssumption DEF PublishLost, End, Said, Unsaid
  <2>4. CASE PublishSet(c)
    <3>1. holder[repoOf[c]] = c /\ row = seen[c] /\ row.owner = c
      BY <2>4 DEF PublishSet
    <3>2. /\ pc' \in {[pc EXCEPT ![c] = "done"], [pc EXCEPT ![c] = "cache"]}
          /\ seen' = [seen EXCEPT ![c] = NoRow]
          /\ UNCHANGED <<asked, now, repoOf>>
      BY <2>4 DEF PublishSet
    <3>3. PublishedAs(outcome[c]) \in Published
      BY OutcomeType
    <3>4. /\ row'.status # "absent" /\ row'.owner = row.owner
          /\ row'.version = row.version + 1 /\ row'.lease = row.lease
      BY <2>4, <3>1, <3>3 DEF PublishSet, Published
    <3>5. \A d \in Calls : d # c => pc[d] \notin {"takeover_set", "publish_set"}
      BY <3>1
    <3> QED
      BY <3>1, <3>2, <3>4, <3>5, TimeAssumption
  <2>5. CASE CacheResult(c) BY <2>5, CallsAssumption, TimeAssumption DEF CacheResult
  <2> QED BY <1>7, <2>1, <2>2, <2>3, <2>4, <2>5 DEF PublishStep
<1>8. ASSUME NEW c \in Calls, Stop(c) PROVE Leased'
  BY <1>8, CallsAssumption, TimeAssumption DEF Stop
<1>9. CASE Tick
  BY <1>9, CallsAssumption, TimeAssumption DEF Tick, callVars
<1>10. CASE UNCHANGED vars
  BY <1>10, CallsAssumption, TimeAssumption DEF vars, callVars
<1> QED
  BY <1>1, <1>2, <1>3, <1>4, <1>5, <1>6, <1>7, <1>8, <1>9, <1>10 DEF Next, Step, Finished

\* The repository of a call never changes.
LEMMA SameRepositories == [Next]_vars => UNCHANGED repoOf
<1> SUFFICES ASSUME [Next]_vars PROVE UNCHANGED repoOf
  OBVIOUS
<1>1. ASSUME NEW c \in Calls, Enter(c) PROVE UNCHANGED repoOf
  <2>1. CASE CacheHit(c) BY <2>1 DEF CacheHit, End, Said, Unsaid
  <2>2. CASE CacheMiss(c) BY <2>2 DEF CacheMiss
  <2>3. CASE CacheUnusable(c) BY <2>3 DEF CacheUnusable
  <2> QED BY <1>1, <2>1, <2>2, <2>3 DEF Enter
<1>2. ASSUME NEW c \in Calls, LookupStep(c) PROVE UNCHANGED repoOf
  <2>1. CASE Evict(c) BY <2>1 DEF Evict
  <2>2. CASE CooldownOver(c) BY <2>2 DEF CooldownOver
  <2>3. CASE CooldownSkip(c) BY <2>3 DEF CooldownSkip, End, Said, Unsaid
  <2> QED BY <1>2, <2>1, <2>2, <2>3 DEF LookupStep
<1>3. ASSUME NEW c \in Calls, AcquireStep(c) PROVE UNCHANGED repoOf
  <2>1. CASE Insert(c) BY <2>1 DEF Insert, Pending
  <2>2. CASE ReadShared(c) BY <2>2 DEF ReadShared, End, Shared
  <2>3. CASE ReadPending(c) BY <2>3 DEF ReadPending
  <2>4. CASE ReadExpired(c) BY <2>4 DEF ReadExpired
  <2>5. CASE TakeoverCompare(c) BY <2>5 DEF TakeoverCompare, Lock
  <2>6. CASE TakeoverLost(c) BY <2>6 DEF TakeoverLost
  <2>7. CASE TakeoverSet(c) BY <2>7 DEF TakeoverSet, Unlock, Pending
  <2> QED BY <1>3, <2>1, <2>2, <2>3, <2>4, <2>5, <2>6, <2>7 DEF AcquireStep
<1>4. ASSUME NEW c \in Calls, WaiterStep(c) PROVE UNCHANGED repoOf
  <2>1. CASE NoTimeToWait(c) BY <2>1 DEF NoTimeToWait, End, Said, Unsaid
  <2>2. CASE Wait(c) BY <2>2 DEF Wait
  <2>3. CASE PollFinds(c) BY <2>3 DEF PollFinds, End, Shared
  <2>4. CASE PollTimesOut(c) BY <2>4 DEF PollTimesOut, End, Said, Unsaid
  <2> QED BY <1>4, <2>1, <2>2, <2>3, <2>4 DEF WaiterStep
<1>5. ASSUME NEW c \in Calls, GateStep(c) PROVE UNCHANGED repoOf
  <2>1. CASE Proceed(c) BY <2>1 DEF Proceed
  <2>2. CASE Refuse(c) BY <2>2 DEF Refuse
  <2> QED BY <1>5, <2>1, <2>2 DEF GateStep
<1>6. ASSUME NEW c \in Calls, Fetch(c) PROVE UNCHANGED repoOf
  BY <1>6 DEF Fetch
<1>7. ASSUME NEW c \in Calls, PublishStep(c) PROVE UNCHANGED repoOf
  <2>1. CASE PublishRead(c) BY <2>1 DEF PublishRead
  <2>2. CASE PublishCompare(c) BY <2>2 DEF PublishCompare, Lock
  <2>3. CASE PublishLost(c) BY <2>3 DEF PublishLost, End, Said, Unsaid
  <2>4. CASE PublishSet(c) BY <2>4 DEF PublishSet, Unlock, Said, Unsaid
  <2>5. CASE CacheResult(c) BY <2>5 DEF CacheResult
  <2> QED BY <1>7, <2>1, <2>2, <2>3, <2>4, <2>5 DEF PublishStep
<1>8. ASSUME NEW c \in Calls, Stop(c) PROVE UNCHANGED repoOf
  BY <1>8 DEF Stop
<1>9. CASE Tick
  BY <1>9 DEF Tick, callVars
<1>10. CASE UNCHANGED vars
  BY <1>10 DEF vars, callVars
<1> QED
  BY <1>1, <1>2, <1>3, <1>4, <1>5, <1>6, <1>7, <1>8, <1>9, <1>10 DEF Next, Step, Finished

\* The row is written by an insert, a takeover and a publication.
LEMMA RowWriters ==
  ASSUME [Next]_vars, row' # row
  PROVE  \E c \in Calls : Insert(c) \/ TakeoverSet(c) \/ PublishSet(c)
<1>1. ASSUME NEW c \in Calls, Enter(c) \/ LookupStep(c) \/ WaiterStep(c) \/ GateStep(c)
                             \/ Fetch(c) \/ Stop(c)
      PROVE  row' = row
  BY <1>1 DEF Enter, CacheHit, CacheMiss, CacheUnusable, LookupStep, Evict, CooldownOver,
              CooldownSkip, WaiterStep, NoTimeToWait, Wait, PollFinds, PollTimesOut,
              GateStep, Proceed, Refuse, Fetch, Stop, dataVars
<1>2. ASSUME NEW c \in Calls, AcquireStep(c), ~Insert(c), ~TakeoverSet(c)
      PROVE  row' = row
  BY <1>2 DEF AcquireStep, ReadShared, ReadPending, ReadExpired, TakeoverCompare,
              TakeoverLost, dataVars
<1>3. ASSUME NEW c \in Calls, PublishStep(c), ~PublishSet(c)
      PROVE  row' = row
  BY <1>3 DEF PublishStep, PublishRead, PublishCompare, PublishLost, CacheResult, dataVars
<1>4. Tick \/ UNCHANGED vars => row' = row
  BY DEF Tick, vars, dataVars
<1> QED
  BY <1>1, <1>2, <1>3, <1>4 DEF Next, Step, Finished

LEMMA LeasedAlways == Spec => [](OneRepository => Leased)
<1>1. TypeOK /\ (OneRepository => Leased) /\ [Next]_vars => (OneRepository => Leased)'
  BY NextLeased, SameRepositories DEF OneRepository
<1> QED
  BY InitLeased, TypeCorrect, <1>1, PTL DEF Spec

\* Of the calls of one repository that may go out, one at most has a live lease.
THEOREM OneLiveOwnerCorrect == Spec => []OneLiveOwner
<1>1. (OneRepository => Leased) => OneLiveOwner
  BY DEF Leased, OneLiveOwner, Exclusive
<1> QED
  BY LeasedAlways, <1>1, PTL

\* A flight stays with its owner while the lease lasts, and is published by it alone.
THEOREM LiveFlightKeptCorrect == Spec => LiveFlightKept
<1> DEFINE Kept == OneRepository /\ row.status = "pending"
                   => \/ row'.owner = row.owner /\ row'.by \in {None, row.owner}
                      \/ row.lease <= now
<1>1. ASSUME TypeOK, OneRepository => Leased, [Next]_vars PROVE [Kept]_row
  <2> SUFFICES ASSUME OneRepository, row.status = "pending", row' # row
               PROVE  \/ row'.owner = row.owner /\ row'.by \in {None, row.owner}
                      \/ row.lease <= now
    OBVIOUS
  <2>1. PICK c \in Calls : Insert(c) \/ TakeoverSet(c) \/ PublishSet(c)
    BY <1>1, RowWriters
  <2>2. ~Insert(c)
    BY DEF Insert
  <2>3. CASE TakeoverSet(c)
    <3>1. row.lease <= asked[c] /\ asked[c] <= now
      BY <1>1, <2>3 DEF Leased, TakeoverSet, Goto
    <3> QED
      BY <1>1, <3>1 DEF TypeOK, Row
  <2>4. CASE PublishSet(c)
    <3>1. row = seen[c] /\ row.owner = c
      BY <1>1, <2>4 DEF Leased, PublishSet, Goto
    <3>2. row'.owner = seen[c].owner /\ row'.by = c
      BY <1>1, <2>4 DEF TypeOK, Row, PublishSet
    <3> QED
      BY <3>1, <3>2
  <2> QED
    BY <2>1, <2>2, <2>3, <2>4
<1> QED
  BY LeasedAlways, TypeCorrect, <1>1, PTL DEF Spec, LiveFlightKept

=============================================================================
