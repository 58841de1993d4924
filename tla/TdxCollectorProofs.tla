------------------------ MODULE TdxCollectorProofs -------------------------
(***************************************************************************)
(* Proofs about TdxCollector: for any number of days, pages, attempts,     *)
(* kills and storage errors, the published part of a chain has no hole,    *)
(* what a finished job calls for is there, and the bytes of a page are     *)
(* never replaced.                                                         *)
(***************************************************************************)
EXTENDS TdxCollector, TLAPS

(* What the tables and the page store say of a job fits together: no row    *)
(* points to bytes that are not there, a page whose row lost them failed    *)
(* for good, and a saved page has rows and a publication.                   *)
PageSound(k) ==
    /\ chunk[k] => bytes[k] # "none"
    /\ Family(k) = "opening_match" => bytes[k] \in {"none", "rows"}
    /\ Family(k) = "trades" /\ bytes[k] # "none" /\ ~chunk[k] =>
          state[k] = "ERROR" /\ reason[k] = "bad"
    /\ state[k] = "SAVED" => pub[k] # "no" /\ bytes[k] \notin {"none", "empty"}

PagesSound == \A k \in Keys : PageSound(k)

(* What was read of the claimed jobs is still so when their turn comes.     *)
BatchSound ==
    /\ phase # "work" => batch = <<>> /\ cur = NoJob
    /\ \A n \in DOMAIN batch :
          LET k == batch[n].key IN
          /\ state[k] # "ABSENT"
          /\ batch[n].saved => bytes[k] # "none"
          /\ Family(k) = "trades" /\ ~batch[n].saved => bytes[k] = "none"
          /\ cur = NoJob \/ cur.key # k
    /\ \A m, n \in DOMAIN batch : m # n => batch[m].key # batch[n].key

(* The page before k, which it continues. *)
Preceding(k) == Trades(Day(k), Position(k) - 1)
Continued(k) == pub[Preceding(k)] # "no" /\ bytes[Preceding(k)] \notin {"none", "empty"}

ChainSound == \A k \in Keys : Continues(k) /\ pub[k] # "no" => Continued(k)

(* What the page of k calls for is queued. *)
Followed(k) ==
    /\ bytes[k] # "empty" =>
          Position(k) < MaxPage /\ state[Trades(Day(k), Position(k) + 1)] # "ABSENT"
    /\ bytes[k] = "empty" /\ Day(k) < NDays => state[Trades(Day(k) + 1, 0)] # "ABSENT"

(* What has been done for the job in hand when it gets to a step. *)
CurSound ==
    LET k == cur.key
        s == cur.step
    IN
    /\ s = "none" <=> cur = NoJob
    /\ s # "none" => state[k] # "ABSENT" /\ chunk[k]
    /\ s # "none" /\ Continues(k) => Continued(k)
    /\ s \in {"enqueue_match", "save_match", "commit_match", "promote_match"} =>
          Family(k) = "trades" /\ bytes[k] = "match"
    /\ s = "follow" => Family(k) = "trades"
    /\ s \in {"save_match", "commit_match", "promote_match"} => state[MatchOf(k)] # "ABSENT"
    /\ s \in {"commit_match", "promote_match"} => bytes[MatchOf(k)] = "rows"
    /\ s \in {"promote_match", "follow", "commit", "promote"}
          /\ Family(k) = "trades" /\ bytes[k] = "match" => pub[MatchOf(k)] # "no"
    /\ s \in {"commit", "promote"} /\ Family(k) = "trades" => Followed(k)

CollectorInv ==
    /\ TypeOK
    /\ PagesSound
    /\ BatchSound
    /\ CurSound
    /\ ChainSound
    /\ FollowersExist

-----------------------------------------------------------------------------
(* Job keys *)

LEMMA KeyParts ==
    ASSUME NEW k \in Keys
    PROVE  /\ Family(k) \in {"trades", "opening_match"}
           /\ Day(k) \in Days /\ Position(k) \in Positions
           /\ Day(k) \in Nat /\ Position(k) \in Nat /\ Day(k) <= NDays /\ Position(k) <= MaxPage
           /\ k = <<Family(k), Day(k), Position(k)>>
BY CollectorAssumption DEF Keys, Family, Day, Position, Days, Positions

LEMMA KeysOfPages ==
    ASSUME NEW d \in Days, NEW i \in Positions
    PROVE  /\ Trades(d, i) \in Keys /\ Match(d, i) \in Keys
           /\ Family(Trades(d, i)) = "trades" /\ Family(Match(d, i)) = "opening_match"
           /\ Day(Trades(d, i)) = d /\ Position(Trades(d, i)) = i
           /\ Day(Match(d, i)) = d /\ Position(Match(d, i)) = i
BY DEF Keys, Family, Day, Position, Trades, Match

LEMMA KeysAround ==
    ASSUME NEW k \in Keys
    PROVE  /\ MatchOf(k) \in Keys /\ Family(MatchOf(k)) = "opening_match"
           /\ MatchOf(k) = Match(Day(k), Position(k))
           /\ Family(k) = "trades" => k = Trades(Day(k), Position(k)) /\ MatchOf(k) # k
           /\ ~Continues(MatchOf(k))
           /\ Continues(k) => Preceding(k) \in Keys /\ Family(Preceding(k)) = "trades"
           /\ Position(k) + 1 <= MaxPage => Trades(Day(k), Position(k) + 1) \in Keys
           /\ Day(k) < NDays => Trades(Day(k) + 1, 0) \in Keys
<1>1. MatchOf(k) \in Keys /\ Family(MatchOf(k)) = "opening_match"
  BY KeyParts, KeysOfPages DEF MatchOf
<1>2. Family(k) = "trades" => k = Trades(Day(k), Position(k)) /\ MatchOf(k) # k
  BY <1>1, KeyParts DEF Trades
<1>3. Continues(k) => Preceding(k) \in Keys /\ Family(Preceding(k)) = "trades"
  <2>1. Continues(k) => Position(k) - 1 \in Positions
    BY KeyParts, CollectorAssumption DEF Continues, Positions
  <2> QED BY <2>1, KeyParts, KeysOfPages DEF Preceding
<1>4. Position(k) + 1 <= MaxPage => Trades(Day(k), Position(k) + 1) \in Keys
  <2>1. Position(k) + 1 <= MaxPage => Position(k) + 1 \in Positions
    BY KeyParts, CollectorAssumption DEF Positions
  <2> QED BY <2>1, KeyParts, KeysOfPages
<1>5. Day(k) < NDays => Trades(Day(k) + 1, 0) \in Keys
  <2>1. 0 \in Positions /\ (Day(k) < NDays => Day(k) + 1 \in Days)
    BY KeyParts, CollectorAssumption DEF Positions, Days
  <2> QED BY <2>1, KeysOfPages
<1> QED BY <1>1, <1>2, <1>3, <1>4, <1>5 DEF MatchOf, Continues

(* No two pages have the same opening match, or follow the same page. *)
LEMMA KeysDiffer ==
    ASSUME NEW j \in Keys, NEW k \in Keys, Family(j) = "trades", Family(k) = "trades",
           MatchOf(j) = MatchOf(k)
    PROVE  j = k
BY KeyParts, KeysOfPages DEF MatchOf

LEMMA FirstKey == NoJob.key \in Keys /\ NoJob.key = Trades(1, 0) /\ NoJob.step = "none"
<1>1. 1 \in Days /\ 0 \in Positions
  BY CollectorAssumption DEF Days, Positions
<1> QED BY <1>1, KeysOfPages DEF NoJob

-----------------------------------------------------------------------------
(* Batches *)

RowKeys == {queue[n] : n \in DOMAIN queue}

LEMMA ClaimsAreDistinct ==
    ASSUME TypeOK, NEW b \in Claims
    PROVE  /\ b \in Seq(Keys) /\ \A n \in DOMAIN b : state[b[n]] = "PENDING" /\ b[n] \in Keys
           /\ \A m, n \in DOMAIN b : m # n => b[m] # b[n]
<1>1. PICK l \in 0 .. BatchSize : b \in [1 .. l -> PendingJobs] /\ IsClaim(b)
  BY DEF Claims
<1>2. l \in Nat /\ DOMAIN b = 1 .. l /\ b \in Seq(PendingJobs)
  BY <1>1, CollectorAssumption
<1>3. PendingJobs \subseteq Keys /\ \A k \in PendingJobs : state[k] = "PENDING"
  BY DEF PendingJobs
<1>4. \A n \in DOMAIN b : b[n] \in PendingJobs
  BY <1>1
<1>5. ASSUME NEW k \in PendingJobs PROVE ~Before(k, k)
  <2>1. Priority(k) \in Nat
    <3>1. /\ Family(k) \in {"trades", "opening_match"}
          /\ Day(k) \in Nat \ {0} /\ Position(k) \in Nat
      BY <1>3, KeyParts DEF Days
    <3>2. CASE Family(k) = "opening_match"
      BY <3>2 DEF Priority
    <3>3. CASE Family(k) = "trades" /\ Position(k) > 0
      BY <3>1, <3>3 DEF Priority
    <3>4. CASE Family(k) = "trades" /\ Position(k) = 0 /\ Day(k) > 1
      BY <3>1, <3>4 DEF Priority
    <3>5. CASE Family(k) = "trades" /\ Position(k) = 0 /\ Day(k) = 1
      BY <3>1, <3>5 DEF Priority
    <3> QED BY <3>1, <3>2, <3>3, <3>4, <3>5
  <2>2. Rowid(k) \in Nat
    <3>1. \E n \in 1 .. Len(queue) : queue[n] = k
      <4>1. DOMAIN queue = 1 .. Len(queue)
        BY DEF TypeOK
      <4>2. state[k] # "ABSENT" /\ k \in Keys
        BY <1>3
      <4>3. k \in {queue[n] : n \in DOMAIN queue}
        BY <4>2 DEF TypeOK
      <4> QED BY <4>1, <4>3
    <3>2. Len(queue) \in Nat
      BY DEF TypeOK
    <3>3. (CHOOSE n \in 1 .. Len(queue) : queue[n] = k) \in 1 .. Len(queue)
      BY <3>1
    <3> QED BY <3>2, <3>3 DEF Rowid
  <2> QED BY <2>1, <2>2 DEF Before
<1>6. \A m, n \in DOMAIN b : m < n => b[m] # b[n]
  <2>1. \A m, n \in DOMAIN b : m < n => Before(b[m], b[n])
    BY <1>1 DEF IsClaim
  <2> QED BY <1>4, <1>5, <2>1
<1>7. \A m, n \in DOMAIN b : m # n => b[m] # b[n]
  BY <1>2, <1>6
<1>8. b \in Seq(Keys)
  BY <1>2, <1>3
<1> QED BY <1>3, <1>4, <1>7, <1>8

-----------------------------------------------------------------------------
(* Types *)

(* A row is added where there was none ... *)
LEMMA EnqueueTyped ==
    ASSUME TypeOK, NEW k \in Keys, Enqueue(k)
    PROVE  /\ state' \in [Keys -> States] /\ queue' \in Seq(Keys)
           /\ \A j \in Keys : state'[j] # "ABSENT" <=> j \in RowKeys'
           /\ state'[k] # "ABSENT"
           /\ \A j \in Keys : state'[j] # state[j] => j = k /\ state[j] = "ABSENT"
                                                      /\ state'[j] = "PENDING"
<1>0. /\ state \in [Keys -> States] /\ queue \in Seq(Keys)
      /\ \A j \in Keys : state[j] # "ABSENT" <=> j \in RowKeys
  BY DEF TypeOK, RowKeys
<1>1. CASE state[k] # "ABSENT"
  BY <1>0, <1>1 DEF Enqueue, RowKeys
<1>2. CASE state[k] = "ABSENT"
  <2>1. /\ state' = [state EXCEPT ![k] = "PENDING"] /\ queue' = Append(queue, k)
    BY <1>2 DEF Enqueue
  <2>2. /\ queue' \in Seq(Keys) /\ DOMAIN queue' = 1 .. Len(queue) + 1
        /\ DOMAIN queue = 1 .. Len(queue) /\ Len(queue) \in Nat
        /\ queue'[Len(queue) + 1] = k
        /\ \A n \in 1 .. Len(queue) : queue'[n] = queue[n]
    BY <1>0, <2>1
  <2>3. RowKeys' = RowKeys \cup {k}
    <3>1. \A n \in DOMAIN queue' : n \in DOMAIN queue \/ n = Len(queue) + 1
      BY <2>2
    <3>2. Len(queue) + 1 \in DOMAIN queue' /\ DOMAIN queue \subseteq DOMAIN queue'
      BY <2>2
    <3> QED BY <2>2, <3>1, <3>2 DEF RowKeys
  <2>4. state' \in [Keys -> States] /\ state'[k] = "PENDING"
        /\ \A j \in Keys : j # k => state'[j] = state[j]
    BY <1>0, <2>1 DEF States
  <2> QED BY <1>0, <1>2, <2>2, <2>3, <2>4
<1> QED BY <1>1, <1>2

(* ... and otherwise rows change their state. *)
RowsStay ==
    /\ state' \in [Keys -> States]
    /\ \A k \in Keys : state'[k] # "ABSENT" <=> state[k] # "ABSENT"

LEMMA RowChanged ==
    ASSUME TypeOK, NEW k \in Keys, state[k] # "ABSENT", NEW s \in States \ {"ABSENT"},
           state' = [state EXCEPT ![k] = s]
    PROVE  RowsStay
BY DEF TypeOK, RowsStay

LEMMA RowsRecovered ==
    ASSUME TypeOK, state' = Recovered
    PROVE  RowsStay
BY DEF TypeOK, Recovered, Retryable, RowsStay, States

LEMMA RowsTyped ==
    ASSUME TypeOK, RowsStay, queue' = queue
    PROVE  /\ state' \in [Keys -> States] /\ queue' \in Seq(Keys)
           /\ \A k \in Keys : state'[k] # "ABSENT" <=> k \in RowKeys'
BY DEF TypeOK, RowsStay, RowKeys

LEMMA HeadAndTail ==
    ASSUME NEW S, NEW b \in Seq(S), b # <<>>
    PROVE  /\ Head(b) = b[1] /\ 1 \in DOMAIN b /\ Head(b) \in S
           /\ Tail(b) \in Seq(S)
           /\ \A n \in DOMAIN Tail(b) :
                 n \in Nat \ {0} /\ n + 1 \in DOMAIN b /\ Tail(b)[n] = b[n + 1]
OBVIOUS

LEMMA NextJob ==
    ASSUME TypeOK, BatchSound, AtNextJob
    PROVE  LET job == Head(batch) IN
           /\ job \in [key : Keys, saved : BOOLEAN] /\ job.key \in Keys /\ job.saved \in BOOLEAN
           /\ job = batch[1] /\ 1 \in DOMAIN batch
           /\ state[job.key] # "ABSENT"
           /\ job.saved => bytes[job.key] # "none"
           /\ Family(job.key) = "trades" /\ ~job.saved => bytes[job.key] = "none"
           /\ Tail(batch) \in Seq([key : Keys, saved : BOOLEAN])
           /\ \A n \in DOMAIN Tail(batch) :
                 /\ n + 1 \in DOMAIN batch /\ Tail(batch)[n] = batch[n + 1]
                 /\ Tail(batch)[n].key # job.key
<1> DEFINE job == Head(batch)
<1>1. /\ batch \in Seq([key : Keys, saved : BOOLEAN]) /\ batch # <<>>
  BY DEF TypeOK, AtNextJob
<1>2. /\ job = batch[1] /\ 1 \in DOMAIN batch /\ job \in [key : Keys, saved : BOOLEAN]
      /\ Tail(batch) \in Seq([key : Keys, saved : BOOLEAN])
      /\ \A n \in DOMAIN Tail(batch) :
            n + 1 \in DOMAIN batch /\ Tail(batch)[n] = batch[n + 1] /\ n + 1 # 1
  <2> DEFINE S == [key : Keys, saved : BOOLEAN]
  <2>1. batch \in Seq(S) /\ batch # <<>>
    BY <1>1
  <2> HIDE DEF S
  <2>2. /\ Head(batch) = batch[1] /\ 1 \in DOMAIN batch /\ Head(batch) \in S
        /\ Tail(batch) \in Seq(S)
        /\ \A n \in DOMAIN Tail(batch) :
              n \in Nat \ {0} /\ n + 1 \in DOMAIN batch /\ Tail(batch)[n] = batch[n + 1]
    BY <2>1, HeadAndTail
  <2>3. \A n \in Nat \ {0} : n + 1 # 1
    OBVIOUS
  <2> QED BY <2>2, <2>3 DEF S
<1>3. /\ state[job.key] # "ABSENT"
      /\ job.saved => bytes[job.key] # "none"
      /\ Family(job.key) = "trades" /\ ~job.saved => bytes[job.key] = "none"
  BY <1>2 DEF BatchSound
<1>4. \A n \in DOMAIN Tail(batch) : Tail(batch)[n].key # job.key
  BY <1>2 DEF BatchSound
<1> QED BY <1>2, <1>3, <1>4

(* The job in hand has a key and a step. *)
LEMMA CurTyped ==
    ASSUME TypeOK
    PROVE  /\ cur \in [key : Keys, step : CurSteps] /\ cur.key \in Keys
           /\ \A s \in CurSteps : Goto(s) =>
                 /\ cur' \in [key : Keys, step : CurSteps]
                 /\ cur'.key = cur.key /\ cur'.step = s
           /\ NoJob \in [key : Keys, step : CurSteps]
BY FirstKey DEF TypeOK, Goto, CurSteps, NoJob


(* The rows after a step. *)
LEMMA RowsStep ==
    ASSUME CollectorInv, [Next]_vars
    PROVE  /\ state' \in [Keys -> States] /\ queue' \in Seq(Keys)
           /\ \A k \in Keys : state'[k] # "ABSENT" <=> k \in RowKeys'
           /\ \A k \in Keys : state[k] # "ABSENT" => state'[k] # "ABSENT"
<1>0. /\ TypeOK /\ BatchSound /\ CurSound
      /\ cur.key \in Keys /\ MatchOf(cur.key) \in Keys
      /\ {"PENDING", "RUNNING", "STORED", "SAVED", "EMPTY", "ERROR", "STALLED", "PAGE_LIMIT"}
            \subseteq States \ {"ABSENT"}
  BY CurTyped, KeysAround DEF CollectorInv, States
<1>1. CASE RowsStay /\ queue' = queue
  BY <1>0, <1>1, RowsTyped DEF RowsStay
<1>2. ASSUME NEW k \in Keys, Enqueue(k)
      PROVE  /\ state' \in [Keys -> States] /\ queue' \in Seq(Keys)
             /\ \A j \in Keys : state'[j] # "ABSENT" <=> j \in RowKeys'
             /\ \A j \in Keys : state[j] # "ABSENT" => state'[j] # "ABSENT"
  BY <1>0, <1>2, EnqueueTyped
<1>3. CASE UNCHANGED <<state, queue>>
  BY <1>0, <1>1, <1>3 DEF TypeOK, RowsStay
<1>4. CASE Autoresume \/ Resume \/ EndBatch
  <2>1. queue' = queue /\ (state' = state \/ state' = Recovered)
    BY <1>4 DEF Autoresume, Resume, BeginRun, EndBatch
  <2> QED BY <1>0, <1>1, <1>3, <2>1, RowsRecovered
<1>5. CASE Claim
  <2>1. PICK b \in Claims :
          state' = [k \in Keys |-> IF k \in {b[n] : n \in DOMAIN b} THEN "RUNNING" ELSE state[k]]
    BY <1>5 DEF Claim
  <2>2. \A n \in DOMAIN b : state[b[n]] = "PENDING"
    BY <1>0, ClaimsAreDistinct
  <2>3. \A k \in Keys : state'[k] # "ABSENT" <=> state[k] # "ABSENT"
    BY <2>1, <2>2
  <2>4. state' \in [Keys -> States]
    BY <1>0, <2>1 DEF TypeOK
  <2> QED BY <1>1, <1>5, <2>3, <2>4 DEF RowsStay, Claim
<1>6. CASE \/ \E why \in {"transient", "bad"} : FetchError(why)
           \/ AccessDenied \/ \E why \in {"gap", "repeat"} : Rejected(why)
           \/ \E c \in Contents : Store(c)
  <2> DEFINE k == Head(batch).key
  <2>1. k \in Keys /\ state[k] # "ABSENT"
    BY <1>0, <1>6, NextJob DEF FetchError, AccessDenied, Rejected, Store
  <2>2. /\ queue' = queue
        /\ \E s \in {"ERROR", "STALLED", "STORED"} : state' = [state EXCEPT ![k] = s]
    BY <1>6 DEF FetchError, AccessDenied, Rejected, Store, Fail, Stall
  <2> QED BY <1>0, <1>1, <2>1, <2>2, RowChanged
<1>7. CASE SaveMatch \/ CommitMatch
  <2> DEFINE k == MatchOf(cur.key)
  <2>1. k \in Keys /\ state[k] # "ABSENT"
    BY <1>0, <1>7 DEF CurSound, SaveMatch, CommitMatch, At
  <2>2. /\ queue' = queue
        /\ \E s \in {"STORED", "EMPTY", "SAVED"} : state' = [state EXCEPT ![k] = s]
    BY <1>7 DEF SaveMatch, CommitMatch, CommitPage
  <2> QED BY <1>0, <1>1, <2>1, <2>2, RowChanged
<1>8. CASE Commit \/ StorageFault
  <2> DEFINE k == cur.key
  <2>1. k \in Keys /\ state[k] # "ABSENT"
    BY <1>0, <1>8 DEF CurSound, Commit, StorageFault, At
  <2>2. /\ queue' = queue
        /\ \E s \in {"ERROR", "EMPTY", "SAVED"} : state' = [state EXCEPT ![k] = s]
    BY <1>8 DEF Commit, CommitPage, StorageFault, Fail
  <2> QED BY <1>0, <1>1, <2>1, <2>2, RowChanged
<1>9. CASE EnqueueMatch
  BY <1>0, <1>2, <1>9 DEF EnqueueMatch
<1>10. CASE Follow
  <2> DEFINE k == cur.key
  <2>1. CASE Position(k) + 1 <= MaxPage /\ Enqueue(Trades(Day(k), Position(k) + 1))
    BY <1>0, <1>2, <2>1, KeysAround
  <2>2. CASE state' = [state EXCEPT ![k] = "PAGE_LIMIT"] /\ UNCHANGED queue
    <3>1. state[k] # "ABSENT"
      BY <1>0, <1>10 DEF CurSound, Follow, At
    <3> QED BY <1>0, <1>1, <2>2, <3>1, RowChanged
  <2>3. CASE Day(k) < NDays /\ Enqueue(Trades(Day(k) + 1, 0))
    BY <1>0, <1>2, <2>3, KeysAround
  <2> QED BY <1>3, <1>10, <2>1, <2>2, <2>3 DEF Follow
<1>11. CASE Stop \/ EndRun \/ PromoteMatch \/ Promote \/ Crash \/ UNCHANGED vars
  BY <1>3, <1>11 DEF Stop, EndRun, PromoteMatch, Promote, PromotePage, Crash, vars, jobVars
<1> QED BY <1>4, <1>5, <1>6, <1>7, <1>8, <1>9, <1>10, <1>11 DEF Next, RunStep

LEMMA PagesTyped ==
    ASSUME CollectorInv, [Next]_vars
    PROVE  /\ bytes' \in [Keys -> Contents \cup {"none"}]
           /\ chunk' \in [Keys -> BOOLEAN]
           /\ pub' \in [Keys -> {"no", "held", "visible"}]
           /\ tries' \in [Keys -> 0 .. MaxTries]
           /\ reason' \in [Keys -> Reasons]
<1>0. /\ TypeOK /\ BatchSound /\ MaxTries \in Nat \ {0}
      /\ "rows" \in Contents /\ {"none", "transient", "bad", "repeat", "gap"} = Reasons
      /\ AtNextJob => Head(batch) \in [key : Keys, saved : BOOLEAN]
                      /\ Head(batch).key \in Keys /\ Head(batch).saved \in BOOLEAN
      /\ cur.key \in Keys /\ MatchOf(cur.key) \in Keys
  BY CollectorAssumption, NextJob, CurTyped, KeysAround DEF CollectorInv, Contents, Reasons
<1>1. bytes' \in [Keys -> Contents \cup {"none"}]
  <2>1. bytes' = bytes \/ \E k \in Keys, c \in Contents : bytes' = [bytes EXCEPT ![k] = c]
    BY <1>0
    DEF Next, RunStep, Autoresume, Resume, BeginRun, Stop, EndRun, Claim, EndBatch, FetchError,
        AccessDenied, Rejected, Store, EnqueueMatch, SaveMatch, CommitMatch, CommitPage,
        PromoteMatch, PromotePage, Follow, Commit, Promote, StorageFault, Crash, vars, jobVars
  <2> QED BY <1>0, <2>1 DEF TypeOK
<1>2. chunk' \in [Keys -> BOOLEAN]
  <2>1. chunk' = chunk \/ \E k \in Keys, c \in BOOLEAN : chunk' = [chunk EXCEPT ![k] = c]
    BY <1>0
    DEF Next, RunStep, Autoresume, Resume, BeginRun, Stop, EndRun, Claim, EndBatch, FetchError,
        AccessDenied, Rejected, Stall, Store, EnqueueMatch, SaveMatch, CommitMatch, CommitPage,
        PromoteMatch, PromotePage, Follow, Commit, Promote, StorageFault, Crash, vars, jobVars
  <2> QED BY <1>0, <2>1 DEF TypeOK
<1>3. pub' \in [Keys -> {"no", "held", "visible"}]
  <2>1. \/ pub' = pub \/ pub' = Reconciled
        \/ \E k \in Keys : \/ pub' = [pub EXCEPT ![k] = IF @ = "no" THEN "held" ELSE @]
                           \/ pub' = [pub EXCEPT ![k] = "visible"]
    BY <1>0
    DEF Next, RunStep, Autoresume, Resume, BeginRun, Stop, EndRun, Claim, EndBatch, FetchError,
        AccessDenied, Rejected, Store, EnqueueMatch, SaveMatch, CommitMatch, CommitPage,
        PromoteMatch, PromotePage, Follow, Commit, Promote, StorageFault, Crash, vars, jobVars
  <2>2. pub \in [Keys -> {"no", "held", "visible"}]
    BY <1>0 DEF TypeOK
  <2>3. Reconciled \in [Keys -> {"no", "held", "visible"}]
    BY <2>2 DEF Reconciled
  <2>4. ASSUME NEW k \in Keys
        PROVE  /\ [pub EXCEPT ![k] = IF @ = "no" THEN "held" ELSE @]
                     \in [Keys -> {"no", "held", "visible"}]
               /\ [pub EXCEPT ![k] = "visible"] \in [Keys -> {"no", "held", "visible"}]
    BY <2>2
  <2> QED BY <2>1, <2>2, <2>3, <2>4
<1>4. tries' \in [Keys -> 0 .. MaxTries]
  <2>1. CASE Claim
    <3>1. PICK claimed : tries' = [k \in Keys |-> IF k \in claimed /\ tries[k] < MaxTries
                                                  THEN tries[k] + 1 ELSE tries[k]]
      BY <2>1 DEF Claim
    <3>2. \A k \in Keys : tries[k] \in 0 .. MaxTries
      BY <1>0 DEF TypeOK
    <3> QED BY <1>0, <3>1, <3>2
  <2>2. CASE tries' = tries
    BY <1>0, <2>2 DEF TypeOK
  <2> QED
    BY <2>1, <2>2
    DEF Next, RunStep, Autoresume, Resume, BeginRun, Stop, EndRun, EndBatch, FetchError,
        AccessDenied, Rejected, Store, EnqueueMatch, SaveMatch, CommitMatch, CommitPage,
        PromoteMatch, PromotePage, Follow, Commit, Promote, StorageFault, Crash, vars, jobVars
<1>5. reason' \in [Keys -> Reasons]
  <2>1. reason' = reason \/ \E k \in Keys, r \in Reasons : reason' = [reason EXCEPT ![k] = r]
    BY <1>0
    DEF Next, RunStep, Autoresume, Resume, BeginRun, Stop, EndRun, Claim, EndBatch, FetchError,
        AccessDenied, Rejected, Stall, Fail, Store, EnqueueMatch, SaveMatch, CommitMatch,
        CommitPage, PromoteMatch, PromotePage, Follow, Commit, Promote, StorageFault, Crash,
        vars, jobVars
  <2> QED BY <1>0, <2>1 DEF TypeOK
<1> QED BY <1>1, <1>2, <1>3, <1>4, <1>5

LEMMA RunTyped ==
    ASSUME CollectorInv, [Next]_vars
    PROVE  /\ phase' \in {"down", "loop", "work"} /\ fresh' \in BOOLEAN /\ halted' \in BOOLEAN
           /\ batch' \in Seq([key : Keys, saved : BOOLEAN])
           /\ cur' \in [key : Keys, step : CurSteps]
           /\ fails' \in 0 .. Burst /\ cycles' \in 0 .. MaxCycles
           /\ crashes' \in Nat /\ faults' \in Nat
<1>0. /\ TypeOK /\ BatchSound /\ Burst \in Nat \ {0} /\ MaxCycles \in Nat
      /\ AtNextJob => /\ Head(batch).key \in Keys
                      /\ Tail(batch) \in Seq([key : Keys, saved : BOOLEAN])
      /\ NoJob \in [key : Keys, step : CurSteps]
      /\ CurSteps = {"none", "enqueue_match", "save_match", "commit_match", "promote_match",
                     "follow", "commit", "promote"}
  BY CollectorAssumption, NextJob, CurTyped DEF CollectorInv, CurSteps
<1>1. phase' \in {"down", "loop", "work"} /\ fresh' \in BOOLEAN /\ halted' \in BOOLEAN
  BY <1>0
  DEF TypeOK, Next, RunStep, Autoresume, Resume, BeginRun, Stop, EndRun, Claim, EndBatch,
      FetchError, AccessDenied, Rejected, Store, EnqueueMatch, SaveMatch, CommitMatch,
      PromoteMatch, Follow, Commit, Promote, StorageFault, Crash, vars, workFrame
<1>2. batch' \in Seq([key : Keys, saved : BOOLEAN])
  <2>1. CASE Claim
    <3>1. PICK b \in Claims :
            batch' = [n \in DOMAIN b |-> [key |-> b[n], saved |-> chunk[b[n]]]]
      BY <2>1 DEF Claim
    <3>2. b \in Seq(Keys)
      BY <1>0, ClaimsAreDistinct
    <3> DEFINE S == [key : Keys, saved : BOOLEAN]
               job(n) == [key |-> b[n], saved |-> chunk[b[n]]]
    <3>3. \A n \in DOMAIN b : job(n) \in S
      BY <1>0, <3>2 DEF TypeOK
    <3>4. DOMAIN b = 1 .. Len(b) /\ Len(b) \in Nat /\ batch' = [n \in DOMAIN b |-> job(n)]
      BY <3>1, <3>2
    <3> HIDE DEF S, job
    <3>5. batch' \in Seq(S)
      BY <3>3, <3>4
    <3> QED BY <3>5 DEF S
  <2>2. CASE batch' = batch \/ batch' = <<>> \/ (AtNextJob /\ batch' = Tail(batch))
    <3> DEFINE S == [key : Keys, saved : BOOLEAN]
    <3>1. batch \in Seq(S) /\ (AtNextJob => Tail(batch) \in Seq(S))
      BY <1>0 DEF TypeOK
    <3> HIDE DEF S
    <3>2. <<>> \in Seq(S)
      OBVIOUS
    <3>3. batch' \in Seq(S)
      BY <2>2, <3>1, <3>2, Zenon
    <3> QED BY <3>3 DEF S
  <2> QED
    BY <2>1, <2>2
    DEF Next, RunStep, Autoresume, Resume, BeginRun, Stop, EndRun, EndBatch, FetchError,
        AccessDenied, Rejected, Store, EnqueueMatch, SaveMatch, CommitMatch, PromoteMatch,
        Follow, Commit, Promote, StorageFault, Crash, vars, workFrame
<1>3. cur' \in [key : Keys, step : CurSteps]
  <2>1. CASE \E c \in Contents : Store(c)
    <3>1. PICK c \in Contents : AtNextJob /\
            cur' = [key |-> Head(batch).key, step |-> FirstStep(Head(batch).key, c)]
      BY <2>1 DEF Store
    <3>2. FirstStep(Head(batch).key, c) \in CurSteps
      BY <1>0, <3>1, KeyParts DEF FirstStep
    <3> QED BY <1>0, <3>1, <3>2
  <2>2. CASE cur' = cur \/ cur' = NoJob \/ \E s \in CurSteps : Goto(s)
    BY <1>0, <2>2, CurTyped
  <2> QED
    BY <1>0, <2>1, <2>2
    DEF Next, RunStep, Autoresume, Resume, BeginRun, Stop, EndRun, Claim, EndBatch, FetchError,
        AccessDenied, Rejected, EnqueueMatch, SaveMatch, CommitMatch, PromoteMatch,
        Follow, Commit, Promote, StorageFault, Crash, vars
<1>4. fails' \in 0 .. Burst
  <2>1. fails' \in {fails, 0} \/ (fails < Burst /\ fails' = fails + 1)
    BY DEF Next, RunStep, Autoresume, Resume, BeginRun, Stop, EndRun, Claim, EndBatch,
        FetchError, AccessDenied, Rejected, Store, EnqueueMatch, SaveMatch, CommitMatch,
        PromoteMatch, Follow, Commit, Promote, StorageFault, Crash, vars
  <2> QED BY <1>0, <2>1 DEF TypeOK
<1>5. cycles' \in 0 .. MaxCycles
  <2>1. cycles' \in {cycles, 0} \/ (cycles < MaxCycles /\ cycles' = cycles + 1)
    BY DEF Next, RunStep, Autoresume, Resume, BeginRun, Stop, EndRun, Claim, EndBatch,
        FetchError, AccessDenied, Rejected, Store, EnqueueMatch, SaveMatch, CommitMatch,
        PromoteMatch, Follow, Commit, Promote, StorageFault, Crash, vars, workFrame
  <2> QED BY <1>0, <2>1 DEF TypeOK
<1>6. crashes' \in Nat /\ faults' \in Nat
  <2>1. crashes' \in {crashes, crashes + 1} /\ faults' \in {faults, faults + 1}
    BY DEF Next, RunStep, Autoresume, Resume, BeginRun, Stop, EndRun, Claim, EndBatch,
        FetchError, AccessDenied, Rejected, Store, EnqueueMatch, SaveMatch, CommitMatch,
        PromoteMatch, Follow, Commit, Promote, StorageFault, Crash, vars, workFrame
  <2> QED BY <1>0, <2>1 DEF TypeOK
<1> QED BY <1>1, <1>2, <1>3, <1>4, <1>5, <1>6

LEMMA CollectorTypeStep ==
    ASSUME CollectorInv, [Next]_vars
    PROVE  TypeOK'
BY RowsStep, PagesTyped, RunTyped DEF TypeOK, RowKeys

-----------------------------------------------------------------------------
(* What no step undoes: rows, bytes and publications *)

Kept ==
    \A k \in Keys :
        /\ state[k] # "ABSENT" => state'[k] # "ABSENT"
        /\ bytes[k] # "none" => bytes'[k] = bytes[k]
        /\ pub[k] # "no" => pub'[k] # "no"

LEMMA BytesStep ==
    ASSUME CollectorInv, [Next]_vars
    PROVE  \A k \in Keys : bytes[k] # "none" => bytes'[k] = bytes[k]
<1>0. TypeOK /\ BatchSound /\ CurSound /\ PagesSound
  BY DEF CollectorInv
<1>1. CASE bytes' = bytes
  BY <1>1
<1>2. ASSUME NEW c \in Contents, Store(c)
      PROVE  \A k \in Keys : bytes[k] # "none" => bytes'[k] = bytes[k]
  <2> DEFINE job == Head(batch)
  <2>1. /\ bytes' = [bytes EXCEPT ![job.key] = c] /\ c \in Response(job)
    BY <1>2 DEF Store
  <2>2. /\ job.key \in Keys /\ bytes \in [Keys -> Contents \cup {"none"}]
        /\ job.saved \in BOOLEAN
        /\ Family(job.key) = "trades" /\ ~job.saved => bytes[job.key] = "none"
    BY <1>0, <1>2, NextJob DEF Store, TypeOK
  <2>3. bytes[job.key] # "none" => c = bytes[job.key]
    BY <2>1, <2>2 DEF Response
  <2> QED BY <2>1, <2>2, <2>3
<1>3. CASE SaveMatch
  <2> DEFINE k == MatchOf(cur.key)
  <2>1. k \in Keys /\ bytes[k] \in {"none", "rows"} /\ bytes \in [Keys -> Contents \cup {"none"}]
    BY <1>0, CurTyped, KeysAround DEF PagesSound, PageSound, TypeOK
  <2> QED BY <1>3, <2>1 DEF SaveMatch
<1> QED
  BY <1>1, <1>2, <1>3
  DEF Next, RunStep, Autoresume, Resume, BeginRun, Stop, EndRun, Claim, EndBatch, FetchError,
      AccessDenied, Rejected, EnqueueMatch, CommitMatch, CommitPage, PromoteMatch, PromotePage,
      Follow, Commit, Promote, StorageFault, Crash, vars, jobVars

LEMMA KeptStep ==
    ASSUME CollectorInv, [Next]_vars
    PROVE  Kept
<1>0. /\ TypeOK /\ cur.key \in Keys /\ MatchOf(cur.key) \in Keys
      /\ pub \in [Keys -> {"no", "held", "visible"}]
  BY CurTyped, KeysAround DEF CollectorInv, TypeOK
<1>1. ASSUME NEW k \in Keys, pub[k] # "no"
      PROVE  pub'[k] # "no"
  <2>1. \/ pub' = pub \/ pub' = Reconciled
        \/ \E j \in Keys : \/ pub' = [pub EXCEPT ![j] = IF @ = "no" THEN "held" ELSE @]
                           \/ pub' = [pub EXCEPT ![j] = "visible"]
    BY <1>0
    DEF Next, RunStep, Autoresume, Resume, BeginRun, Stop, EndRun, Claim, EndBatch, FetchError,
        AccessDenied, Rejected, Store, EnqueueMatch, SaveMatch, CommitMatch, CommitPage,
        PromoteMatch, PromotePage, Follow, Commit, Promote, StorageFault, Crash, vars, jobVars
  <2>2. Reconciled[k] # "no"
    BY <1>1 DEF Reconciled
  <2>3. ASSUME NEW j \in Keys
        PROVE  /\ [pub EXCEPT ![j] = IF @ = "no" THEN "held" ELSE @][k] # "no"
               /\ [pub EXCEPT ![j] = "visible"][k] # "no"
    BY <1>0, <1>1
  <2> QED BY <1>1, <2>1, <2>2, <2>3
<1> QED BY <1>1, RowsStep, BytesStep DEF Kept

-----------------------------------------------------------------------------
(* Jobs and their pages *)

(* A page whose bytes stay, and that is not called saved in this step. *)
LEMMA PageStays ==
    ASSUME NEW k \in Keys, PageSound(k), Kept, bytes'[k] = bytes[k], chunk'[k] = chunk[k],
           \/ state'[k] = state[k] /\ reason'[k] = reason[k]
           \/ /\ state'[k] # "SAVED"
              /\ \/ ~(state[k] = "ERROR" /\ reason[k] = "bad")
                 \/ state'[k] = "ERROR" /\ reason'[k] = "bad"
    PROVE  PageSound(k)'
BY DEF PageSound, Kept

LEMMA PagesStep ==
    ASSUME CollectorInv, [Next]_vars
    PROVE  PagesSound'
<1> SUFFICES ASSUME NEW k \in Keys PROVE PageSound(k)'
  BY DEF PagesSound
<1>0. /\ TypeOK /\ BatchSound /\ CurSound /\ PageSound(k) /\ Kept
      /\ cur.key \in Keys /\ MatchOf(cur.key) \in Keys
      /\ state \in [Keys -> States] /\ reason \in [Keys -> Reasons]
      /\ bytes \in [Keys -> Contents \cup {"none"}] /\ chunk \in [Keys -> BOOLEAN]
      /\ pub \in [Keys -> {"no", "held", "visible"}]
      /\ Family(k) \in {"trades", "opening_match"}
  BY KeptStep, CurTyped, KeysAround, KeyParts DEF CollectorInv, PagesSound, TypeOK
<1>1. CASE UNCHANGED <<bytes, chunk, reason>> /\ state'[k] = state[k]
  BY <1>0, <1>1, PageStays
<1>2. CASE Autoresume \/ Resume \/ EndBatch
  <2>1. UNCHANGED <<bytes, chunk, reason>> /\ (state' = state \/ state' = Recovered)
    BY <1>2 DEF Autoresume, Resume, BeginRun, EndBatch
  <2>2. Recovered[k] = state[k] \/ (Recovered[k] = "PENDING" /\ ~(state[k] = "ERROR" /\ reason[k] = "bad"))
    BY DEF Recovered, Retryable
  <2> QED BY <1>0, <1>1, <2>1, <2>2, PageStays
<1>3. CASE Claim
  <2>1. UNCHANGED <<bytes, chunk, reason>>
    BY <1>3 DEF Claim
  <2>2. state'[k] = state[k] \/ (state[k] = "PENDING" /\ state'[k] = "RUNNING")
    <3>1. PICK b \in Claims :
            state' = [j \in Keys |-> IF j \in {b[n] : n \in DOMAIN b} THEN "RUNNING" ELSE state[j]]
      BY <1>3 DEF Claim
    <3>2. \A n \in DOMAIN b : state[b[n]] = "PENDING"
      BY <1>0, ClaimsAreDistinct
    <3> QED BY <3>1, <3>2
  <2> QED BY <1>0, <2>1, <2>2, PageStays
<1>4. CASE \/ \E why \in {"transient", "bad"} : FetchError(why)
           \/ AccessDenied \/ \E why \in {"gap", "repeat"} : Rejected(why)
           \/ \E c \in Contents : Store(c)
  <2> DEFINE job == Head(batch)
  <2>0. /\ job.key \in Keys /\ job.saved \in BOOLEAN
        /\ job.saved => bytes[job.key] # "none"
        /\ Family(job.key) = "trades" /\ ~job.saved => bytes[job.key] = "none"
    BY <1>0, <1>4, NextJob DEF FetchError, AccessDenied, Rejected, Store
  <2>1. ASSUME NEW why \in {"transient", "bad"}, FetchError(why)
        PROVE  PageSound(k)'
    <3>1. /\ state' = [state EXCEPT ![job.key] = "ERROR"]
          /\ reason' = [reason EXCEPT ![job.key] = why]
          /\ chunk' = [chunk EXCEPT ![job.key] = FALSE] /\ bytes' = bytes
          /\ job.saved => why = "bad"
      BY <2>1 DEF FetchError, Fail
    <3>2. CASE k = job.key
      BY <1>0, <2>0, <3>1, <3>2 DEF PageSound
    <3>3. CASE k # job.key
      BY <1>0, <2>0, <3>1, <3>3, PageStays
    <3> QED BY <3>2, <3>3
  <2>2. CASE AccessDenied
    <3>1. /\ state' = [state EXCEPT ![job.key] = "ERROR"]
          /\ reason' = [reason EXCEPT ![job.key] = "bad"]
          /\ chunk' = [chunk EXCEPT ![job.key] = FALSE] /\ bytes' = bytes
      BY <2>2 DEF AccessDenied, Fail
    <3>2. CASE k = job.key
      BY <1>0, <2>0, <3>1, <3>2 DEF PageSound
    <3>3. CASE k # job.key
      BY <1>0, <2>0, <3>1, <3>3, PageStays
    <3> QED BY <3>2, <3>3
  <2>3. ASSUME NEW why \in {"gap", "repeat"}, Rejected(why)
        PROVE  PageSound(k)'
    <3>1. /\ state' = [state EXCEPT ![job.key] = "STALLED"]
          /\ reason' = [reason EXCEPT ![job.key] = why]
          /\ chunk' = [chunk EXCEPT ![job.key] = job.saved] /\ bytes' = bytes
      BY <2>3 DEF Rejected, Stall
    <3>2. CASE k = job.key
      BY <1>0, <2>0, <3>1, <3>2 DEF PageSound
    <3>3. CASE k # job.key
      BY <1>0, <2>0, <3>1, <3>3, PageStays
    <3> QED BY <3>2, <3>3
  <2>4. ASSUME NEW c \in Contents, Store(c)
        PROVE  PageSound(k)'
    <3>1. /\ state' = [state EXCEPT ![job.key] = "STORED"] /\ reason' = reason
          /\ bytes' = [bytes EXCEPT ![job.key] = c]
          /\ chunk' = [chunk EXCEPT ![job.key] = TRUE] /\ c \in Response(job)
      BY <2>4 DEF Store
    <3>2. CASE k = job.key
      <4>1. bytes'[k] = c /\ chunk'[k] /\ state'[k] = "STORED" /\ c # "none"
        BY <1>0, <3>1, <3>2 DEF Contents
      <4>2. Family(k) = "opening_match" => c = bytes[k]
        BY <2>0, <3>1, <3>2 DEF Response
      <4> QED BY <1>0, <4>1, <4>2 DEF PageSound
    <3>3. CASE k # job.key
      BY <1>0, <2>0, <3>1, <3>3, PageStays
    <3> QED BY <3>2, <3>3
  <2> QED BY <1>4, <2>1, <2>2, <2>3, <2>4
<1>5. CASE EnqueueMatch \/ Follow
  <2>1. UNCHANGED <<bytes, chunk, reason>>
    BY <1>5 DEF EnqueueMatch, Follow
  <2>2. ASSUME NEW j \in Keys, Enqueue(j) PROVE PageSound(k)'
    <3>1. state'[k] = state[k] \/ (state[k] = "ABSENT" /\ state'[k] = "PENDING")
      BY <1>0, <2>2, EnqueueTyped
    <3> QED BY <1>0, <2>1, <3>1, PageStays
  <2>3. CASE Follow /\ state' = [state EXCEPT ![cur.key] = "PAGE_LIMIT"]
    <3>1. chunk[cur.key]
      BY <1>0, <2>3 DEF CurSound, Follow, At
    <3>2. CASE k = cur.key
      BY <1>0, <2>1, <2>3, <3>1, <3>2 DEF PageSound
    <3>3. CASE k # cur.key
      BY <1>0, <1>1, <2>1, <2>3, <3>3
    <3> QED BY <3>2, <3>3
  <2>4. CASE state' = state
    BY <1>1, <2>1, <2>4
  <2> QED BY <1>0, <1>5, <2>2, <2>3, <2>4, KeysAround DEF EnqueueMatch, Follow
<1>6. CASE SaveMatch
  <2>1. /\ state' = [state EXCEPT ![MatchOf(cur.key)] = "STORED"] /\ reason' = reason
        /\ bytes' = [bytes EXCEPT ![MatchOf(cur.key)] = "rows"]
        /\ chunk' = [chunk EXCEPT ![MatchOf(cur.key)] = TRUE]
    BY <1>6 DEF SaveMatch
  <2>2. CASE k = MatchOf(cur.key)
    BY <1>0, <2>1, <2>2 DEF PageSound
  <2>3. CASE k # MatchOf(cur.key)
    BY <1>0, <2>1, <2>3, PageStays
  <2> QED BY <2>2, <2>3
<1>7. ASSUME NEW j \in Keys, CommitPage(j), bytes[j] # "none",
             Family(j) = "trades" => chunk[j]
      PROVE  PageSound(k)'
  <2>1. /\ pub' = [pub EXCEPT ![j] = IF @ = "no" THEN "held" ELSE @]
        /\ state' = [state EXCEPT ![j] = IF bytes[j] = "empty" THEN "EMPTY" ELSE "SAVED"]
        /\ reason' = [reason EXCEPT ![j] = "none"]
        /\ UNCHANGED <<bytes, chunk>>
    BY <1>7 DEF CommitPage
  <2>2. CASE k = j
    <3>1. /\ pub'[k] # "no" /\ bytes'[k] # "none" /\ (Family(k) = "trades" => chunk'[k])
          /\ state'[k] = "SAVED" => bytes'[k] # "empty"
      BY <1>0, <1>7, <2>1, <2>2
    <3> QED BY <1>0, <2>1, <3>1 DEF PageSound
  <2>3. CASE k # j
    BY <1>0, <2>1, <2>3, PageStays
  <2> QED BY <2>2, <2>3
<1>8. CASE CommitMatch
  <2>1. /\ bytes[MatchOf(cur.key)] = "rows" /\ Family(MatchOf(cur.key)) # "trades"
    BY <1>0, <1>8, KeysAround DEF CurSound, CommitMatch, At
  <2> QED BY <1>0, <1>7, <1>8, <2>1 DEF CommitMatch
<1>9. CASE Commit
  <2>1. chunk[cur.key] /\ bytes[cur.key] # "none"
    BY <1>0, <1>9 DEF CurSound, Commit, At, CollectorInv, PagesSound, PageSound
  <2> QED BY <1>0, <1>7, <1>9, <2>1 DEF Commit
<1>10. CASE StorageFault
  <2>1. /\ state' = [state EXCEPT ![cur.key] = "ERROR"]
        /\ reason' = [reason EXCEPT ![cur.key] = "bad"]
        /\ UNCHANGED <<bytes, chunk>>
    BY <1>10 DEF StorageFault, Fail
  <2>2. CASE k = cur.key
    BY <1>0, <2>1, <2>2, PageStays
  <2>3. CASE k # cur.key
    BY <1>0, <2>1, <2>3, PageStays
  <2> QED BY <2>2, <2>3
<1>11. CASE Stop \/ EndRun \/ PromoteMatch \/ Promote \/ Crash \/ UNCHANGED vars
  BY <1>1, <1>11 DEF Stop, EndRun, PromoteMatch, Promote, PromotePage, Crash, vars, jobVars
<1> QED BY <1>2, <1>3, <1>4, <1>5, <1>6, <1>8, <1>9, <1>10, <1>11 DEF Next, RunStep

-----------------------------------------------------------------------------
(* The batch *)

LEMMA BatchKeys ==
    ASSUME TypeOK
    PROVE  \A n \in DOMAIN batch : batch[n].key \in Keys
<1>1. batch \in Seq([key : Keys, saved : BOOLEAN])
  BY DEF TypeOK
<1>2. \A n \in DOMAIN batch : batch[n] \in [key : Keys, saved : BOOLEAN]
  <2> DEFINE S == [key : Keys, saved : BOOLEAN]
  <2>1. batch \in Seq(S)
    BY <1>1
  <2> HIDE DEF S
  <2>2. \A n \in DOMAIN batch : batch[n] \in S
    BY <2>1
  <2> QED BY <2>2 DEF S
<1> QED BY <1>2

LEMMA BatchStays ==
    ASSUME CollectorInv, Kept, batch' = batch, phase' = phase,
           cur' = NoJob \/ (cur # NoJob /\ cur'.key = cur.key),
           \A k \in Keys : Family(k) = "trades" => bytes'[k] = bytes[k]
    PROVE  BatchSound'
<1>0. /\ BatchSound /\ \A n \in DOMAIN batch : batch[n].key \in Keys
      /\ phase' # "work" => cur' = NoJob
  BY BatchKeys DEF CollectorInv, BatchSound
<1>1. ASSUME NEW n \in DOMAIN batch
      PROVE  LET k == batch[n].key IN
             /\ state'[k] # "ABSENT"
             /\ batch[n].saved => bytes'[k] # "none"
             /\ Family(k) = "trades" /\ ~batch[n].saved => bytes'[k] = "none"
             /\ cur' = NoJob \/ cur'.key # k
  BY <1>0 DEF BatchSound, Kept
<1> QED BY <1>0, <1>1 DEF BatchSound

LEMMA BatchEmptied ==
    ASSUME batch' = <<>>, cur' = NoJob
    PROVE  BatchSound'
BY DEF BatchSound

(* The first job of the batch is taken up: it is decided, or in hand. *)
LEMMA BatchAdvanced ==
    ASSUME CollectorInv, Kept, AtNextJob, batch' = Tail(batch), phase' = phase,
           cur' = NoJob \/ cur'.key = Head(batch).key,
           \A k \in Keys \ {Head(batch).key} : bytes'[k] = bytes[k]
    PROVE  BatchSound'
<1>0. /\ TypeOK /\ BatchSound /\ phase = "work"
      /\ \A n \in DOMAIN batch : batch[n].key \in Keys
      /\ \A n \in DOMAIN Tail(batch) :
            /\ n + 1 \in DOMAIN batch /\ Tail(batch)[n] = batch[n + 1]
            /\ Tail(batch)[n].key # Head(batch).key
  BY NextJob, BatchKeys DEF CollectorInv, AtNextJob
<1>1. ASSUME NEW n \in DOMAIN Tail(batch)
      PROVE  LET k == Tail(batch)[n].key IN
             /\ state'[k] # "ABSENT"
             /\ Tail(batch)[n].saved => bytes'[k] # "none"
             /\ Family(k) = "trades" /\ ~Tail(batch)[n].saved => bytes'[k] = "none"
             /\ cur' = NoJob \/ cur'.key # k
  <2>1. /\ state[batch[n + 1].key] # "ABSENT"
        /\ batch[n + 1].saved => bytes[batch[n + 1].key] # "none"
        /\ Family(batch[n + 1].key) = "trades" /\ ~batch[n + 1].saved =>
              bytes[batch[n + 1].key] = "none"
    BY <1>0 DEF BatchSound
  <2> QED BY <1>0, <2>1 DEF Kept
<1>2. ASSUME NEW m \in DOMAIN Tail(batch), NEW n \in DOMAIN Tail(batch), m # n
      PROVE  Tail(batch)[m].key # Tail(batch)[n].key
  <2>1. \A j \in DOMAIN Tail(batch) : j \in Nat
    <3>1. Tail(batch) \in Seq([key : Keys, saved : BOOLEAN])
      BY <1>0, NextJob
    <3> QED BY <3>1
  <2>2. m + 1 # n + 1
    BY <1>2, <2>1
  <2> QED BY <1>0, <2>2 DEF BatchSound
<1> QED BY <1>0, <1>1, <1>2 DEF BatchSound

LEMMA BatchStep ==
    ASSUME CollectorInv, [Next]_vars
    PROVE  BatchSound'
<1>0. /\ TypeOK /\ BatchSound /\ CurSound /\ Kept /\ PagesSound
      /\ cur.key \in Keys /\ Family(MatchOf(cur.key)) # "trades"
      /\ bytes \in [Keys -> Contents \cup {"none"}]
  BY KeptStep, CurTyped, KeysAround DEF CollectorInv, TypeOK
<1>1. CASE Autoresume \/ Resume \/ EndRun \/ EndBatch
  <2>1. batch' = <<>> /\ cur' = NoJob
    BY <1>0, <1>1 DEF BatchSound, Autoresume, Resume, BeginRun, EndRun, EndBatch
  <2> QED BY <2>1, BatchEmptied
<1>2. CASE AccessDenied \/ Crash
  <2>1. batch' = <<>> /\ cur' = NoJob
    BY <1>2 DEF AccessDenied, Crash, AtNextJob
  <2> QED BY <2>1, BatchEmptied
<1>3. CASE \/ \E why \in {"transient", "bad"} : FetchError(why)
           \/ \E why \in {"gap", "repeat"} : Rejected(why)
  BY <1>0, <1>3, BatchAdvanced DEF FetchError, Rejected, AtNextJob
<1>4. ASSUME NEW c \in Contents, Store(c)
      PROVE  BatchSound'
  <2>1. /\ AtNextJob /\ batch' = Tail(batch) /\ phase' = phase /\ cur'.key = Head(batch).key
        /\ bytes' = [bytes EXCEPT ![Head(batch).key] = c]
    BY <1>4 DEF Store
  <2>2. \A k \in Keys \ {Head(batch).key} : bytes'[k] = bytes[k]
    BY <1>0, <2>1
  <2> QED BY <1>0, <2>1, <2>2, BatchAdvanced
<1>5. CASE Claim
  <2>1. PICK b \in Claims :
          batch' = [n \in DOMAIN b |-> [key |-> b[n], saved |-> chunk[b[n]]]]
    BY <1>5 DEF Claim
  <2>2. /\ \A n \in DOMAIN b : state[b[n]] = "PENDING" /\ b[n] \in Keys
        /\ \A m, n \in DOMAIN b : m # n => b[m] # b[n]
    BY <1>0, ClaimsAreDistinct
  <2>3. cur' = NoJob /\ phase' = "work" /\ UNCHANGED bytes
    BY <1>0, <1>5 DEF Claim, BatchSound
  <2>4. \A n \in DOMAIN b : /\ chunk[b[n]] => bytes[b[n]] # "none"
                            /\ Family(b[n]) = "trades" /\ ~chunk[b[n]] => bytes[b[n]] = "none"
                            /\ state'[b[n]] # "ABSENT"
    BY <1>0, <2>2 DEF PagesSound, PageSound, Kept
  <2>5. /\ DOMAIN batch' = DOMAIN b
        /\ \A n \in DOMAIN b : batch'[n].key = b[n] /\ batch'[n].saved = chunk[b[n]]
    BY <2>1
  <2> QED BY <2>2, <2>3, <2>4, <2>5 DEF BatchSound
<1>6. CASE \/ EnqueueMatch \/ SaveMatch \/ CommitMatch \/ PromoteMatch \/ Follow
           \/ Commit \/ Promote \/ StorageFault \/ Stop \/ UNCHANGED vars
  <2>1. batch' = batch /\ phase' = phase
    BY <1>6 DEF EnqueueMatch, SaveMatch, CommitMatch, PromoteMatch, Follow, Commit, Promote,
                StorageFault, Stop, vars, workFrame
  <2>2. cur' = NoJob \/ (cur # NoJob /\ cur'.key = cur.key)
    <3>1. CASE cur' = cur \/ cur' = NoJob
      BY <3>1
    <3>2. CASE cur # NoJob /\ \E s \in CurSteps : Goto(s)
      BY <1>0, <3>2, CurTyped
    <3> QED
      BY <1>0, <1>6, <3>1, <3>2
      DEF CurSound, EnqueueMatch, SaveMatch, CommitMatch, PromoteMatch, Follow, Commit, Promote,
          StorageFault, Stop, vars, At, CurSteps
  <2>3. \A k \in Keys : Family(k) = "trades" => bytes'[k] = bytes[k]
    <3>1. bytes' = bytes \/ bytes' = [bytes EXCEPT ![MatchOf(cur.key)] = "rows"]
      BY <1>6 DEF EnqueueMatch, SaveMatch, CommitMatch, CommitPage, PromoteMatch, PromotePage,
                  Follow, Commit, Promote, StorageFault, Stop, vars, jobVars
    <3> QED BY <1>0, <3>1
  <2> QED BY <1>0, <2>1, <2>2, <2>3, BatchStays
<1> QED BY <1>1, <1>2, <1>3, <1>4, <1>5, <1>6 DEF Next, RunStep

-----------------------------------------------------------------------------
(* The job in hand *)

LEMMA HandsEmpty ==
    ASSUME cur' = NoJob
    PROVE  CurSound'
<1>1. cur'.step = "none"
  BY FirstKey
<1> QED BY <1>1 DEF CurSound

(* What has been done for a job stays done. *)
LEMMA DoneStays ==
    ASSUME CollectorInv, Kept, NEW k \in Keys, bytes[k] # "none", state[k] # "ABSENT"
    PROVE  /\ state'[k] # "ABSENT" /\ bytes'[k] = bytes[k]
           /\ Continues(k) /\ Continued(k) => Continued(k)'
           /\ state[MatchOf(k)] # "ABSENT" => state'[MatchOf(k)] # "ABSENT"
           /\ bytes[MatchOf(k)] = "rows" => bytes'[MatchOf(k)] = "rows"
           /\ pub[MatchOf(k)] # "no" => pub'[MatchOf(k)] # "no"
           /\ Followed(k) => Followed(k)'
<1>1. /\ state'[k] # "ABSENT" /\ bytes'[k] = bytes[k]
      /\ state[MatchOf(k)] # "ABSENT" => state'[MatchOf(k)] # "ABSENT"
      /\ bytes[MatchOf(k)] = "rows" => bytes'[MatchOf(k)] = "rows"
      /\ pub[MatchOf(k)] # "no" => pub'[MatchOf(k)] # "no"
  BY KeysAround DEF Kept
<1>2. Continues(k) /\ Continued(k) => Continued(k)'
  BY KeysAround DEF Kept, Continued
<1>3. Followed(k) => Followed(k)'
  <2> SUFFICES ASSUME Followed(k) PROVE Followed(k)'
    OBVIOUS
  <2>1. CASE bytes[k] # "empty"
    <3>1. Position(k) + 1 <= MaxPage
      BY <2>1, KeyParts, CollectorAssumption DEF Followed
    <3> QED BY <1>1, <2>1, <3>1, KeysAround DEF Followed, Kept
  <2>2. CASE bytes[k] = "empty"
    BY <1>1, <2>2, KeysAround DEF Followed, Kept
  <2> QED BY <2>1, <2>2
<1> QED BY <1>1, <1>2, <1>3

LEMMA CurStep ==
    ASSUME CollectorInv, [Next]_vars
    PROVE  CurSound'
<1>k. PICK k : k = cur.key
  OBVIOUS
<1>0. /\ k = cur.key /\ TypeOK /\ BatchSound /\ CurSound /\ PagesSound /\ Kept /\ TypeOK'
      /\ k \in Keys /\ MatchOf(k) \in Keys
      /\ Family(k) \in {"trades", "opening_match"}
      /\ chunk \in [Keys -> BOOLEAN] /\ pub \in [Keys -> {"no", "held", "visible"}]
      /\ bytes \in [Keys -> Contents \cup {"none"}]
      /\ \A s \in CurSteps : Goto(s) => cur'.key = k /\ cur'.step = s
      /\ CurSteps = {"none", "enqueue_match", "save_match", "commit_match", "promote_match",
                     "follow", "commit", "promote"}
  BY <1>k, KeptStep, CollectorTypeStep, CurTyped, KeysAround, KeyParts DEF CollectorInv, TypeOK, CurSteps
<1>1. CASE cur' = NoJob
  BY <1>1, HandsEmpty
<1>2. cur # NoJob =>
        /\ cur.step # "none" /\ bytes[k] # "none" /\ state[k] # "ABSENT" /\ chunk[k]
        /\ Continues(k) => Continued(k)
        /\ state'[k] # "ABSENT" /\ bytes'[k] = bytes[k]
        /\ Continues(k) /\ Continued(k) => Continued(k)'
        /\ state[MatchOf(k)] # "ABSENT" => state'[MatchOf(k)] # "ABSENT"
        /\ bytes[MatchOf(k)] = "rows" => bytes'[MatchOf(k)] = "rows"
        /\ pub[MatchOf(k)] # "no" => pub'[MatchOf(k)] # "no"
        /\ Followed(k) => Followed(k)'
  <2> SUFFICES ASSUME cur # NoJob
               PROVE  /\ cur.step # "none" /\ bytes[k] # "none" /\ state[k] # "ABSENT" /\ chunk[k]
                      /\ Continues(k) => Continued(k)
                      /\ state'[k] # "ABSENT" /\ bytes'[k] = bytes[k]
                      /\ Continues(k) /\ Continued(k) => Continued(k)'
                      /\ state[MatchOf(k)] # "ABSENT" => state'[MatchOf(k)] # "ABSENT"
                      /\ bytes[MatchOf(k)] = "rows" => bytes'[MatchOf(k)] = "rows"
                      /\ pub[MatchOf(k)] # "no" => pub'[MatchOf(k)] # "no"
                      /\ Followed(k) => Followed(k)'
    OBVIOUS
  <2>1. cur.step # "none" /\ state[k] # "ABSENT" /\ chunk[k] /\ (Continues(k) => Continued(k))
    BY <1>0 DEF CurSound
  <2>2. bytes[k] # "none"
    BY <1>0, <2>1 DEF PagesSound, PageSound
  <2> QED BY <1>0, <2>1, <2>2, DoneStays
<1>3. CASE cur = NoJob /\ cur' = cur
  BY <1>1, <1>3
<1>4. CASE Autoresume \/ Resume \/ EndRun \/ EndBatch \/ Claim
  <2>1. cur = NoJob /\ cur' = cur
    BY <1>0, <1>4 DEF BatchSound, Autoresume, Resume, BeginRun, EndRun, EndBatch, Claim
  <2> QED BY <1>3, <2>1
<1>5. CASE \/ \E why \in {"transient", "bad"} : FetchError(why)
           \/ AccessDenied \/ \E why \in {"gap", "repeat"} : Rejected(why)
  BY <1>3, <1>5 DEF FetchError, AccessDenied, Rejected, AtNextJob
<1>6. CASE Stop \/ UNCHANGED vars
  <2>1. UNCHANGED <<cur, state, bytes, pub, chunk>>
    BY <1>6 DEF Stop, vars, jobVars
  <2> QED BY <1>0, <2>1 DEF CurSound, Continued, Followed
<1>7. ASSUME NEW c \in Contents, Store(c)
      PROVE  CurSound'
  <2>j. PICK job, j : job = Head(batch) /\ j = job.key
    OBVIOUS
  <2>1. /\ AtNextJob /\ j \in Keys /\ job.saved \in BOOLEAN /\ state[j] # "ABSENT"
        /\ job.saved => bytes[j] # "none"
    BY <1>0, <1>7, <2>j, NextJob DEF Store
  <2>2. /\ c \in Response(job) /\ (Continues(j) => HasPredecessor(j))
        /\ bytes' = [bytes EXCEPT ![j] = c] /\ chunk' = [chunk EXCEPT ![j] = TRUE]
        /\ pub' = pub /\ cur' = [key |-> j, step |-> FirstStep(j, c)]
    BY <1>7, <2>j DEF Store
  <2>3. /\ cur'.key = j /\ bytes'[j] = c /\ chunk'[j] /\ state'[j] # "ABSENT"
        /\ cur'.step = FirstStep(j, c)
    BY <1>0, <2>1, <2>2 DEF Kept
  <2>4. /\ Family(j) = "opening_match" => cur'.step = "commit"
        /\ Family(j) = "trades" /\ c = "match" => cur'.step = "enqueue_match"
        /\ Family(j) = "trades" /\ c # "match" => cur'.step = "follow"
        /\ Family(j) \in {"trades", "opening_match"}
    BY <2>1, <2>3, KeyParts DEF FirstStep
  <2>5. ASSUME Continues(j) PROVE Continued(j)'
    <3>1. Preceding(j) \in Keys /\ state[Preceding(j)] = "SAVED"
      BY <2>1, <2>2, <2>5, KeysAround DEF HasPredecessor, Preceding
    <3>2. pub[Preceding(j)] # "no" /\ bytes[Preceding(j)] \notin {"none", "empty"}
      BY <1>0, <3>1 DEF PagesSound, PageSound
    <3> QED BY <1>0, <3>1, <3>2 DEF Kept, Continued
  <2>6. cur'.step # "none" /\ cur' # NoJob
    BY <2>3, <2>4, FirstKey
  <2> QED BY <2>3, <2>4, <2>5, <2>6 DEF CurSound
<1>8. CASE EnqueueMatch
  <2>1. cur # NoJob /\ cur'.key = k /\ cur'.step = "save_match" /\ chunk' = chunk
        /\ Family(k) = "trades" /\ bytes[k] = "match" /\ state'[MatchOf(k)] # "ABSENT"
    BY <1>0, <1>8, FirstKey, EnqueueTyped DEF EnqueueMatch, At, CurSound
  <2>2. cur' # NoJob
    BY <2>1, FirstKey
  <2> QED BY <1>2, <2>1, <2>2 DEF CurSound
<1>9. CASE SaveMatch
  <2>1. cur # NoJob /\ cur'.key = k /\ cur'.step = "commit_match"
        /\ Family(k) = "trades" /\ bytes[k] = "match" /\ state[MatchOf(k)] # "ABSENT"
    BY <1>0, <1>9, FirstKey DEF SaveMatch, At, CurSound
  <2>2. cur' # NoJob
    BY <2>1, FirstKey
  <2>3. bytes'[MatchOf(k)] = "rows" /\ chunk'[k]
    BY <1>0, <1>2, <1>9, <2>1 DEF SaveMatch
  <2> QED BY <1>2, <2>1, <2>2, <2>3 DEF CurSound
<1>10. CASE CommitMatch
  <2>1. cur # NoJob /\ cur'.key = k /\ cur'.step = "promote_match" /\ chunk' = chunk
        /\ Family(k) = "trades" /\ bytes[k] = "match" /\ state[MatchOf(k)] # "ABSENT"
        /\ bytes[MatchOf(k)] = "rows"
    BY <1>0, <1>10, FirstKey DEF CommitMatch, CommitPage, At, CurSound
  <2>2. cur' # NoJob
    BY <2>1, FirstKey
  <2>3. pub'[MatchOf(k)] # "no"
    BY <1>0, <1>10 DEF CommitMatch, CommitPage
  <2> QED BY <1>2, <2>1, <2>2, <2>3 DEF CurSound
<1>11. CASE PromoteMatch
  <2>1. cur # NoJob /\ cur'.key = k /\ cur'.step = "follow" /\ chunk' = chunk
        /\ Family(k) = "trades" /\ bytes[k] = "match" /\ pub[MatchOf(k)] # "no"
    BY <1>0, <1>11, FirstKey DEF PromoteMatch, PromotePage, At, CurSound
  <2>2. cur' # NoJob
    BY <2>1, FirstKey
  <2> QED BY <1>2, <2>1, <2>2 DEF CurSound
<1>12. CASE Follow /\ cur' # NoJob
  <2>1. cur # NoJob /\ cur'.key = k /\ cur'.step = "commit" /\ chunk' = chunk /\ bytes' = bytes
        /\ Family(k) = "trades" /\ (bytes[k] = "match" => pub[MatchOf(k)] # "no")
    BY <1>0, <1>12, FirstKey DEF Follow, At, CurSound
  <2>2. Followed(k)'
    <3>1. CASE bytes[k] # "empty"
      <4>1. Position(k) + 1 <= MaxPage /\ Enqueue(Trades(Day(k), Position(k) + 1))
        BY <1>0, <1>12, <3>1 DEF Follow
      <4>2. Position(k) < MaxPage /\ state'[Trades(Day(k), Position(k) + 1)] # "ABSENT"
        BY <1>0, <4>1, KeyParts, KeysAround, EnqueueTyped, CollectorAssumption
      <4> QED BY <2>1, <3>1, <4>2 DEF Followed
    <3>2. CASE bytes[k] = "empty"
      <4>1. Day(k) < NDays => Enqueue(Trades(Day(k) + 1, 0))
        BY <1>0, <1>12, <3>2 DEF Follow
      <4>2. Day(k) < NDays => state'[Trades(Day(k) + 1, 0)] # "ABSENT"
        BY <1>0, <4>1, KeysAround, EnqueueTyped
      <4> QED BY <2>1, <3>2, <4>2 DEF Followed
    <3> QED BY <3>1, <3>2
  <2> QED BY <1>2, <1>12, <2>1, <2>2 DEF CurSound
<1>13. CASE Commit
  <2>1. /\ cur # NoJob /\ cur'.key = k /\ cur'.step = "promote" /\ chunk' = chunk
        /\ Family(k) = "trades" /\ bytes[k] = "match" => pub[MatchOf(k)] # "no"
        /\ Family(k) = "trades" => Followed(k)
    BY <1>0, <1>13, FirstKey DEF Commit, CommitPage, At, CurSound
  <2>2. cur' # NoJob
    BY <2>1, FirstKey
  <2> QED BY <1>2, <2>1, <2>2 DEF CurSound
<1>14. CASE Promote \/ StorageFault \/ Crash
  BY <1>1, <1>14 DEF Promote, StorageFault, Crash
<1> QED
  BY <1>1, <1>4, <1>5, <1>6, <1>7, <1>8, <1>9, <1>10, <1>11, <1>12, <1>13, <1>14
  DEF Next, RunStep

-----------------------------------------------------------------------------
(* Chains and followers *)

(* Only the job in hand is published, or the opening match of its page. *)
LEMMA NewlyPublished ==
    ASSUME CollectorInv, [Next]_vars, NEW k \in Keys, pub[k] = "no", pub'[k] # "no"
    PROVE  k = MatchOf(cur.key) \/ (k = cur.key /\ cur.step # "none")
<1>0. /\ cur.key \in Keys /\ MatchOf(cur.key) \in Keys
      /\ pub \in [Keys -> {"no", "held", "visible"}]
  BY CurTyped, KeysAround DEF CollectorInv, TypeOK
<1>1. Reconciled[k] = "no"
  BY DEF Reconciled
<1>2. CASE CommitMatch \/ PromoteMatch
  BY <1>0, <1>2 DEF CommitMatch, CommitPage, PromoteMatch, PromotePage
<1>3. CASE Commit \/ Promote
  BY <1>0, <1>3 DEF Commit, CommitPage, Promote, PromotePage, At
<1> QED
  BY <1>1, <1>2, <1>3
  DEF Next, RunStep, Autoresume, Resume, BeginRun, Stop, EndRun, Claim, EndBatch, FetchError,
      AccessDenied, Rejected, Store, EnqueueMatch, SaveMatch, Follow, StorageFault, Crash,
      vars, jobVars

LEMMA ChainStep ==
    ASSUME CollectorInv, [Next]_vars
    PROVE  ChainSound'
<1> SUFFICES ASSUME NEW k \in Keys, Continues(k), pub'[k] # "no"
             PROVE  Continued(k)'
  BY DEF ChainSound, Continues
<1>1. Continued(k)
  <2>1. CASE pub[k] # "no"
    BY <2>1 DEF CollectorInv, ChainSound
  <2>2. CASE pub[k] = "no"
    <3>1. k = MatchOf(cur.key) \/ (k = cur.key /\ cur.step # "none")
      BY <2>2, NewlyPublished
    <3>2. ~Continues(MatchOf(cur.key))
      BY CurTyped, KeysAround DEF CollectorInv
    <3> QED BY <3>1, <3>2 DEF CollectorInv, CurSound
  <2> QED BY <2>1, <2>2
<1> QED BY <1>1, KeptStep, KeysAround DEF Kept, Continued

(* Only the job in hand is called saved or empty, at its commit. *)
LEMMA NewlySaved ==
    ASSUME CollectorInv, [Next]_vars, NEW k \in Keys, Family(k) = "trades",
           state'[k] \in {"SAVED", "EMPTY"}, state'[k] # state[k]
    PROVE  Commit /\ k = cur.key
<1>0. /\ TypeOK /\ cur.key \in Keys /\ MatchOf(cur.key) \in Keys
      /\ Family(MatchOf(cur.key)) # "trades"
      /\ state \in [Keys -> States]
      /\ AtNextJob => Head(batch).key \in Keys
  BY NextJob, CurTyped, KeysAround DEF CollectorInv, TypeOK
<1>1. state' # state /\ state' # Recovered
  BY DEF Recovered
<1>2. \A j \in Keys, s \in States \ {"SAVED", "EMPTY"} : state' # [state EXCEPT ![j] = s]
  BY <1>0
<1>3. \A j \in Keys : ~Enqueue(j)
  BY <1>0, EnqueueTyped
<1>4. {"ERROR", "STALLED", "STORED", "PAGE_LIMIT"} \subseteq States \ {"SAVED", "EMPTY"}
  BY DEF States
<1>5. ~(Autoresume \/ Resume \/ Stop \/ EndRun \/ EndBatch \/ PromoteMatch \/ Promote \/ Crash
          \/ UNCHANGED vars)
  BY <1>1 DEF Autoresume, Resume, BeginRun, Stop, EndRun, EndBatch, PromoteMatch, Promote,
              PromotePage, Crash, vars, jobVars
<1>6. ~Claim
  BY DEF Claim
<1>7. /\ ~(\E why \in {"transient", "bad"} : FetchError(why)) /\ ~AccessDenied
      /\ ~(\E why \in {"gap", "repeat"} : Rejected(why)) /\ ~(\E c \in Contents : Store(c))
      /\ ~StorageFault /\ ~SaveMatch
  BY <1>0, <1>2, <1>4
  DEF FetchError, AccessDenied, Rejected, Store, Fail, Stall, StorageFault, SaveMatch
<1>8. ~EnqueueMatch /\ ~Follow
  <2>1. ~EnqueueMatch
    BY <1>0, <1>3 DEF EnqueueMatch
  <2>2. ASSUME Follow PROVE FALSE
    BY <1>0, <1>1, <1>2, <1>3, <1>4, <2>2, KeysAround DEF Follow
  <2> QED BY <2>1, <2>2
<1>9. ~CommitMatch
  BY <1>0 DEF CommitMatch, CommitPage
<1>10. Commit
  BY <1>5, <1>6, <1>7, <1>8, <1>9 DEF Next, RunStep
<1>11. k = cur.key
  BY <1>0, <1>10 DEF Commit, CommitPage
<1> QED BY <1>10, <1>11

LEMMA FollowersStep ==
    ASSUME CollectorInv, [Next]_vars
    PROVE  FollowersExist'
<1> SUFFICES ASSUME NEW d \in Days, NEW i \in Positions
             PROVE  LET k == Trades(d, i) IN
                    /\ state'[k] = "SAVED" /\ i < MaxPage => state'[Trades(d, i + 1)] # "ABSENT"
                    /\ state'[k] = "EMPTY" /\ d < NDays => state'[Trades(d + 1, 0)] # "ABSENT"
                    /\ state'[k] = "SAVED" /\ bytes'[k] = "match" => pub'[Match(d, i)] # "no"
  BY DEF FollowersExist
<1>k. PICK k : k = Trades(d, i)
  OBVIOUS
<1>0. /\ k \in Keys /\ k = Trades(d, i) /\ Family(k) = "trades" /\ Day(k) = d /\ Position(k) = i
      /\ MatchOf(k) = Match(d, i) /\ Match(d, i) \in Keys /\ Kept
      /\ d \in Nat /\ i \in Nat /\ NDays \in Nat /\ MaxPage \in Nat
      /\ i < MaxPage => Trades(d, i + 1) \in Keys
      /\ d < NDays => Trades(d + 1, 0) \in Keys
  <2>1. /\ k \in Keys /\ k = Trades(d, i) /\ Family(k) = "trades" /\ Day(k) = d /\ Position(k) = i
        /\ Match(d, i) \in Keys
    BY <1>k, KeysOfPages
  <2>2. d \in Nat /\ i \in Nat /\ NDays \in Nat /\ MaxPage \in Nat
    BY CollectorAssumption DEF Days, Positions
  <2>3. i < MaxPage => i + 1 <= MaxPage
    BY <2>2
  <2> QED BY <2>1, <2>2, <2>3, KeptStep, KeysAround
<1>1. /\ state'[k] = "SAVED" /\ i < MaxPage => state[Trades(d, i + 1)] # "ABSENT"
      /\ state'[k] = "EMPTY" /\ d < NDays => state[Trades(d + 1, 0)] # "ABSENT"
      /\ state'[k] = "SAVED" /\ bytes'[k] = "match" => pub[Match(d, i)] # "no"
  <2>1. CASE state'[k] = state[k]
    <3>1. state[k] = "SAVED" => bytes'[k] = bytes[k]
      BY <1>0 DEF CollectorInv, PagesSound, PageSound, Kept
    <3> QED BY <1>0, <2>1, <3>1 DEF CollectorInv, FollowersExist
  <2>2. CASE state'[k] # state[k] /\ state'[k] \in {"SAVED", "EMPTY"}
    <3>1. Commit /\ k = cur.key
      BY <1>0, <2>2, NewlySaved
    <3>2. /\ Followed(k) /\ (bytes[k] = "match" => pub[MatchOf(k)] # "no")
          /\ bytes' = bytes
      BY <1>0, <3>1 DEF CollectorInv, CurSound, Commit, CommitPage, At
    <3>3. (state'[k] = "SAVED" => bytes[k] # "empty") /\ (state'[k] = "EMPTY" => bytes[k] = "empty")
      <4>1. state'[k] = IF bytes[k] = "empty" THEN "EMPTY" ELSE "SAVED"
        BY <1>0, <3>1 DEF Commit, CommitPage, CollectorInv, TypeOK
      <4> QED BY <4>1
    <3> QED BY <1>0, <3>2, <3>3 DEF Followed
  <2> QED BY <2>1, <2>2
<1> QED BY <1>0, <1>1 DEF Kept

-----------------------------------------------------------------------------
(* The invariant *)

LEMMA CollectorInit == Init => CollectorInv
<1> SUFFICES ASSUME Init PROVE CollectorInv
  OBVIOUS
<1>0. /\ Trades(1, 0) \in Keys /\ NoJob \in [key : Keys, step : CurSteps] /\ NoJob.step = "none"
      /\ cur = NoJob /\ batch = <<>> /\ phase = "down"
  <2>1. 1 \in Days /\ 0 \in Positions
    BY CollectorAssumption DEF Days, Positions
  <2> QED BY <2>1, KeysOfPages, FirstKey DEF Init, NoJob, CurSteps
<1>1. /\ \A k \in Keys : /\ state[k] = IF k = Trades(1, 0) THEN "PENDING" ELSE "ABSENT"
                         /\ bytes[k] = "none" /\ ~chunk[k] /\ pub[k] = "no"
      /\ queue = <<Trades(1, 0)>>
  BY DEF Init
<1>2. TypeOK
  <2>1. \A k \in Keys : state[k] # "ABSENT" <=> k \in {queue[n] : n \in DOMAIN queue}
    <3>1. DOMAIN queue = {1} /\ queue[1] = Trades(1, 0)
      BY <1>1
    <3> QED BY <1>1, <3>1
  <2>2. queue \in Seq(Keys)
    BY <1>0, <1>1
  <2>3. state \in [Keys -> States]
    BY DEF Init, States
  <2>4. batch \in Seq([key : Keys, saved : BOOLEAN])
    <3> DEFINE S == [key : Keys, saved : BOOLEAN]
    <3> HIDE DEF S
    <3>1. batch \in Seq(S)
      BY <1>0
    <3> QED BY <3>1 DEF S
  <2>5. /\ tries \in [Keys -> 0 .. MaxTries] /\ reason \in [Keys -> Reasons]
        /\ bytes \in [Keys -> Contents \cup {"none"}] /\ chunk \in [Keys -> BOOLEAN]
        /\ pub \in [Keys -> {"no", "held", "visible"}]
        /\ fails \in 0 .. Burst /\ cycles \in 0 .. MaxCycles
    BY CollectorAssumption DEF Init, Reasons
  <2> QED BY <1>0, <2>1, <2>2, <2>3, <2>4, <2>5 DEF TypeOK, Init
<1>3. PagesSound /\ ChainSound
  BY <1>1 DEF PagesSound, PageSound, ChainSound
<1>4. BatchSound /\ CurSound
  BY <1>0 DEF BatchSound, CurSound
<1>5. FollowersExist
  BY <1>1, KeysOfPages DEF FollowersExist
<1> QED BY <1>2, <1>3, <1>4, <1>5 DEF CollectorInv

LEMMA CollectorStep == CollectorInv /\ [Next]_vars => CollectorInv'
BY CollectorTypeStep, PagesStep, BatchStep, CurStep, ChainStep, FollowersStep DEF CollectorInv

LEMMA CollectorInvariant == Spec => []CollectorInv
BY CollectorInit, CollectorStep, PTL DEF Spec

(* The tables, the page store and the run hold what the code declares, and  *)
(* a job has a row exactly if it was queued.                                *)
THEOREM CollectorTypeCorrect == Spec => []TypeOK
<1>1. CollectorInv => TypeOK
  BY DEF CollectorInv
<1> QED BY <1>1, CollectorInvariant, PTL

(* validate_page_chain: a published page continues a published page with    *)
(* rows, in whatever order jobs are claimed, retried and recovered.         *)
THEOREM ChainsHaveNoGap == Spec => []NoGapInChain
<1>1. CollectorInv => NoGapInChain
  BY DEF CollectorInv, ChainSound, Continued, Preceding, NoGapInChain
<1> QED BY <1>1, CollectorInvariant, PTL

(* follow and _save_opening_match run before the commit: what a saved or    *)
(* empty page calls for is there, whatever is killed and whatever fails.    *)
THEOREM FollowersSafe == Spec => []FollowersExist
<1>1. CollectorInv => FollowersExist
  BY DEF CollectorInv
<1> QED BY <1>1, CollectorInvariant, PTL

(* load_saved: the response held for a job is the one it is resumed with,   *)
(* however often the job is claimed, fails and is claimed again.            *)
THEOREM BytesAreFinal == Spec => SavedBytesAreFinal
<1>1. CollectorInv /\ [Next]_vars =>
        [\A k \in Keys : bytes[k] # "none" => bytes'[k] = bytes[k]]_vars
  BY BytesStep
<1> QED BY <1>1, CollectorInvariant, PTL DEF Spec, SavedBytesAreFinal
=============================================================================
