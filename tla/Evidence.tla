------------------------------ MODULE Evidence ------------------------------
(***************************************************************************)
(* The evidence chain of one auction: the auction_events rows that the     *)
(* Persistence Workers project from the Redis Stream and link by an HMAC   *)
(* chain (InsertEvent, fillEventHash), the readers that judge it (the      *)
(* evidence card of handleEvidence and the verify subcommands), the cache  *)
(* of earlier verdicts they share (evidence_chain_cache), and              *)
(* DeleteAuction, which purges the Stream and drops the rows.              *)
(*                                                                         *)
(* One action is one statement sent to Redis or MySQL, or one transaction, *)
(* so workers, readers, the deleter and an operator editing the table      *)
(* interleave wherever the code lets them.  The HMAC is symbolic and       *)
(* injective: a hash is the sequence of <<seq, body>> pairs it covers, and *)
(* <<>> is both NULL and the empty string, which the code never tells      *)
(* apart.  Key custody is constant: the key source of the repository knows *)
(* one version only.                                                       *)
(***************************************************************************)
EXTENDS Integers, Sequences, FiniteSets, FiniteSetsExt

CONSTANTS
    Workers,            \* Persistence Workers (one per lumen process)
    Readers,            \* evidence-card requests and verify runs in flight
    MaxSeq,             \* events of the auction; event MaxSeq is terminal
    MaxTime,            \* bound on the database clock NOW(6)
    MaxFaults,          \* bound on worker restarts and on rows touched behind
                        \* the program's back, together
    Removals            \* when an operator may remove a row: "never",
                        \* "quiet" (no verification running) or "any"

ASSUME EvidenceAssumption ==
    /\ MaxSeq \in Nat \ {0}
    /\ MaxTime \in Nat
    /\ MaxFaults \in Nat
    /\ Removals \in {"never", "quiet", "any"}

VARIABLES
    log,        \* events in the Stream: the seqs 1..log
    purged,     \* the Redis keys of the auction are deleted
    status,     \* auctions row: "live", "terminal" or "gone"
    rows,       \* auction_events by seq
    cached,     \* the evidence_chain_cache row
    now,        \* the database clock
    worker,     \* per Persistence Worker: its batch and its cursor
    reader,     \* per reader: where it is and what it has read
    deleter,    \* DeleteAuction: "idle", "purge", "tx", "done"
    edits,      \* rows edited or removed by an operator so far
    crashes     \* worker restarts so far

vars == <<log, purged, status, rows, cached, now, worker, reader, deleter,
          edits, crashes>>

Seqs == 1..MaxSeq
NoRow == [body |-> "none"]
NoCache == [seq |-> -1]

(***************************************************************************)
(* The chain.                                                              *)
(***************************************************************************)

\* evidenceHashWithKey over prev_hash, seq, event_type and payload.
EvidenceHash(prev, s, body) == Append(prev, <<s, body>>)

Present(t) == {s \in Seqs : t[s] # NoRow}
MaxSeqOf(t) == Max(Present(t) \cup {0})
TipOf(t) == IF MaxSeqOf(t) = 0 THEN <<>> ELSE t[MaxSeqOf(t)].hash

\* One iteration of verifyEvidenceChainRows: row s follows the row before it
\* (the cached head when s is the first row read) and hashes to its event_hash.
Linked(t, s, from, head) ==
    LET before == IF s = from THEN head ELSE t[s - 1].hash
    IN  /\ s = from \/ t[s - 1] # NoRow
        /\ t[s].prev = before
        /\ t[s].hash = EvidenceHash(before, s, t[s].body)

Breaks(t, from, head) ==
    {s \in Present(t) : s >= from /\ ~Linked(t, s, from, head)}

\* The rows a verification of the whole chain would accept.
Good(t) == Present(t) \ Breaks(t, 1, <<>>)

(***************************************************************************)
(* findMismatch: the Stream and the projection walked side by side.  Event *)
(* types follow from the seq here, so only the seqs can differ.            *)
(***************************************************************************)
\* Mutant: a projection that is merely behind the Stream is not reported.
FindMismatch_IgnoresTail(stream, timeline, snapshotSeq) ==
    IF timeline \ stream # {} THEN Min(timeline \ stream) ELSE 0

FindMismatch(stream, timeline, snapshotSeq) ==
    LET differ == (stream \ timeline) \cup (timeline \ stream)
        tip == Max(stream \cup {0})
    IN  IF differ # {} THEN Min(differ)
        ELSE IF snapshotSeq > 0 /\ stream # {} /\ snapshotSeq # tip THEN tip
        ELSE 0

(***************************************************************************)
(* States.                                                                 *)
(***************************************************************************)
IdleWorker == [pc |-> "idle", next |-> 0, upto |-> 0, cursor |-> 0]
IdleReader ==
    [pc |-> "idle", kind |-> "none", snapshot |-> 0, stream |-> {},
     count |-> 0, max |-> 0, upd |-> 0, tip |-> <<>>, cache |-> NoCache,
     at |-> 0, from |-> 1, last |-> 0, head |-> <<>>,
     verdict |-> "none", brk |-> 0,
     \* what the properties compare the verdict with: rows that were good, and
     \* seqs that were not, at some instant of the call; events at the start of a
     \* verify run
     good |-> {}, bad |-> {}, floor |-> 0]

Init ==
    /\ log = 0 /\ purged = FALSE /\ status = "live"
    /\ rows = [s \in Seqs |-> NoRow]
    /\ cached = NoCache
    /\ now = 1
    /\ worker = [w \in Workers |-> IdleWorker]
    /\ reader = [r \in Readers |-> IdleReader]
    /\ deleter = "idle"
    /\ edits = 0 /\ crashes = 0

\* Every step that touches the rows lets the running calls witness them.
Witness(t) ==
    [r \in Readers |->
        IF reader[r].pc \in {"idle", "done"} THEN reader[r]
        ELSE [reader[r] EXCEPT !.good = @ \cup Good(t),
                               !.bad = @ \cup (Seqs \ Good(t))]]

(***************************************************************************)
(* The auction goes on; time passes.                                       *)
(***************************************************************************)
Publish ==
    /\ ~purged /\ log < MaxSeq
    /\ log' = log + 1
    /\ UNCHANGED <<purged, status, rows, cached, now, worker, reader, deleter,
                   edits, crashes>>

Tick ==
    /\ now < MaxTime
    /\ now' = now + 1
    /\ UNCHANGED <<log, purged, status, rows, cached, worker, reader, deleter,
                   edits, crashes>>

(***************************************************************************)
(* Persistence Worker: project reads the Stream after its cursor into      *)
(* memory and then takes the batch event by event.                         *)
(***************************************************************************)
Project(w) ==
    /\ worker[w].pc = "idle"
    /\ ~purged /\ worker[w].cursor < log
    /\ worker' = [worker EXCEPT ![w] = [@ EXCEPT !.pc = "insert",
                                                 !.next = worker[w].cursor + 1,
                                                 !.upto = log]]
    /\ UNCHANGED <<log, purged, status, rows, cached, now, reader, deleter,
                   edits, crashes>>

\* An error in the loop: break; the next sweep re-reads from the cursor.
GiveUp(w) ==
    worker' = [worker EXCEPT ![w] = [IdleWorker EXCEPT !.cursor = worker[w].cursor]]

\* Mutant: a row that is already there is taken for projected, hash and all.
InsertEvent_NoSelfHeal(w) ==
    LET s == worker[w].next
    IN  /\ worker[w].pc = "insert"
        /\ \/ /\ rows[s] = NoRow
              /\ rows' = [rows EXCEPT ![s] = [body |-> "event", hash |-> <<>>,
                                              prev |-> <<>>, upd |-> now]]
              /\ worker' = [worker EXCEPT ![w].pc = "fill"]
           \/ /\ rows[s] # NoRow
              /\ worker' = [worker EXCEPT ![w].pc = "status"]
              /\ UNCHANGED rows
        /\ reader' = Witness(rows')
        /\ UNCHANGED <<log, purged, status, cached, now, deleter, edits, crashes>>

\* InsertEvent's INSERT IGNORE; a row that is there with another payload is
\* ErrEventPayloadMismatch.
InsertEvent(w) ==
    LET s == worker[w].next
    IN  /\ worker[w].pc = "insert"
        /\ \/ /\ rows[s] = NoRow
              /\ rows' = [rows EXCEPT ![s] = [body |-> "event", hash |-> <<>>,
                                              prev |-> <<>>, upd |-> now]]
              /\ worker' = [worker EXCEPT ![w].pc = "fill"]
           \/ /\ rows[s] # NoRow /\ rows[s].body = "event"
              /\ worker' = [worker EXCEPT ![w].pc = "fill"]
              /\ UNCHANGED rows
           \/ /\ rows[s] # NoRow /\ rows[s].body # "event"
              /\ GiveUp(w)
              /\ UNCHANGED rows
        /\ reader' = Witness(rows')
        /\ UNCHANGED <<log, purged, status, cached, now, deleter, edits, crashes>>

\* The row right before s exists and is chained (or s is the genesis row).
\* Mutant: a row with no row before it is taken for the genesis row.
PreviousChained_AnyGenesis(t, s) ==
    LET prior == {p \in Present(t) : p < s}
    IN  prior # {} => Max(prior) = s - 1 /\ t[s - 1].hash # <<>>

PreviousChained(t, s) ==
    LET prior == {p \in Present(t) : p < s}
    IN  IF prior = {} THEN s = 1
        ELSE Max(prior) = s - 1 /\ t[s - 1].hash # <<>>

\* fillEventHash, one transaction: a row that has a hash is left alone, a
\* missing row or an unchained predecessor is an error the next sweep retries.
FillEventHash(w) ==
    LET s == worker[w].next
        prev == IF s - 1 \in Present(rows) THEN rows[s - 1].hash ELSE <<>>
    IN  /\ worker[w].pc = "fill"
        /\ \/ /\ rows[s] # NoRow /\ rows[s].hash # <<>>
              /\ worker' = [worker EXCEPT ![w].pc = "status"]
              /\ UNCHANGED rows
           \/ /\ rows[s] # NoRow /\ rows[s].hash = <<>> /\ PreviousChained(rows, s)
              /\ rows' = [rows EXCEPT ![s].hash = EvidenceHash(prev, s, rows[s].body),
                                      ![s].prev = prev,
                                      ![s].upd = now]
              /\ worker' = [worker EXCEPT ![w].pc = "status"]
           \/ /\ rows[s] # NoRow => rows[s].hash = <<>> /\ ~PreviousChained(rows, s)
              /\ GiveUp(w)
              /\ UNCHANGED rows
        /\ reader' = Witness(rows')
        /\ UNCHANGED <<log, purged, status, cached, now, deleter, edits, crashes>>

\* The rest of the loop body: the terminal event sets the auctions row (an
\* UPDATE of a deleted row changes nothing) and the cursor moves on.
ProjectStatus(w) ==
    LET s == worker[w].next
    IN  /\ worker[w].pc = "status"
        /\ status' = IF s = MaxSeq /\ status = "live" THEN "terminal" ELSE status
        /\ worker' = [worker EXCEPT ![w] =
                         IF s < @.upto
                         THEN [@ EXCEPT !.pc = "insert", !.next = s + 1, !.cursor = s]
                         ELSE [IdleWorker EXCEPT !.cursor = s]]
        /\ UNCHANGED <<log, purged, rows, cached, now, reader, deleter, edits, crashes>>

\* A restarted process has an empty cursor map and sweeps every Stream again.
Restart(w) ==
    /\ edits + crashes < MaxFaults
    /\ worker[w] # IdleWorker
    /\ worker' = [worker EXCEPT ![w] = IdleWorker]
    /\ crashes' = crashes + 1
    /\ UNCHANGED <<log, purged, status, rows, cached, now, reader, deleter, edits>>

(***************************************************************************)
(* DeleteAuction: the terminal gate, the best-effort Redis purge, then one *)
(* transaction.                                                            *)
(***************************************************************************)
DeleteGate ==
    /\ deleter = "idle" /\ status = "terminal"
    /\ deleter' = "purge"
    /\ UNCHANGED <<log, purged, status, rows, cached, now, worker, reader,
                   edits, crashes>>

\* A Redis error is ignored: the Stream then outlives the rows.
DeletePurge ==
    /\ deleter = "purge"
    /\ \/ purged' = TRUE /\ log' = 0
       \/ UNCHANGED <<purged, log>>
    /\ deleter' = "tx"
    /\ UNCHANGED <<status, rows, cached, now, worker, reader, edits, crashes>>

DeleteRows ==
    /\ deleter = "tx"
    /\ rows' = [s \in Seqs |-> NoRow]
    /\ cached' = NoCache
    /\ status' = "gone"
    /\ deleter' = "done"
    /\ reader' = Witness(rows')
    /\ UNCHANGED <<log, purged, now, worker, edits, crashes>>

(***************************************************************************)
(* An operator works on auction_events directly.  updated_at is ON UPDATE  *)
(* CURRENT_TIMESTAMP(6), so an edit carries the time of its statement.     *)
(***************************************************************************)
Edit(s) ==
    /\ edits + crashes < MaxFaults
    /\ rows[s] # NoRow
    /\ rows' = [rows EXCEPT ![s].body = IF @ = "event" THEN "edited" ELSE "event",
                            ![s].upd = now]
    /\ edits' = edits + 1
    /\ reader' = Witness(rows')
    /\ UNCHANGED <<log, purged, status, cached, now, worker, deleter, crashes>>

Remove(s) ==
    /\ edits + crashes < MaxFaults
    /\ rows[s] # NoRow
    /\ \/ Removals = "any"
       \/ Removals = "quiet" /\ \A r \in Readers : reader[r].pc \in {"idle", "done"}
    /\ rows' = [rows EXCEPT ![s] = NoRow]
    /\ edits' = edits + 1
    /\ reader' = Witness(rows')
    /\ UNCHANGED <<log, purged, status, cached, now, worker, deleter, crashes>>

(***************************************************************************)
(* Readers: handleEvidence ("card"), computeVerifyReport ("verify") and    *)
(* RunVerifyEvidence, which judges the chain as a card does and no more.   *)
(***************************************************************************)
ReaderOnly == UNCHANGED <<log, purged, status, rows, now, worker, deleter, edits, crashes>>

Begin(r, kind, pc) ==
    /\ reader[r].pc \in {"idle", "done"}
    /\ reader' = [reader EXCEPT ![r] =
          [IdleReader EXCEPT !.kind = kind, !.pc = pc,
                             !.good = Good(rows), !.bad = Seqs \ Good(rows),
                             !.floor = log]]
    /\ UNCHANGED cached /\ ReaderOnly

\* The card needs the auctions row; the two subcommands do not.
HandleEvidence(r)    == status # "gone" /\ Begin(r, "card", "timeline")
RunVerify(r)         == Begin(r, "verify", "snapshot")
RunVerifyEvidence(r) == Begin(r, "card", "stats")

\* On to the next phase; the locals of the last one are dead.
Enter(r, pc) ==
    reader' = [reader EXCEPT ![r] =
        [IdleReader EXCEPT !.pc = pc, !.kind = reader[r].kind,
                           !.good = reader[r].good, !.bad = reader[r].bad,
                           !.floor = reader[r].floor]]

\* The end of a call: what it read is dropped, its verdict is kept, with the
\* history the verdict is to be compared with.
Answer(r, verdict, at, last) ==
    reader' = [reader EXCEPT ![r] =
        [IdleReader EXCEPT !.pc = "done", !.verdict = verdict, !.brk = at,
                           !.last = last,
                           !.good = IF verdict = "ok" THEN reader[r].good ELSE {},
                           !.bad = IF verdict = "broken" THEN reader[r].bad ELSE {},
                           !.floor = IF verdict = "ok" /\ reader[r].kind = "verify"
                                     THEN reader[r].floor ELSE 0]]

\* Any of the queries may fail; the call ends in an error.
ReaderFails(r) ==
    /\ reader[r].pc \notin {"idle", "done"}
    /\ Answer(r, "error", 0, 0)
    /\ UNCHANGED cached /\ ReaderOnly

\* A purged auction has no state hash: ErrNotFound.
ReadSnapshot(r) ==
    /\ reader[r].pc = "snapshot"
    /\ ~purged
    /\ reader' = [reader EXCEPT ![r].pc = "stream", ![r].snapshot = log]
    /\ UNCHANGED cached /\ ReaderOnly

ReadStream(r) ==
    /\ reader[r].pc = "stream"
    /\ reader' = [reader EXCEPT ![r].pc = "timeline", ![r].stream = 1..log]
    /\ UNCHANGED cached /\ ReaderOnly

EventTimeline(r) ==
    LET me == reader[r]
        mismatch == FindMismatch(me.stream, Present(rows), me.snapshot)
    IN  /\ me.pc = "timeline"
        /\ \/ (me.kind = "card" \/ mismatch = 0) /\ Enter(r, "stats")
           \/ me.kind = "verify" /\ mismatch # 0 /\ Answer(r, "mismatch", mismatch, 0)
        /\ UNCHANGED cached /\ ReaderOnly

\* evidenceChainStats is two statements: the aggregate, then the tip's hash.
\* The tip may be gone by then (sql.ErrNoRows: ReaderFails).
Stats(r, pc, next) ==
    /\ reader[r].pc = pc
    /\ reader' = [reader EXCEPT
          ![r].pc = next,
          ![r].count = Cardinality(Present(rows)),
          ![r].max = MaxSeqOf(rows),
          ![r].upd = Max({rows[s].upd : s \in Present(rows)} \cup {0})]
    /\ UNCHANGED cached /\ ReaderOnly

ReadTip(r, pc, next) ==
    LET me == reader[r]
    IN  /\ me.pc = pc
        /\ me.max # 0 => rows[me.max] # NoRow
        /\ reader' = [reader EXCEPT
              ![r].pc = next,
              ![r].tip = IF me.max = 0 THEN <<>> ELSE rows[me.max].hash]
        /\ UNCHANGED cached /\ ReaderOnly

\* The cached verdict covers exactly the rows there are now, and none of them
\* was written at or after the time the verification began.
CacheHit(me, c) ==
    /\ c # NoCache
    /\ c.seq = me.max /\ c.count = me.count /\ c.head = me.tip
    /\ me.upd < c.at

LoadCache(r) ==
    LET me == reader[r]
    IN  /\ me.pc = "cache"
        /\ \/ /\ CacheHit(me, cached)
              /\ Answer(r, "ok", 0, me.max)
           \/ /\ ~CacheHit(me, cached)
              /\ cached # NoCache /\ cached.seq > 0 /\ cached.seq < me.max
              /\ reader' = [reader EXCEPT ![r].pc = "prefixNow", ![r].cache = cached,
                                          ![r].count = 0, ![r].upd = 0, ![r].tip = <<>>,
                                          ![r].max = 0]
           \/ /\ ~CacheHit(me, cached)
              /\ cached # NoCache => cached.seq <= 0 \/ cached.seq >= me.max
              /\ Enter(r, "now")
        /\ UNCHANGED cached /\ ReaderOnly

\* dbNow, taken before the rows are read.
DBNow(r, pc, next) ==
    /\ reader[r].pc = pc
    /\ reader' = [reader EXCEPT ![r].pc = next, ![r].at = now]
    /\ UNCHANGED cached /\ ReaderOnly

\* Mutant: a row written in the same microsecond counts as unchanged.
ChangedSince_Strict(s, at) == rows[s].upd > at

ChangedSince(s, at) == rows[s].upd >= at

\* evidencePrefixUnchanged: the aggregate over the verified prefix ...
PrefixCounts(r) ==
    LET me == reader[r]
        prefix == {s \in Present(rows) : s <= me.cache.seq}
    IN  /\ me.pc = "prefix"
        /\ IF /\ Cardinality(prefix) = me.cache.seq
              /\ \A s \in prefix : ~ChangedSince(s, me.cache.at)
           THEN reader' = [reader EXCEPT ![r].pc = "prefixHead"]
           ELSE Enter(r, "now")
        /\ UNCHANGED cached /\ ReaderOnly

\* ... then the hash of its last row, which must be the cached head.
PrefixHead(r) ==
    LET me == reader[r]
        c == me.cache
    IN  /\ me.pc = "prefixHead"
        /\ IF rows[c.seq] # NoRow /\ rows[c.seq].hash = c.head
           THEN reader' = [reader EXCEPT ![r].pc = "rows", ![r].from = c.seq + 1,
                                         ![r].head = c.head,
                                         ![r].cache = NoCache]
           ELSE Enter(r, "now")
        /\ UNCHANGED cached /\ ReaderOnly

\* verifyEvidenceChainRows: one SELECT, one consistent read.
VerifyRows(r) ==
    LET me == reader[r]
        breaks == Breaks(rows, me.from, me.head)
    IN  /\ me.pc = "rows"
        /\ \/ breaks # {} /\ Answer(r, "broken", Min(breaks), 0)
           \/ /\ breaks = {}
              /\ reader' = [reader EXCEPT
                    ![r].pc = "restat",
                    ![r].last = Max(Present(rows) \cup {me.from - 1}),
                    ![r].head = IF MaxSeqOf(rows) >= me.from THEN TipOf(rows) ELSE @]
        /\ UNCHANGED cached /\ ReaderOnly

\* storeEvidenceChainCache: fresh statistics, written unless the tip moved;
\* the verdict is ok either way.
StoreCache(r) ==
    LET me == reader[r]
    IN  /\ me.pc = "store"
        /\ cached' = IF me.max = me.last /\ me.tip = me.head
                     THEN [seq |-> me.last, count |-> me.count, head |-> me.head,
                           at |-> me.at]
                     ELSE cached
        /\ Answer(r, "ok", 0, me.last)
        /\ ReaderOnly

ReaderStep(r) ==
    \/ HandleEvidence(r) \/ RunVerify(r) \/ RunVerifyEvidence(r)
    \/ ReadSnapshot(r)
    \/ ReadStream(r)
    \/ EventTimeline(r)
    \/ Stats(r, "stats", "tip")
    \/ ReadTip(r, "tip", "cache")
    \/ LoadCache(r)
    \/ DBNow(r, "prefixNow", "prefix")
    \/ PrefixCounts(r)
    \/ PrefixHead(r)
    \/ DBNow(r, "now", "rows")
    \/ VerifyRows(r)
    \/ Stats(r, "restat", "retip")
    \/ ReadTip(r, "retip", "store")
    \/ StoreCache(r)
    \/ ReaderFails(r)

WorkerStep(w) ==
    \/ Project(w)
    \/ InsertEvent(w)
    \/ FillEventHash(w)
    \/ ProjectStatus(w)

Next ==
    \/ Publish
    \/ Tick
    \/ \E w \in Workers : WorkerStep(w) \/ Restart(w)
    \/ \E r \in Readers : ReaderStep(r)
    \/ DeleteGate \/ DeletePurge \/ DeleteRows
    \/ \E s \in Seqs : Edit(s) \/ Remove(s)

Spec == Init /\ [][Next]_vars

(***************************************************************************)
(* Properties.                                                             *)
(***************************************************************************)

\* The rows that carry a hash are a prefix of the auction: two workers, a
\* restart between INSERT and fill, or a DeleteAuction under a running batch
\* never chain across a missing event (fillEventHash's contiguity guard).
ChainHasNoGap ==
    edits = 0 =>
        \A s \in Present(rows) : rows[s].hash # <<>> => 1..s \subseteq Good(rows)

\* A worker's cursor only passes events that are chained, although the row may be
\* another worker's, or one left without its hash by a restart between INSERT and
\* fill: no sweep re-reads what is behind the cursor, so an event skipped there
\* would stay out of the chain for as long as the process runs.
NothingSkipped ==
    edits = 0 /\ deleter # "done" =>
        \A w \in Workers : 1..worker[w].cursor \subseteq Good(rows)

\* What VerifyEvidenceChain answers was true of every row at some instant of
\* the call, cached verdicts and edits racing the call included: "ok" up to seq
\* n means each of the rows 1..n was intact, "broken at b" that row b was not.
VerdictIsHonest ==
    \A r \in Readers : reader[r].pc = "done" =>
        /\ reader[r].verdict = "ok" => 1..reader[r].last \subseteq reader[r].good
        /\ reader[r].verdict = "broken" => reader[r].brk \in reader[r].bad

\* A verify run that prints "consistent" found every event the Stream held when
\* the run began projected and chained in MySQL (unless a DeleteAuction is
\* taking the auction away meanwhile).
GreenMeansProjected ==
    \A r \in Readers :
        (reader[r].pc = "done" /\ reader[r].verdict = "ok" /\ deleter = "idle")
        => 1..reader[r].floor \subseteq reader[r].good

=============================================================================
