-------------------------- MODULE Evidence_proofs --------------------------
(***************************************************************************)
(* Theorems about Evidence: the chain has no gap, a verdict is honest, and *)
(* a green verify run means projected, for any number of workers, readers, *)
(* events, edits and restarts.                                             *)
(*                                                                         *)
(* The heart is the argument for the verdict cache.  A certificate - the   *)
(* cached row, or what a running verification has established - says that  *)
(* the rows 1..k were good after the database clock stood at at.  Every    *)
(* write stamps updated_at with a time that is at or after it, so rows     *)
(* 1..k that are all there and all older than at are still those rows.     *)
(***************************************************************************)
EXTENDS Evidence, NaturalsInduction, FiniteSetTheorems, TLAPS

-----------------------------------------------------------------------------
(***************************************************************************)
(* Least and greatest numbers of a set, and counting.                      *)
(***************************************************************************)

\* The SELECT MIN of a nonempty set of naturals is in it and bounds it.
LEMMA MinIsLeast ==
  ASSUME NEW N \in SUBSET Nat, N # {}
  PROVE  Min(N) \in N /\ \A m \in N : Min(N) <= m
<1>1. PICK n \in N : \A m \in N : ~(<<m, n>> \in OpToRel(<, Nat))
  BY NatLessThanWellFounded, WFMin
<1>2. ASSUME NEW m \in N PROVE n <= m
  <2>1. m \in Nat /\ n \in Nat
    OBVIOUS
  <2>2. <<m, n>> \in Nat \X Nat
    BY <2>1
  <2>3. ~(m < n)
    BY <1>1, <2>2 DEF OpToRel
  <2> QED
    BY <2>1, <2>3
<1> QED
  BY <1>2 DEF Min

\* The SELECT MAX of a nonempty bounded set of naturals likewise: the number
\* whose distance to the bound is least.
LEMMA MaxIsGreatest ==
  ASSUME NEW N \in SUBSET Nat, N # {}, NEW b \in Nat, \A n \in N : n <= b
  PROVE  Max(N) \in N /\ \A m \in N : m <= Max(N)
<1> DEFINE D == {b - n : n \in N}
<1>1. D \in SUBSET Nat /\ D # {}
  <2>1. ASSUME NEW n \in N PROVE b - n \in Nat
    <3>1. n \in Nat /\ n <= b
      OBVIOUS
    <3> QED
      BY <3>1
  <2>2. PICK n \in N : TRUE
    OBVIOUS
  <2>3. b - n \in D
    BY <2>2
  <2> QED
    BY <2>1, <2>3
<1>2. Min(D) \in D /\ \A d \in D : Min(D) <= d
  <2> HIDE DEF D
  <2> QED
    BY <1>1, MinIsLeast
<1>3. PICK n \in N : Min(D) = b - n
  BY <1>2
<1>4. ASSUME NEW m \in N PROVE n >= m
  <2>1. b - m \in D
    OBVIOUS
  <2>2. b - n <= b - m
    BY <1>2, <1>3, <2>1
  <2>3. m \in Nat /\ n \in Nat
    OBVIOUS
  <2> QED
    BY <2>2, <2>3
<1>5. Max(N) \in N /\ \A m \in N : Max(N) >= m
  BY <1>4 DEF Max
<1>6. Max(N) \in Nat
  BY <1>5
<1> QED
  BY <1>5, <1>6

\* COUNT(*) = k over the rows up to k says that they are all there.
LEMMA CountFillsPrefix ==
  ASSUME NEW k \in Nat, NEW P \in SUBSET (1 .. k)
  PROVE  Cardinality(P) \in Nat /\ (Cardinality(P) = k <=> P = 1 .. k)
<1>1. IsFiniteSet(1 .. k) /\ Cardinality(1 .. k) = k
  BY FS_Interval
<1>2. IsFiniteSet(P) /\ (Cardinality(1 .. k) = Cardinality(P) => 1 .. k = P)
  BY <1>1, FS_Subset
<1>3. Cardinality(P) \in Nat
  BY <1>2, FS_CardinalityType
<1> QED
  BY <1>1, <1>2, <1>3

-----------------------------------------------------------------------------
(***************************************************************************)
(* Rows.                                                                   *)
(***************************************************************************)
Bodies == {"event", "edited"}
Hashes == Seq(Seqs \X Bodies)
Row    == [body : Bodies, hash : Hashes, prev : Hashes, upd : Nat]

\* A table of auction_events rows.
Table == [Seqs -> Row \cup {NoRow}]

\* A row that is there is not the absent one.
LEMMA RowIsThere ==
  ASSUME NEW x \in Row
  PROVE  x # NoRow
<1>1. x.body # "none"
  BY DEF Row, Bodies
<1>2. NoRow.body = "none"
  BY DEF NoRow
<1> QED
  BY <1>1, <1>2

\* A hash that EvidenceHash returns is a hash, and not the empty one.
LEMMA HashIsThere ==
  ASSUME NEW prev \in Hashes, NEW s \in Seqs, NEW body \in Bodies
  PROVE  EvidenceHash(prev, s, body) \in Hashes /\ EvidenceHash(prev, s, body) # <<>>
<1>1. <<s, body>> \in Seqs \X Bodies
  OBVIOUS
<1> DEFINE E == Seqs \X Bodies
<1>2. prev \in Seq(E) /\ <<s, body>> \in E
  BY <1>1 DEF Hashes
<1>3. Append(prev, <<s, body>>) \in Seq(E)
  <2> HIDE DEF E
  <2> QED
    BY <1>2
<1>4. Len(Append(prev, <<s, body>>)) = Len(prev) + 1 /\ Len(prev) \in Nat
  <2> HIDE DEF E
  <2> QED
    BY <1>2
<1>5. Len(<<>>) = 0
  OBVIOUS
<1>6. Append(prev, <<s, body>>) # <<>>
  BY <1>4, <1>5
<1> QED
  BY <1>3, <1>6 DEF EvidenceHash, Hashes

\* The rows that a verification of the whole chain accepts, row by row.
LEMMA GoodRow ==
  ASSUME NEW t, NEW s \in Seqs
  PROVE  s \in Good(t) <=> t[s] # NoRow /\ Linked(t, s, 1, <<>>)
BY EvidenceAssumption DEF Good, Present, Breaks, Seqs

\* Whether a row is good depends on it and on the row before it.
LEMMA GoodDependsOnTwo ==
  ASSUME NEW t, NEW u, NEW s \in Seqs, t[s] = u[s], s > 1 => t[s - 1] = u[s - 1]
  PROVE  s \in Good(t) <=> s \in Good(u)
<1>1. s = 1 \/ s > 1
  BY EvidenceAssumption DEF Seqs
<1>2. CASE s = 1
  BY <1>2, GoodRow DEF Linked
<1>3. CASE s > 1
  <2>1. s # 1
    BY <1>3
  <2> QED
    BY <1>3, <2>1, GoodRow DEF Linked
<1> QED
  BY <1>1, <1>2, <1>3

\* A good row has a hash.
LEMMA GoodIsHashed ==
  ASSUME NEW t \in Table, NEW s \in Good(t)
  PROVE  s \in Seqs /\ t[s] \in Row /\ t[s].hash # <<>>
<1>1. s \in Seqs
  BY DEF Good, Present
<1>2. t[s] # NoRow /\ Linked(t, s, 1, <<>>)
  BY <1>1, GoodRow
<1>3. t[s] \in Row
  BY <1>1, <1>2 DEF Table
<1>4. t[s].hash = EvidenceHash(t[s].prev, s, t[s].body)
  BY <1>2 DEF Linked
<1>5. t[s].prev \in Hashes /\ t[s].body \in Bodies
  BY <1>3 DEF Row
<1> QED
  BY <1>1, <1>3, <1>4, <1>5, HashIsThere

-----------------------------------------------------------------------------
(***************************************************************************)
(* Types and the kinds of steps.                                           *)
(***************************************************************************)
Place == [pc : {"idle", "insert", "fill", "status"}, next : Nat,
          upto : 0 .. MaxSeq, cursor : 0 .. MaxSeq]

\* A worker in a batch is at one of its events.
InBatch(x) == x.pc # "idle" => x.next \in 1 .. x.upto

RowTypes ==
  /\ log \in 0 .. MaxSeq
  /\ now \in Nat
  /\ rows \in Table
  /\ worker \in [Workers -> Place]
  /\ \A w \in Workers : InBatch(worker[w])
  /\ edits \in Nat

PrevHash(s) == IF s - 1 \in Present(rows) THEN rows[s - 1].hash ELSE <<>>

\* What the statements of workers and operators do to a row.
Touches(s) == rows' \in Table /\ \A p \in Seqs : p # s => rows'[p] = rows[p]

Inserts(s) ==
  /\ rows[s] = NoRow /\ Touches(s)
  /\ rows'[s] \in Row /\ rows'[s].hash = <<>> /\ rows'[s].upd = now
Fills(s) ==
  /\ rows[s] # NoRow /\ rows[s].hash = <<>> /\ PreviousChained(rows, s) /\ Touches(s)
  /\ rows'[s] \in Row /\ rows'[s].upd = now /\ rows'[s].prev = PrevHash(s)
  /\ rows'[s].hash = EvidenceHash(PrevHash(s), s, rows'[s].body)
Edits(s) ==
  /\ rows[s] # NoRow /\ Touches(s)
  /\ rows'[s] \in Row /\ rows'[s].upd = now
  /\ rows'[s].prev = rows[s].prev /\ rows'[s].hash = rows[s].hash
Removes(s) ==
  /\ \/ Removals = "any"
     \/ Removals = "quiet" /\ \A r \in Readers : reader[r].pc \in {"idle", "done"}
  /\ Touches(s) /\ rows'[s] = NoRow
Empties == rows' = [s \in Seqs |-> NoRow] /\ deleter' = "done"

\* A statement that may write rows.
RowStep ==
  /\ now' = now /\ reader' = Witness(rows')
  /\ cached' = cached \/ (Empties /\ cached' = NoCache)
  /\ \/ rows' = rows /\ edits' = edits
     \/ Empties /\ edits' = edits
     \/ \E s \in Seqs : (Inserts(s) \/ Fills(s)) /\ edits' = edits
     \/ \E s \in Seqs : (Edits(s) \/ Removes(s)) /\ edits' = edits + 1

\* A step that neither writes nor reads rows.
Elsewhere ==
  rows' = rows /\ cached' = cached /\ reader' = reader /\ now' \in {now, now + 1} /\ edits' = edits

\* A reader's step writes nothing but its own state and the cache.
LEMMA ReadersOnlyRead ==
  ASSUME NEW r \in Readers, ReaderStep(r)
  PROVE  ReaderOnly
BY DEF ReaderStep, HandleEvidence, RunVerify, RunVerifyEvidence, Begin, ReadSnapshot, ReadStream,
       EventTimeline, Stats, ReadTip, LoadCache, DBNow, PrefixCounts, PrefixHead, VerifyRows,
       StoreCache, ReaderFails

\* A row of a table, and the rows that may be put in its place.
LEMMA RowFields ==
  ASSUME RowTypes, NEW s \in Seqs
  PROVE  /\ rows[s] # NoRow => rows[s] \in Row
         /\ rows[s] # NoRow => /\ rows[s].body \in Bodies /\ rows[s].hash \in Hashes
                               /\ rows[s].prev \in Hashes /\ rows[s].upd \in Nat
BY DEF RowTypes, Table, Row

\* The empty hash is a hash, and the row before s has one if it is there.
LEMMA PrevIsHash ==
  ASSUME RowTypes, NEW s \in Seqs
  PROVE  <<>> \in Hashes /\ PrevHash(s) \in Hashes
<1>1. <<>> \in Hashes
  BY DEF Hashes
<1>2. CASE s - 1 \in Present(rows)
  <2>1. s - 1 \in Seqs /\ rows[s - 1] # NoRow
    BY <1>2 DEF Present
  <2>2. rows[s - 1].hash \in Hashes
    BY <2>1, RowFields
  <2> QED
    BY <1>1, <1>2, <2>2 DEF PrevHash
<1> QED
  BY <1>1, <1>2 DEF PrevHash

\* The INSERT.
LEMMA InsertTouches ==
  ASSUME RowTypes, NEW s \in Seqs, rows[s] = NoRow,
         rows' = [rows EXCEPT ![s] = [body |-> "event", hash |-> <<>>, prev |-> <<>>, upd |-> now]]
  PROVE  Inserts(s)
<1> DEFINE y == [body |-> "event", hash |-> <<>>, prev |-> <<>>, upd |-> now]
<1>1. y \in Row /\ y.hash = <<>> /\ y.upd = now
  BY PrevIsHash DEF Row, Bodies, RowTypes
<1> HIDE DEF y
<1>2. rows \in Table /\ rows' = [rows EXCEPT ![s] = y]
  BY DEF RowTypes, y
<1>3. rows' \in Table /\ rows'[s] = y /\ \A p \in Seqs : p # s => rows'[p] = rows[p]
  BY <1>1, <1>2 DEF Table
<1> QED
  BY <1>1, <1>3 DEF Inserts, Touches

\* The UPDATE of fillEventHash.
LEMMA FillTouches ==
  ASSUME RowTypes, NEW s \in Seqs, rows[s] # NoRow, rows[s].hash = <<>>, PreviousChained(rows, s),
         rows' = [rows EXCEPT ![s].hash = EvidenceHash(PrevHash(s), s, rows[s].body),
                              ![s].prev = PrevHash(s),
                              ![s].upd = now]
  PROVE  Fills(s)
<1>1. rows \in Table /\ rows[s] \in Row /\ rows[s].body \in Bodies /\ now \in Nat
  BY RowFields DEF RowTypes
<1>2. PrevHash(s) \in Hashes /\ EvidenceHash(PrevHash(s), s, rows[s].body) \in Hashes
  BY <1>1, PrevIsHash, HashIsThere
<1> DEFINE h == EvidenceHash(PrevHash(s), s, rows[s].body)
           q == PrevHash(s)
           y == [[[rows[s] EXCEPT !.hash = h] EXCEPT !.prev = q] EXCEPT !.upd = now]
<1>3. h \in Hashes /\ q \in Hashes
  BY <1>2
<1>4. rows' = [rows EXCEPT ![s].hash = h, ![s].prev = q, ![s].upd = now]
  OBVIOUS
<1> HIDE DEF h, q
<1>5. y \in Row /\ y.body = rows[s].body /\ y.hash = h /\ y.prev = q /\ y.upd = now
  BY <1>1, <1>3 DEF Row
<1>6. rows'[s] = y /\ DOMAIN rows' = Seqs /\ \A p \in Seqs : p # s => rows'[p] = rows[p]
  BY <1>1, <1>4 DEF Table
<1>7. rows' \in Table
  <2> HIDE DEF y
  <2>1. \A p \in Seqs : rows'[p] \in Row \cup {NoRow}
    BY <1>1, <1>5, <1>6 DEF Table
  <2>2. rows' = [p \in Seqs |-> rows'[p]]
    BY <1>4, <1>1 DEF Table
  <2> QED
    BY <2>1, <2>2 DEF Table
<1> QED
  BY <1>5, <1>6, <1>7 DEF Fills, Touches, h, q

\* An operator's UPDATE of the payload.
LEMMA EditTouches ==
  ASSUME RowTypes, NEW s \in Seqs, rows[s] # NoRow,
         rows' = [rows EXCEPT ![s].body = IF @ = "event" THEN "edited" ELSE "event",
                              ![s].upd = now]
  PROVE  Edits(s)
<1>1. rows \in Table /\ rows[s] \in Row /\ now \in Nat
  BY RowFields DEF RowTypes
<1> DEFINE b == IF rows[s].body = "event" THEN "edited" ELSE "event"
           y == [[rows[s] EXCEPT !.body = b] EXCEPT !.upd = now]
<1>2. b \in Bodies
  BY DEF Bodies
<1>3. rows' = [rows EXCEPT ![s].body = b, ![s].upd = now]
  OBVIOUS
<1> HIDE DEF b
<1>4. y \in Row /\ y.hash = rows[s].hash /\ y.prev = rows[s].prev /\ y.upd = now
  BY <1>1, <1>2 DEF Row
<1>5. rows'[s] = y /\ DOMAIN rows' = Seqs /\ \A p \in Seqs : p # s => rows'[p] = rows[p]
  BY <1>1, <1>3 DEF Table
<1>6. rows' \in Table
  <2> HIDE DEF y
  <2>1. \A p \in Seqs : rows'[p] \in Row \cup {NoRow}
    BY <1>1, <1>4, <1>5 DEF Table
  <2>2. rows' = [p \in Seqs |-> rows'[p]]
    BY <1>3, <1>1 DEF Table
  <2> QED
    BY <2>1, <2>2 DEF Table
<1> QED
  BY <1>4, <1>5, <1>6 DEF Edits, Touches

\* An operator's DELETE.
LEMMA RemoveTouches ==
  ASSUME RowTypes, NEW s \in Seqs, Remove(s)
  PROVE  Removes(s)
BY DEF RowTypes, Table, Remove, Removes, Touches

\* A worker in a batch is at an event of the auction.
LEMMA NextIsSeq ==
  ASSUME RowTypes, NEW w \in Workers, worker[w].pc # "idle"
  PROVE  worker[w].next \in Seqs /\ worker[w].next <= worker[w].upto /\ worker[w].upto <= MaxSeq
<1>1. worker[w].next \in 1 .. worker[w].upto
  BY DEF RowTypes, InBatch
<1>2. worker[w].upto \in 0 .. MaxSeq
  BY DEF RowTypes, Place
<1> QED
  BY <1>1, <1>2, EvidenceAssumption DEF Seqs

\* Every step is a statement on the rows, a reader's step, or neither.
LEMMA StepKinds ==
  ASSUME RowTypes, [Next]_vars
  PROVE  RowStep \/ Elsewhere \/ \E r \in Readers : ReaderStep(r)
<1>1. CASE UNCHANGED vars
  BY <1>1 DEF vars, Elsewhere
<1>2. CASE Publish \/ Tick \/ DeleteGate \/ DeletePurge
  BY <1>2 DEF Publish, Tick, DeleteGate, DeletePurge, Elsewhere
<1>3. CASE DeleteRows
  BY <1>3 DEF DeleteRows, RowStep, Empties
<1>4. ASSUME NEW w \in Workers, Project(w) \/ ProjectStatus(w) \/ Restart(w)
      PROVE  Elsewhere
  BY <1>4 DEF Project, ProjectStatus, Restart, Elsewhere
<1>5. ASSUME NEW w \in Workers, InsertEvent(w)
      PROVE  RowStep
  <2> DEFINE s == worker[w].next
  <2>1. s \in Seqs
    BY <1>5, NextIsSeq DEF InsertEvent
  <2>2. now' = now /\ reader' = Witness(rows') /\ cached' = cached /\ edits' = edits
    BY <1>5 DEF InsertEvent
  <2>3. CASE rows' = rows
    BY <2>2, <2>3 DEF RowStep
  <2>4. CASE rows' # rows
    <3>1. /\ rows[s] = NoRow
          /\ rows' = [rows EXCEPT ![s] = [body |-> "event", hash |-> <<>>,
                                          prev |-> <<>>, upd |-> now]]
      BY <1>5, <2>4 DEF InsertEvent
    <3>2. Inserts(s)
      BY <2>1, <3>1, InsertTouches
    <3> QED
      BY <2>1, <2>2, <3>2 DEF RowStep
  <2> QED
    BY <2>3, <2>4
<1>6. ASSUME NEW w \in Workers, FillEventHash(w)
      PROVE  RowStep
  <2> DEFINE s == worker[w].next
  <2>1. s \in Seqs
    BY <1>6, NextIsSeq DEF FillEventHash
  <2>2. now' = now /\ reader' = Witness(rows') /\ cached' = cached /\ edits' = edits
    BY <1>6 DEF FillEventHash
  <2>3. CASE rows' = rows
    BY <2>2, <2>3 DEF RowStep
  <2>4. CASE rows' # rows
    <3>1. /\ rows[s] # NoRow /\ rows[s].hash = <<>> /\ PreviousChained(rows, s)
          /\ rows' = [rows EXCEPT ![s].hash = EvidenceHash(PrevHash(s), s, rows[s].body),
                                  ![s].prev = PrevHash(s),
                                  ![s].upd = now]
      BY <1>6, <2>4 DEF FillEventHash, PrevHash
    <3>2. Fills(s)
      BY <2>1, <3>1, FillTouches
    <3> QED
      BY <2>1, <2>2, <3>2 DEF RowStep
  <2> QED
    BY <2>3, <2>4
<1>7. ASSUME NEW s \in Seqs, Edit(s)
      PROVE  RowStep
  <2>1. Edits(s)
    BY <1>7, EditTouches DEF Edit
  <2> QED
    BY <1>7, <2>1 DEF Edit, RowStep
<1>8. ASSUME NEW s \in Seqs, Remove(s)
      PROVE  RowStep
  <2>1. Removes(s)
    BY <1>8, RemoveTouches
  <2> QED
    BY <1>8, <2>1 DEF Remove, RowStep
<1> QED
  BY <1>1, <1>2, <1>3, <1>4, <1>5, <1>6, <1>7, <1>8 DEF Next, WorkerStep

\* A row statement leaves a table, in which what changed is gone or is new.
LEMMA WritesAreNew ==
  ASSUME RowTypes, RowStep
  PROVE  /\ rows' \in Table
         /\ \A p \in Seqs : \/ rows'[p] = rows[p]
                            \/ rows'[p] = NoRow
                            \/ rows'[p] \in Row /\ rows'[p].upd = now
<1>1. CASE rows' = rows
  BY <1>1 DEF RowTypes
<1>2. CASE Empties
  BY <1>2 DEF Empties, Table
<1>3. ASSUME NEW s \in Seqs, Inserts(s) \/ Fills(s) \/ Edits(s) \/ Removes(s)
      PROVE  /\ rows' \in Table
             /\ \A p \in Seqs : \/ rows'[p] = rows[p]
                                \/ rows'[p] = NoRow
                                \/ rows'[p] \in Row /\ rows'[p].upd = now
  BY <1>3 DEF Inserts, Fills, Edits, Removes, Touches
<1> QED
  BY <1>1, <1>2, <1>3 DEF RowStep

\* The types that the proofs about rows need are kept.
LEMMA RowTypesKept ==
  ASSUME RowTypes, [Next]_vars
  PROVE  RowTypes'
<1>1. log' \in 0 .. MaxSeq
  <2>1. CASE Publish
    BY <2>1, EvidenceAssumption DEF Publish, RowTypes
  <2>2. CASE DeletePurge
    BY <2>2, EvidenceAssumption DEF DeletePurge, RowTypes
  <2>3. CASE ~Publish /\ ~DeletePurge
    <3>1. ASSUME NEW r \in Readers, ReaderStep(r) PROVE log' = log
      BY <3>1, ReadersOnlyRead DEF ReaderOnly
    <3>2. log' = log
      BY <2>3, <3>1 DEF Next, vars, Tick, WorkerStep, Project, InsertEvent, FillEventHash,
         ProjectStatus, Restart, DeleteGate, DeleteRows, Edit, Remove
    <3> QED
      BY <3>2 DEF RowTypes
  <2> QED
    BY <2>1, <2>2, <2>3
<1>2. now' \in Nat /\ edits' \in Nat /\ rows' \in Table
  <2>1. CASE RowStep
    BY <2>1, WritesAreNew DEF RowStep, RowTypes
  <2>2. CASE Elsewhere
    BY <2>2 DEF Elsewhere, RowTypes
  <2>3. CASE \E r \in Readers : ReaderStep(r)
    BY <2>3, ReadersOnlyRead DEF ReaderOnly, RowTypes
  <2> QED
    BY <2>1, <2>2, <2>3, StepKinds
<1>3. worker' \in [Workers -> Place] /\ \A w \in Workers : InBatch(worker'[w])
  <2>1. CASE worker' = worker
    BY <2>1 DEF RowTypes
  <2>2. ASSUME NEW w \in Workers, NEW x \in Place, InBatch(x), worker' = [worker EXCEPT ![w] = x]
        PROVE  worker' \in [Workers -> Place] /\ \A v \in Workers : InBatch(worker'[v])
    <3>1. worker \in [Workers -> Place] /\ \A v \in Workers : InBatch(worker[v])
      BY DEF RowTypes
    <3>2. \A v \in Workers : worker'[v] = IF v = w THEN x ELSE worker[v]
      BY <2>2, <3>1
    <3> QED
      BY <2>2, <3>1, <3>2
  <2>3. ASSUME NEW w \in Workers, NEW c \in 0 .. MaxSeq
        PROVE  [IdleWorker EXCEPT !.cursor = c] \in Place /\ InBatch([IdleWorker EXCEPT !.cursor = c])
    BY EvidenceAssumption DEF IdleWorker, Place, InBatch
  <2>4. IdleWorker \in Place /\ InBatch(IdleWorker)
    BY EvidenceAssumption DEF IdleWorker, Place, InBatch
  <2>5. \A w \in Workers : worker[w] \in Place /\ worker[w].cursor \in 0 .. MaxSeq
    BY DEF RowTypes, Place
  <2>6. ASSUME NEW w \in Workers, Project(w)
        PROVE  \E x \in Place : InBatch(x) /\ worker' = [worker EXCEPT ![w] = x]
    <3> DEFINE x == [worker[w] EXCEPT !.pc = "insert", !.next = worker[w].cursor + 1, !.upto = log]
    <3>1. log \in 0 .. MaxSeq /\ worker[w].cursor < log
      BY <2>6 DEF Project, RowTypes
    <3>0. worker[w].cursor + 1 \in Nat
      BY <2>5, EvidenceAssumption
    <3>2. x \in Place /\ x.next = worker[w].cursor + 1 /\ x.upto = log
      BY <2>5, <3>0, <3>1 DEF Place
    <3>3. x.next \in 1 .. x.upto
      BY <2>5, <3>1, <3>2, EvidenceAssumption
    <3>4. worker' = [worker EXCEPT ![w] = x]
      BY <2>6 DEF Project
    <3> QED
      BY <3>2, <3>3, <3>4 DEF InBatch
  <2>7. ASSUME NEW w \in Workers, GiveUp(w)
        PROVE  \E x \in Place : InBatch(x) /\ worker' = [worker EXCEPT ![w] = x]
    BY <2>3, <2>5, <2>7 DEF GiveUp
  <2>8. ASSUME NEW w \in Workers, NEW c \in {"fill", "status"}, worker[w].pc # "idle",
               worker' = [worker EXCEPT ![w].pc = c]
        PROVE  \E x \in Place : InBatch(x) /\ worker' = [worker EXCEPT ![w] = x]
    <3> DEFINE x == [worker[w] EXCEPT !.pc = c]
    <3>1. x \in Place /\ x.next = worker[w].next /\ x.upto = worker[w].upto
      BY <2>5 DEF Place
    <3>2. InBatch(x)
      BY <2>8, <3>1 DEF InBatch, RowTypes
    <3> QED
      BY <2>8, <3>1, <3>2
  <2>9. ASSUME NEW w \in Workers, ProjectStatus(w)
        PROVE  \E x \in Place : InBatch(x) /\ worker' = [worker EXCEPT ![w] = x]
    <3> DEFINE s == worker[w].next
               y == [worker[w] EXCEPT !.pc = "insert", !.next = s + 1, !.cursor = s]
               z == [IdleWorker EXCEPT !.cursor = s]
    <3>1. s \in Seqs /\ s <= worker[w].upto /\ worker[w].upto <= MaxSeq
      BY <2>9, NextIsSeq DEF ProjectStatus
    <3>2. s \in 0 .. MaxSeq /\ s + 1 \in Nat
      BY <3>1, EvidenceAssumption DEF Seqs
    <3>3. CASE s < worker[w].upto
      <4>1. worker' = [worker EXCEPT ![w] = y]
        BY <2>9, <3>3 DEF ProjectStatus
      <4>2. y \in Place /\ y.next = s + 1 /\ y.upto = worker[w].upto
        BY <2>5, <3>2 DEF Place
      <4>3. worker[w].upto \in 0 .. MaxSeq
        BY <2>5 DEF Place
      <4>4. s + 1 \in 1 .. worker[w].upto
        BY <3>2, <3>3, <4>3, EvidenceAssumption
      <4> QED
        BY <4>1, <4>2, <4>4 DEF InBatch
    <3>4. CASE ~(s < worker[w].upto)
      <4>1. worker' = [worker EXCEPT ![w] = z]
        BY <2>9, <3>4 DEF ProjectStatus
      <4> QED
        BY <2>3, <3>2, <4>1
    <3> QED
      BY <3>3, <3>4
  <2>10. worker' = worker \/ \E w \in Workers : \E x \in Place :
                                 InBatch(x) /\ worker' = [worker EXCEPT ![w] = x]
    <3>1. ASSUME NEW r \in Readers, ReaderStep(r) PROVE worker' = worker
      BY <3>1, ReadersOnlyRead DEF ReaderOnly
    <3>2. ASSUME NEW w \in Workers, InsertEvent(w)
          PROVE  \E x \in Place : InBatch(x) /\ worker' = [worker EXCEPT ![w] = x]
      BY <2>7, <2>8, <3>2 DEF InsertEvent
    <3>3. ASSUME NEW w \in Workers, FillEventHash(w)
          PROVE  \E x \in Place : InBatch(x) /\ worker' = [worker EXCEPT ![w] = x]
      BY <2>7, <2>8, <3>3 DEF FillEventHash
    <3>4. ASSUME NEW w \in Workers, Restart(w)
          PROVE  \E x \in Place : InBatch(x) /\ worker' = [worker EXCEPT ![w] = x]
      BY <2>4, <3>4 DEF Restart
    <3>5. Publish \/ Tick \/ DeleteGate \/ DeletePurge \/ DeleteRows \/ UNCHANGED vars
            \/ (\E s \in Seqs : Edit(s) \/ Remove(s)) => worker' = worker
      BY DEF Publish, Tick, DeleteGate, DeletePurge, DeleteRows, vars, Edit, Remove
    <3> QED
      BY <2>6, <2>9, <3>1, <3>2, <3>3, <3>4, <3>5 DEF Next, WorkerStep
  <2> QED
    BY <2>1, <2>2, <2>10
<1> QED
  BY <1>1, <1>2, <1>3 DEF RowTypes

-----------------------------------------------------------------------------
(***************************************************************************)
(* No gap.                                                                 *)
(***************************************************************************)

\* A row with a hash has a good chain below it.
GapFree(t) ==
  \A s \in Seqs : t[s] # NoRow /\ t[s].hash # <<>> => 1 .. s \subseteq Good(t)

\* What fillEventHash's guard and its hash make of row s, when the rows that
\* carry a hash are a prefix.
LEMMA FillExtends ==
  ASSUME RowTypes, GapFree(rows), NEW s \in Seqs, Fills(s)
  PROVE  GapFree(rows')
<1> DEFINE prior == {p \in Present(rows) : p < s}
<1>1. rows' \in Table /\ rows'[s] \in Row /\ rows'[s] # NoRow
  BY RowIsThere DEF Fills, Touches
<1>2. s > 1 => s - 1 \in Seqs /\ rows[s - 1] # NoRow /\ rows[s - 1].hash # <<>>
  <2> SUFFICES ASSUME s > 1 PROVE s - 1 \in Seqs /\ rows[s - 1] # NoRow /\ rows[s - 1].hash # <<>>
    OBVIOUS
  <2>1. s - 1 \in Seqs /\ s \in Nat
    BY EvidenceAssumption DEF Seqs
  <2>2. prior # {} /\ Max(prior) = s - 1 /\ rows[s - 1].hash # <<>>
    <3>1. IF prior = {} THEN s = 1 ELSE Max(prior) = s - 1 /\ rows[s - 1].hash # <<>>
      BY DEF Fills, PreviousChained
    <3> QED
      BY <2>1, <3>1
  <2>3. prior \in SUBSET Nat /\ \A p \in prior : p <= s
    BY <2>1, EvidenceAssumption DEF Present, Seqs
  <2>4. Max(prior) \in prior
    <3> HIDE DEF prior
    <3> QED
      BY <2>1, <2>2, <2>3, MaxIsGreatest
  <2> QED
    BY <2>1, <2>2, <2>4 DEF Present
<1>3. s \in Good(rows')
  <2>1. CASE s = 1
    <3>1. PrevHash(s) = <<>>
      BY <2>1 DEF PrevHash, Present, Seqs
    <3> QED
      BY <1>1, <2>1, <3>1, GoodRow DEF Fills, Linked
  <2>2. CASE s # 1
    <3>1. s > 1 /\ s - 1 \in Seqs /\ s - 1 # s
      BY <2>2, <1>2, EvidenceAssumption DEF Seqs
    <3>2. rows'[s - 1] = rows[s - 1] /\ rows'[s - 1] # NoRow
      BY <1>2, <3>1 DEF Fills, Touches
    <3>3. PrevHash(s) = rows'[s - 1].hash
      BY <1>2, <3>1, <3>2 DEF PrevHash, Present
    <3> QED
      BY <1>1, <2>2, <3>2, <3>3, GoodRow DEF Fills, Linked
  <2> QED
    BY <2>1, <2>2
<1>4. \A p \in Seqs : p < s => p \in Good(rows')
  <2> SUFFICES ASSUME NEW p \in Seqs, p < s PROVE p \in Good(rows')
    OBVIOUS
  <2>1. s > 1 /\ p \in 1 .. s - 1
    BY EvidenceAssumption DEF Seqs
  <2>2. p \in Good(rows)
    BY <1>2, <2>1 DEF GapFree
  <2>3. rows'[p] = rows[p] /\ (p > 1 => rows'[p - 1] = rows[p - 1])
    BY EvidenceAssumption DEF Fills, Touches, Seqs
  <2> QED
    BY <2>2, <2>3, GoodDependsOnTwo
<1>5. ASSUME NEW q \in Seqs, rows'[q] # NoRow, rows'[q].hash # <<>>, q > s
      PROVE  FALSE
  <2>1. q # s /\ s \in 1 .. q
    BY <1>5, EvidenceAssumption DEF Seqs
  <2>2. rows[q] # NoRow /\ rows[q].hash # <<>>
    BY <1>5, <2>1 DEF Fills, Touches
  <2>3. s \in Good(rows)
    BY <2>1, <2>2 DEF GapFree
  <2> QED
    BY <2>3, GoodIsHashed DEF RowTypes, Fills
<1> QED
  <2> SUFFICES ASSUME NEW q \in Seqs, rows'[q] # NoRow, rows'[q].hash # <<>>, NEW p \in 1 .. q
               PROVE  p \in Good(rows')
    BY DEF GapFree
  <2>1. p \in Seqs /\ p <= q
    BY EvidenceAssumption DEF Seqs
  <2>2. ~(q > s)
    BY <1>5
  <2>3. p = s \/ p < s
    BY <2>1, <2>2, EvidenceAssumption DEF Seqs
  <2> QED
    BY <1>3, <1>4, <2>1, <2>3

\* An INSERT fills a hole that no chained row lies above.
LEMMA InsertExtends ==
  ASSUME RowTypes, GapFree(rows), NEW s \in Seqs, Inserts(s)
  PROVE  GapFree(rows')
<1> SUFFICES ASSUME NEW q \in Seqs, rows'[q] # NoRow, rows'[q].hash # <<>>, NEW p \in 1 .. q
             PROVE  p \in Good(rows')
  BY DEF GapFree
<1>1. p \in Seqs /\ p <= q
  BY EvidenceAssumption DEF Seqs
<1>2. q # s /\ rows[q] # NoRow /\ rows[q].hash # <<>>
  BY DEF Inserts, Touches
<1>3. 1 .. q \subseteq Good(rows)
  BY <1>2 DEF GapFree
<1>4. s \notin 1 .. q
  BY <1>3 DEF Good, Present, Inserts
<1>5. p # s /\ p - 1 # s
  BY <1>1, <1>4, EvidenceAssumption DEF Seqs
<1>6. rows'[p] = rows[p] /\ (p > 1 => rows'[p - 1] = rows[p - 1])
  BY <1>1, <1>5, EvidenceAssumption DEF Inserts, Touches, Seqs
<1> QED
  BY <1>1, <1>3, <1>6, GoodDependsOnTwo

ChainInv == RowTypes /\ (edits = 0 => GapFree(rows))

\* No statement of the program leaves a gap.
LEMMA ChainInvKept ==
  ASSUME ChainInv, [Next]_vars
  PROVE  ChainInv'
<1>1. RowTypes /\ RowTypes'
  BY RowTypesKept DEF ChainInv
<1>2. CASE rows' = rows /\ edits' = edits
  BY <1>1, <1>2 DEF ChainInv
<1>3. CASE RowStep /\ ~(rows' = rows /\ edits' = edits)
  <2>1. CASE Empties
    <3>1. \A s \in Seqs : rows'[s] = NoRow
      BY <2>1 DEF Empties
    <3> QED
      BY <1>1, <3>1 DEF ChainInv, GapFree
  <2>2. ASSUME NEW s \in Seqs, Inserts(s), edits' = edits
        PROVE  edits' = 0 => GapFree(rows')
    BY <2>2, InsertExtends DEF ChainInv
  <2>3. ASSUME NEW s \in Seqs, Fills(s), edits' = edits
        PROVE  edits' = 0 => GapFree(rows')
    BY <2>3, FillExtends DEF ChainInv
  <2>4. CASE edits' = edits + 1
    <3>1. edits' # 0
      BY <1>1, <2>4 DEF RowTypes
    <3> QED
      BY <1>1, <3>1 DEF ChainInv
  <2> QED
    BY <1>1, <1>3, <2>1, <2>2, <2>3, <2>4 DEF RowStep, ChainInv
<1>4. ASSUME NEW r \in Readers, ReaderStep(r) PROVE rows' = rows /\ edits' = edits
  BY <1>4, ReadersOnlyRead DEF ReaderOnly
<1> QED
  BY <1>1, <1>2, <1>3, <1>4, StepKinds DEF Elsewhere

\* It holds of the empty table.
LEMMA ChainInvInit ==
  ASSUME Init
  PROVE  ChainInv
<1>1. rows \in Table /\ \A s \in Seqs : rows[s] = NoRow
  BY DEF Init, Table
<1>2. \A w \in Workers : worker[w] \in Place /\ InBatch(worker[w])
  BY EvidenceAssumption DEF Init, IdleWorker, Place, InBatch
<1>3. worker \in [Workers -> Place]
  BY <1>2 DEF Init
<1>4. log \in 0 .. MaxSeq /\ now \in Nat /\ edits \in Nat
  BY EvidenceAssumption DEF Init
<1> QED
  BY <1>1, <1>2, <1>3, <1>4 DEF ChainInv, RowTypes, GapFree

\* The rows that carry a hash are a gap-free prefix of the auction for any
\* number of workers, restarts and deletions (fillEventHash).
THEOREM ChainIsGapFree == Spec => []ChainHasNoGap
<1>1. Init => ChainInv
  BY ChainInvInit
<1>2. ChainInv /\ [Next]_vars => ChainInv'
  BY ChainInvKept
<1>3. ChainInv => ChainHasNoGap
  BY DEF ChainInv, GapFree, ChainHasNoGap, Present
<1> QED
  BY <1>1, <1>2, <1>3, PTL DEF Spec

-----------------------------------------------------------------------------
(***************************************************************************)
(* Nothing is skipped.                                                     *)
(***************************************************************************)

Hashed(s) == rows[s] # NoRow /\ rows[s].hash # <<>>

\* A worker's cursor, and the event whose fill it has seen through, are hashed.
Passed(x) ==
  /\ x.cursor > 0 => Hashed(x.cursor)
  /\ x.pc = "status" => Hashed(x.next)

SkipInv == edits = 0 /\ deleter # "done" => \A w \in Workers : Passed(worker[w])

\* Only an operator or the transaction of DeleteAuction takes a hash away.
LEMMA HashedStays ==
  ASSUME RowTypes, [Next]_vars, edits' = 0, deleter' # "done"
  PROVE  /\ edits = 0 /\ deleter # "done"
         /\ \A s \in Seqs : Hashed(s) => Hashed(s)'
<1>1. deleter # "done"
  <2>1. ASSUME NEW r \in Readers, ReaderStep(r) PROVE deleter' = deleter
    BY <2>1, ReadersOnlyRead DEF ReaderOnly
  <2> QED
    BY <2>1 DEF Next, vars, Publish, Tick, WorkerStep, Project, InsertEvent, FillEventHash,
       ProjectStatus, Restart, DeleteGate, DeletePurge, DeleteRows, Edit, Remove
<1>2. CASE rows' = rows /\ edits' = edits
  BY <1>1, <1>2 DEF Hashed
<1>3. ASSUME NEW q \in Seqs, Inserts(q) \/ Fills(q), edits' = edits
      PROVE  edits = 0 /\ \A s \in Seqs : Hashed(s) => Hashed(s)'
  BY <1>3 DEF Inserts, Fills, Touches, Hashed
<1>4. edits' # edits + 1
  BY DEF RowTypes
<1>5. ASSUME NEW r \in Readers, ReaderStep(r) PROVE rows' = rows /\ edits' = edits
  BY <1>5, ReadersOnlyRead DEF ReaderOnly
<1> QED
  BY <1>1, <1>2, <1>3, <1>4, <1>5, StepKinds DEF RowStep, Elsewhere, Empties

\* A statement that leaves a worker at "status" has found or made the hash.
LEMMA FillHashes ==
  ASSUME RowTypes, NEW w \in Workers, FillEventHash(w), worker'[w].pc = "status",
         NEW s, s = worker[w].next
  PROVE  Hashed(s)'
<1>1. s \in Seqs /\ worker \in [Workers -> Place]
  BY NextIsSeq DEF FillEventHash, RowTypes
<1>2. CASE rows[s] # NoRow /\ rows[s].hash # <<>> /\ rows' = rows
  BY <1>2 DEF Hashed
<1>3. CASE /\ rows[s] # NoRow /\ rows[s].hash = <<>> /\ PreviousChained(rows, s)
           /\ rows' = [rows EXCEPT ![s].hash = EvidenceHash(PrevHash(s), s, rows[s].body),
                                   ![s].prev = PrevHash(s),
                                   ![s].upd = now]
  <2>1. Fills(s)
    BY <1>1, <1>3, FillTouches
  <2>2. rows'[s] \in Row /\ rows'[s].hash = EvidenceHash(PrevHash(s), s, rows'[s].body)
    BY <2>1 DEF Fills
  <2>3. PrevHash(s) \in Hashes
    BY <1>1, PrevIsHash
  <2>4. rows'[s].body \in Bodies
    BY <2>2 DEF Row
  <2> QED
    BY <1>1, <2>2, <2>3, <2>4, RowIsThere, HashIsThere DEF Hashed
<1>4. ~GiveUp(w)
  BY <1>1 DEF GiveUp, IdleWorker
<1> QED
  BY <1>2, <1>3, <1>4 DEF FillEventHash, PrevHash, Hashed

\* How a step moves the place of a worker.
LEMMA PlaceMoves ==
  ASSUME RowTypes, [Next]_vars, NEW v \in Workers,
         NEW x, x = worker[v], NEW y, y = worker'[v]
  PROVE  \/ y = x
         \/ y.cursor = x.cursor /\ y.pc # "status"
         \/ y.cursor = x.cursor /\ y.next = x.next /\ Hashed(x.next)'
         \/ x.pc = "status" /\ y.cursor = x.next /\ y.pc # "status"
         \/ y.cursor = 0 /\ y.pc # "status"
<1>0. worker \in [Workers -> Place] /\ x \in Place
  BY DEF RowTypes
<1>1. CASE worker' = worker
  BY <1>1
<1>2. ASSUME NEW w \in Workers, Project(w) \/ InsertEvent(w) \/ ProjectStatus(w) \/ Restart(w)
               \/ FillEventHash(w), w # v
      PROVE  y = x
  BY <1>0, <1>2 DEF Project, InsertEvent, ProjectStatus, Restart, FillEventHash, GiveUp
<1>3. GiveUp(v) => y.cursor = x.cursor /\ y.pc # "status"
  BY <1>0 DEF GiveUp, IdleWorker
<1>4. CASE Project(v)
  BY <1>0, <1>4 DEF Project, Place
<1>5. CASE InsertEvent(v)
  <2>1. CASE worker' = [worker EXCEPT ![v].pc = "fill"]
    BY <1>0, <2>1 DEF Place
  <2> QED
    BY <1>3, <1>5, <2>1 DEF InsertEvent
<1>6. CASE FillEventHash(v)
  <2>1. CASE worker' = [worker EXCEPT ![v].pc = "status"]
    <3>1. y.cursor = x.cursor /\ y.next = x.next /\ y.pc = "status"
      BY <1>0, <2>1 DEF Place
    <3> QED
      BY <1>6, <3>1, FillHashes
  <2> QED
    BY <1>3, <1>6, <2>1 DEF FillEventHash
<1>7. CASE ProjectStatus(v)
  BY <1>0, <1>7 DEF ProjectStatus, IdleWorker, Place
<1>8. CASE Restart(v)
  BY <1>0, <1>8 DEF Restart, IdleWorker
<1>9. ASSUME NEW r \in Readers, ReaderStep(r) PROVE worker' = worker
  BY <1>9, ReadersOnlyRead DEF ReaderOnly
<1> QED
  BY <1>1, <1>2, <1>4, <1>5, <1>6, <1>7, <1>8, <1>9
     DEF Next, vars, WorkerStep, Publish, Tick, DeleteGate, DeletePurge, DeleteRows, Edit, Remove

\* SkipInv is inductive: a cursor moves only over an event that is hashed.
LEMMA SkipInvKept ==
  ASSUME RowTypes, SkipInv, [Next]_vars
  PROVE  SkipInv'
<1> SUFFICES ASSUME edits' = 0, deleter' # "done", NEW v \in Workers
             PROVE  Passed(worker[v])'
  BY DEF SkipInv
<1>1. PICK x : x = worker[v]
  OBVIOUS
<1>2. PICK y : y = worker'[v]
  OBVIOUS
<1>3. /\ x \in Place /\ InBatch(x) /\ Passed(x)
      /\ \A s \in Seqs : Hashed(s) => Hashed(s)'
  BY <1>1, HashedStays DEF SkipInv, RowTypes
<1>4. /\ x.cursor > 0 => x.cursor \in Seqs
      /\ x.pc = "status" => x.next \in Seqs
  BY <1>3, EvidenceAssumption DEF Place, InBatch, Seqs
<1>5. /\ x.cursor > 0 => Hashed(x.cursor)'
      /\ x.pc = "status" => Hashed(x.next)'
  BY <1>3, <1>4 DEF Passed
<1>6. /\ y.cursor > 0 => Hashed(y.cursor)'
      /\ y.pc = "status" => Hashed(y.next)'
  <2>1. \/ y = x
        \/ y.cursor = x.cursor /\ y.pc # "status"
        \/ y.cursor = x.cursor /\ y.next = x.next /\ Hashed(x.next)'
        \/ x.pc = "status" /\ y.cursor = x.next /\ y.pc # "status"
        \/ y.cursor = 0 /\ y.pc # "status"
    BY <1>1, <1>2, PlaceMoves
  <2> QED
    BY <1>5, <2>1
<1>7. Passed(y)'
  BY <1>6 DEF Passed
<1> QED
  BY <1>2, <1>7

\* A cursor passes only chained events, for any number of workers and restarts
\* and whichever of them wrote the row (InsertEvent and fillEventHash).
THEOREM CursorsPassChained == Spec => []NothingSkipped
<1>1. Init => ChainInv /\ SkipInv
  <2> SUFFICES ASSUME Init PROVE ChainInv /\ SkipInv
    OBVIOUS
  <2>1. \A w \in Workers : worker[w].cursor = 0 /\ worker[w].pc = "idle"
    BY DEF Init, IdleWorker
  <2> QED
    BY <2>1, ChainInvInit DEF SkipInv, Passed
<1>2. ChainInv /\ SkipInv /\ [Next]_vars => ChainInv' /\ SkipInv'
  BY ChainInvKept, SkipInvKept DEF ChainInv
<1>3. ChainInv /\ SkipInv => NothingSkipped
  <2> SUFFICES ASSUME ChainInv, SkipInv, edits = 0, deleter # "done", NEW w \in Workers
               PROVE  1 .. worker[w].cursor \subseteq Good(rows)
    BY DEF NothingSkipped
  <2>1. worker[w].cursor \in 0 .. MaxSeq
    BY DEF ChainInv, RowTypes, Place
  <2>2. CASE worker[w].cursor = 0
    BY <2>2
  <2>3. CASE worker[w].cursor # 0
    <3>1. worker[w].cursor > 0 /\ worker[w].cursor \in Seqs
      BY <2>1, <2>3, EvidenceAssumption DEF Seqs
    <3>2. Hashed(worker[w].cursor)
      BY <3>1 DEF SkipInv, Passed
    <3> QED
      BY <3>1, <3>2 DEF ChainInv, GapFree, Hashed
  <2> QED
    BY <2>2, <2>3
<1> QED
  BY <1>1, <1>2, <1>3, PTL DEF Spec

-----------------------------------------------------------------------------
(***************************************************************************)
(* Readers and certificates.                                               *)
(***************************************************************************)
CacheRow == [seq : 0 .. MaxSeq, count : Nat, head : Hashes, at : Nat]

ReaderPcs ==
  {"idle", "done", "snapshot", "stream", "timeline", "stats", "tip", "cache", "prefixNow",
   "prefix", "prefixHead", "now", "rows", "restat", "retip", "store"}

Verdicts == {"none", "ok", "broken", "mismatch", "error"}

ReaderRec ==
  [pc : ReaderPcs, kind : {"none", "card", "verify"}, snapshot : Nat, stream : SUBSET Seqs,
   count : Nat, max : 0 .. MaxSeq, upd : Nat, tip : Hashes, cache : CacheRow \cup {NoCache},
   at : Nat, from : 1 .. MaxSeq + 1, last : 0 .. MaxSeq, head : Hashes,
   verdict : Verdicts, brk : Nat, good : SUBSET Seqs, bad : SUBSET Seqs, floor : Nat]

Running(x) == x.pc \notin {"idle", "done"}

\* A running call has witnessed the rows t.
Witnessed(x, t) == Running(x) => Good(t) \subseteq x.good /\ Seqs \ Good(t) \subseteq x.bad

\* Rows 1..k that are all there and all older than at are good.
Certified(t, k, at) ==
  (\A p \in 1 .. k : t[p] # NoRow /\ t[p].upd < at) => 1 .. k \subseteq Good(t)

\* Rows 1..k are all there, or the table has been emptied since at.
Solid(t, k, at) ==
  \/ \A p \in 1 .. k : t[p] # NoRow
  \/ \A p \in Seqs : t[p] # NoRow => t[p].upd >= at

\* Row k is not the row it was before at, and never will be again.
Stale(t, k, at) == t[k] # NoRow => t[k].upd >= at

\* The call holds the statistics it will compare the cache with.
Stating(x) == x.pc \in {"tip", "cache"}

\* The call has found rows 1..Verified(x) good.
Verifying(x) == x.pc \in {"prefixHead", "rows", "restat", "retip", "store"}
Verified(x) ==
  IF x.pc = "prefixHead" THEN x.cache.seq ELSE IF x.pc = "rows" THEN x.from - 1 ELSE x.last

\* What a verification has established so far: a certificate of its own.
Established(x, t, n) ==
  Verifying(x) =>
    /\ x.at <= n
    /\ 1 .. Verified(x) \subseteq x.good
    /\ Certified(t, Verified(x), x.at)
    /\ Solid(t, Verified(x), x.at)

\* A head that stands for rows is not the empty hash.
HeadIsThere(x) ==
  /\ x.pc \in {"rows", "restat", "retip", "store"} /\ Verified(x) >= 1 => x.head # <<>>
  /\ x.pc = "rows" /\ x.from = 1 => x.head = <<>>
  /\ x.pc = "now" => x.from = 1 /\ x.head = <<>>

\* The head that the first row read is compared with is the hash of the row
\* before it, unless the auction has been deleted under the call.
HeadHolds(x, t) ==
  x.pc = "rows" /\ x.from > 1 /\ x.from <= MaxSeq =>
    \/ t[x.from - 1] # NoRow /\ t[x.from - 1].hash = x.head
    \/ /\ x.from \in x.bad
       /\ t[x.from] # NoRow /\ t[x.from].hash # <<>> =>
            /\ t[x.from - 1] # NoRow /\ t[x.from - 1].hash # <<>>
            /\ t[x.from - 1].hash = t[x.from].prev

\* The statistics that go into the cache.
Restated(x, t) ==
  x.pc \in {"retip", "store"} /\ x.max = x.last /\ x.last >= 1 =>
    x.count = x.last \/ Stale(t, x.last, x.at)

\* A cache row that a call holds is a certificate with a head.
Holding(x, t, n) ==
  x.pc \in {"prefixNow", "prefix", "prefixHead"} =>
    /\ x.cache \in CacheRow /\ x.cache.seq >= 1 /\ x.cache.head # <<>>
    /\ x.cache.at <= n
    /\ Certified(t, x.cache.seq, x.cache.at)
    /\ x.pc = "prefix" => x.at <= n

\* VerdictIsHonest for one call.
Honest(x) ==
  x.pc = "done" =>
    /\ x.verdict = "ok" => 1 .. x.last \subseteq x.good
    /\ x.verdict = "broken" => x.brk \in x.bad

\* All of this for one call.
Sane(x, t, n) ==
  /\ x \in ReaderRec
  /\ Witnessed(x, t)
  /\ Established(x, t, n)
  /\ HeadIsThere(x)
  /\ HeadHolds(x, t)
  /\ Restated(x, t)
  /\ Holding(x, t, n)
  /\ Honest(x)

\* If the statistics of call m can belong to what call x has verified, then m
\* has seen those rows good itself.
Meets(x, m) ==
  /\ Verifying(x) /\ Stating(m) /\ Verified(x) >= 1
  /\ m.max >= Verified(x) /\ m.upd < x.at
  => 1 .. Verified(x) \subseteq m.good

\* The cached row is a certificate, with a count that fits it.
CacheSound(c, t, n) ==
  c # NoCache =>
    /\ c \in CacheRow
    /\ c.at <= n
    /\ Certified(t, c.seq, c.at)
    /\ c.seq >= 1 => c.head # <<>> /\ (c.count = c.seq \/ Stale(t, c.seq, c.at))

\* A call whose statistics the cached row fits has seen the rows good itself.
CacheMeets(c, m) ==
  /\ c # NoCache /\ Stating(m)
  /\ m.max = c.seq /\ m.count = c.count /\ m.upd < c.at
  => 1 .. c.seq \subseteq m.good

VerdictInv ==
  /\ Removals # "any"
  /\ RowTypes
  /\ \A s \in Seqs : rows[s] # NoRow => rows[s].upd <= now
  /\ CacheSound(cached, rows, now)
  /\ reader \in [Readers -> ReaderRec]
  /\ \A r \in Readers : Sane(reader[r], rows, now) /\ CacheMeets(cached, reader[r])
  /\ \A r, m \in Readers : Meets(reader[r], reader[m])

\* While nobody deletes the auction, a verify run that is past the timeline
\* has the events of its start in the table and in its statistics.
Keeps(x, t, l) ==
  /\ Running(x) => x.floor <= l
  /\ x.kind = "verify" =>
       /\ x.pc = "timeline" => 1 .. x.floor \subseteq x.stream
       /\ x.pc \notin {"idle", "done", "snapshot", "stream", "timeline"} =>
            1 .. x.floor \subseteq Present(t)
       /\ Stating(x) => x.floor <= x.max
       /\ x.pc \in {"restat", "retip", "store"} => x.floor <= x.last
  /\ x.pc = "done" /\ x.verdict = "ok" => x.floor <= x.last

FloorInv == deleter = "idle" => \A r \in Readers : Keeps(reader[r], rows, log)

\* The absent cache row is not a cache row.
LEMMA NoCacheIsNone == NoCache \notin CacheRow
<1>1. NoCache.seq = -1
  BY DEF NoCache
<1>2. \A c \in CacheRow : c.seq \in 0 .. MaxSeq
  BY DEF CacheRow
<1>3. -1 \notin 0 .. MaxSeq
  BY EvidenceAssumption
<1> QED
  BY <1>1, <1>2, <1>3

\* A call at rest.
LEMMA IdleIsReader == IdleReader \in ReaderRec
<1>1. <<>> \in Hashes
  BY DEF Hashes
<1>2. 0 \in 0 .. MaxSeq /\ 1 \in 1 .. MaxSeq + 1
  BY EvidenceAssumption
<1> QED
  BY <1>1, <1>2 DEF IdleReader, ReaderRec, ReaderPcs, Verdicts

\* The states that Begin, Enter and Answer put a call in.
Fresh(kind, pc, g, b, f) ==
  [IdleReader EXCEPT !.kind = kind, !.pc = pc, !.good = g, !.bad = b, !.floor = f]
Entered(x, pc) ==
  [IdleReader EXCEPT !.pc = pc, !.kind = x.kind, !.good = x.good, !.bad = x.bad, !.floor = x.floor]
Closed(x, v, brk, last) ==
  [IdleReader EXCEPT !.pc = "done", !.verdict = v, !.brk = brk, !.last = last,
                     !.good = IF v = "ok" THEN x.good ELSE {},
                     !.bad = IF v = "broken" THEN x.bad ELSE {},
                     !.floor = IF v = "ok" /\ x.kind = "verify" THEN x.floor ELSE 0]

\* Enter drops the locals of the last phase.
LEMMA EnterFields ==
  ASSUME NEW x \in ReaderRec, NEW pc \in ReaderPcs
  PROVE  LET y == Entered(x, pc) IN
             /\ y \in ReaderRec /\ y.pc = pc /\ y.kind = x.kind /\ y.floor = x.floor
             /\ y.good = x.good /\ y.bad = x.bad /\ y.from = 1 /\ y.head = <<>>
<1>1. /\ x.kind \in {"none", "card", "verify"} /\ x.good \in SUBSET Seqs
      /\ x.bad \in SUBSET Seqs /\ x.floor \in Nat
  BY DEF ReaderRec
<1>2. IdleReader.from = 1 /\ IdleReader.head = <<>>
  BY DEF IdleReader
<1> QED
  BY <1>1, <1>2, IdleIsReader DEF ReaderRec, Entered

\* Answer keeps the verdict and its history.
LEMMA AnswerFields ==
  ASSUME NEW x \in ReaderRec, NEW v \in Verdicts, NEW brk \in Nat, NEW last \in 0 .. MaxSeq
  PROVE  LET y == Closed(x, v, brk, last) IN
             /\ y \in ReaderRec /\ y.pc = "done" /\ y.verdict = v /\ y.brk = brk /\ y.last = last
             /\ y.kind = "none"
             /\ v = "ok" => y.good = x.good
             /\ v = "broken" => y.bad = x.bad
             /\ y.floor = IF v = "ok" /\ x.kind = "verify" THEN x.floor ELSE 0
<1> DEFINE g == IF v = "ok" THEN x.good ELSE {}
           b == IF v = "broken" THEN x.bad ELSE {}
           f == IF v = "ok" /\ x.kind = "verify" THEN x.floor ELSE 0
<1>1. g \in SUBSET Seqs /\ b \in SUBSET Seqs /\ f \in Nat /\ "done" \in ReaderPcs
  BY DEF ReaderRec, ReaderPcs
<1>2. (v = "ok" => g = x.good) /\ (v = "broken" => b = x.bad)
  OBVIOUS
<1>3. IdleReader.kind = "none"
  BY DEF IdleReader
<1> HIDE DEF g, b, f
<1> DEFINE y == [IdleReader EXCEPT !.pc = "done", !.verdict = v, !.brk = brk, !.last = last,
                                   !.good = g, !.bad = b, !.floor = f]
<1>4. /\ y \in ReaderRec /\ y.pc = "done" /\ y.verdict = v /\ y.brk = brk /\ y.last = last
      /\ y.kind = IdleReader.kind /\ y.good = g /\ y.bad = b /\ y.floor = f
  BY <1>1, IdleIsReader DEF ReaderRec
<1>5. y = Closed(x, v, brk, last)
  BY DEF Closed, g, b, f
<1> HIDE DEF y
<1> QED
  BY <1>2, <1>3, <1>4, <1>5 DEF f

\* A fresh call.
LEMMA BeginFields ==
  ASSUME NEW kind \in {"card", "verify"}, NEW pc \in ReaderPcs, NEW g \in SUBSET Seqs,
         NEW b \in SUBSET Seqs, NEW f \in Nat
  PROVE  LET y == Fresh(kind, pc, g, b, f) IN
             /\ y \in ReaderRec /\ y.pc = pc /\ y.kind = kind /\ y.floor = f
             /\ y.good = g /\ y.bad = b
BY IdleIsReader DEF ReaderRec, Fresh

\* Good rows are rows of the auction.
LEMMA GoodIsSeqs ==
  ASSUME NEW t
  PROVE  Good(t) \in SUBSET Seqs /\ Seqs \ Good(t) \in SUBSET Seqs
BY DEF Good, Present

\* What Witness does to one call.
LEMMA WitnessFields ==
  ASSUME NEW x \in ReaderRec, NEW t
  PROVE  LET y == [x EXCEPT !.good = @ \cup Good(t), !.bad = @ \cup (Seqs \ Good(t))]
         IN  /\ y \in ReaderRec
             /\ y.good = x.good \cup Good(t) /\ y.bad = x.bad \cup (Seqs \ Good(t))
             /\ y.pc = x.pc /\ y.kind = x.kind /\ y.stream = x.stream /\ y.count = x.count
             /\ y.max = x.max /\ y.upd = x.upd /\ y.cache = x.cache /\ y.at = x.at
             /\ y.from = x.from /\ y.last = x.last /\ y.head = x.head
             /\ y.verdict = x.verdict /\ y.brk = x.brk /\ y.floor = x.floor
<1> DEFINE g == x.good \cup Good(t)
           b == x.bad \cup (Seqs \ Good(t))
<1>1. g \in SUBSET Seqs /\ b \in SUBSET Seqs
  BY GoodIsSeqs DEF ReaderRec
<1> HIDE DEF g, b
<1> DEFINE y == [x EXCEPT !.good = g, !.bad = b]
<1>2. y \in ReaderRec
  BY <1>1 DEF ReaderRec
<1>3. /\ y.good = g /\ y.bad = b
      /\ y.pc = x.pc /\ y.kind = x.kind /\ y.stream = x.stream /\ y.count = x.count
      /\ y.max = x.max /\ y.upd = x.upd /\ y.cache = x.cache /\ y.at = x.at
      /\ y.from = x.from /\ y.last = x.last /\ y.head = x.head
      /\ y.verdict = x.verdict /\ y.brk = x.brk /\ y.floor = x.floor
  BY <1>1 DEF ReaderRec
<1> QED
  BY <1>2, <1>3 DEF g, b

-----------------------------------------------------------------------------
(***************************************************************************)
(* Statements on the rows under running calls.                             *)
(***************************************************************************)

\* A certificate outlives every write, since writes are stamped at or after it.
LEMMA CertifiedStays ==
  ASSUME RowTypes, RowStep, NEW k \in 0 .. MaxSeq, NEW at \in Nat, at <= now,
         Certified(rows, k, at)
  PROVE  Certified(rows', k, at)
<1> SUFFICES ASSUME \A p \in 1 .. k : rows'[p] # NoRow /\ rows'[p].upd < at
             PROVE  1 .. k \subseteq Good(rows')
  BY DEF Certified
<1>1. ASSUME NEW p \in 1 .. k PROVE p \in Seqs /\ rows'[p] = rows[p]
  <2>1. p \in Seqs
    BY EvidenceAssumption DEF Seqs
  <2>2. rows'[p] # NoRow /\ rows'[p].upd < at
    OBVIOUS
  <2>3. rows'[p].upd # now
    BY <2>2 DEF RowTypes
  <2> QED
    BY <2>1, <2>2, <2>3, WritesAreNew
<1>2. 1 .. k \subseteq Good(rows)
  BY <1>1 DEF Certified
<1>3. ASSUME NEW p \in 1 .. k PROVE p \in Good(rows')
  <2>1. p > 1 => p - 1 \in 1 .. k
    OBVIOUS
  <2>2. p \in Seqs /\ rows[p] = rows'[p] /\ (p > 1 => rows[p - 1] = rows'[p - 1])
    BY <1>1, <2>1
  <2> QED
    BY <1>2, <2>2, GoodDependsOnTwo
<1> QED
  BY <1>3

\* A row that has been replaced stays replaced.
LEMMA StaleStays ==
  ASSUME RowTypes, RowStep, NEW k \in Seqs, NEW at \in Nat, at <= now, Stale(rows, k, at)
  PROVE  Stale(rows', k, at)
BY WritesAreNew DEF Stale, RowTypes

\* No row is removed one by one while a verification runs, and the hash that a
\* row has is not touched.
LEMMA RunningKeepsRows ==
  ASSUME RowTypes, RowStep, Removals # "any", NEW r \in Readers, Running(reader[r])
  PROVE  \/ deleter' = "done" /\ \A p \in Seqs : rows'[p] = NoRow
         \/ \A p \in Seqs : rows[p] # NoRow =>
              /\ rows'[p] # NoRow
              /\ rows[p].hash # <<>> =>
                   rows'[p].hash = rows[p].hash /\ rows'[p].prev = rows[p].prev
<1>1. CASE rows' = rows
  BY <1>1
<1>2. CASE Empties
  BY <1>2 DEF Empties
<1>3. ASSUME NEW s \in Seqs, Inserts(s) \/ Fills(s) \/ Edits(s), NEW p \in Seqs, rows[p] # NoRow
      PROVE  /\ rows'[p] # NoRow
             /\ rows[p].hash # <<>> =>
                  rows'[p].hash = rows[p].hash /\ rows'[p].prev = rows[p].prev
  <2>1. CASE p # s
    BY <1>3, <2>1 DEF Inserts, Fills, Edits, Touches
  <2>2. CASE p = s
    BY <1>3, <2>2, RowIsThere DEF Inserts, Fills, Edits
  <2> QED
    BY <2>1, <2>2
<1>4. \A s \in Seqs : ~Removes(s)
  BY DEF Removes, Running
<1> QED
  BY <1>1, <1>2, <1>3, <1>4 DEF RowStep

\* The rows of a running verification stay, or all rows are new.
LEMMA SolidStays ==
  ASSUME RowTypes, RowStep, Removals # "any", NEW r \in Readers, Running(reader[r]),
         NEW k \in 0 .. MaxSeq, NEW at \in Nat, at <= now, Solid(rows, k, at)
  PROVE  Solid(rows', k, at)
<1>1. CASE \A p \in Seqs : rows'[p] = NoRow
  BY <1>1 DEF Solid
<1>2. CASE ~\A p \in Seqs : rows'[p] = NoRow
  <2>1. \A p \in Seqs : rows[p] # NoRow => rows'[p] # NoRow
    BY <1>2, RunningKeepsRows
  <2>2. CASE \A p \in 1 .. k : rows[p] # NoRow
    <3>1. \A p \in 1 .. k : p \in Seqs
      BY EvidenceAssumption DEF Seqs
    <3> QED
      BY <2>1, <2>2, <3>1 DEF Solid
  <2>3. CASE \A p \in Seqs : rows[p] # NoRow => rows[p].upd >= at
    BY <2>3, WritesAreNew DEF Solid, RowTypes
  <2> QED
    BY <2>2, <2>3 DEF Solid
<1> QED
  BY <1>1, <1>2

\* What is below a chained row f after a deletion is again its predecessor.
LEMMA BelowStays ==
  ASSUME RowTypes, RowStep, Removals # "any", NEW r \in Readers, Running(reader[r]),
         NEW f \in Seqs, f > 1,
         rows[f] # NoRow /\ rows[f].hash # <<>> =>
           /\ rows[f - 1] # NoRow /\ rows[f - 1].hash # <<>>
           /\ rows[f - 1].hash = rows[f].prev
  PROVE  rows'[f] # NoRow /\ rows'[f].hash # <<>> =>
           /\ rows'[f - 1] # NoRow /\ rows'[f - 1].hash # <<>>
           /\ rows'[f - 1].hash = rows'[f].prev
<1>1. f - 1 \in Seqs /\ f - 1 # f /\ f \in Nat /\ f # 1
  BY EvidenceAssumption DEF Seqs
<1> SUFFICES ASSUME rows'[f] # NoRow, rows'[f].hash # <<>>
             PROVE  /\ rows'[f - 1] # NoRow /\ rows'[f - 1].hash # <<>>
                    /\ rows'[f - 1].hash = rows'[f].prev
  OBVIOUS
<1>2. \A p \in Seqs : rows[p] # NoRow =>
              /\ rows'[p] # NoRow
              /\ rows[p].hash # <<>> =>
                   rows'[p].hash = rows[p].hash /\ rows'[p].prev = rows[p].prev
  BY RunningKeepsRows
<1>3. CASE rows[f] # NoRow /\ rows[f].hash # <<>>
  BY <1>1, <1>2, <1>3
<1>4. CASE ~(rows[f] # NoRow /\ rows[f].hash # <<>>)
  <2>1. ~Empties /\ rows' # rows
    BY <1>4 DEF Empties
  <2>2. PICK s \in Seqs : Inserts(s) \/ Fills(s) \/ Edits(s) \/ Removes(s)
    BY <2>1 DEF RowStep
  <2>3. s = f
    BY <1>4, <2>2 DEF Inserts, Fills, Edits, Removes, Touches
  <2>4. Fills(f)
    BY <1>4, <2>2, <2>3 DEF Inserts, Edits, Removes
  <2> DEFINE prior == {p \in Present(rows) : p < f}
  <2>5. IF prior = {} THEN f = 1 ELSE Max(prior) = f - 1 /\ rows[f - 1].hash # <<>>
    BY <2>4 DEF Fills, PreviousChained
  <2>6. prior # {} /\ Max(prior) = f - 1 /\ rows[f - 1].hash # <<>>
    BY <1>1, <2>5
  <2>7. prior \in SUBSET Nat /\ \A p \in prior : p <= f
    BY <1>1, EvidenceAssumption DEF Present, Seqs
  <2>8. Max(prior) \in prior
    <3> HIDE DEF prior
    <3> QED
      BY <1>1, <2>6, <2>7, MaxIsGreatest
  <2>9. rows[f - 1] # NoRow /\ f - 1 \in Present(rows)
    BY <2>6, <2>8 DEF Present
  <2>10. rows'[f].prev = rows[f - 1].hash
    BY <2>4, <2>9 DEF Fills, PrevHash
  <2> QED
    BY <1>1, <1>2, <2>6, <2>9, <2>10
<1> QED
  BY <1>3, <1>4

\* The head of a running verification stays the hash below, or its first row
\* has been seen missing.
LEMMA HeadHoldsStays ==
  ASSUME RowTypes, RowStep, Removals # "any", NEW r \in Readers,
         reader[r] \in ReaderRec, HeadHolds(reader[r], rows), HeadIsThere(reader[r]),
         NEW y \in ReaderRec, y.pc = reader[r].pc, y.from = reader[r].from, y.head = reader[r].head,
         y.bad = reader[r].bad \cup (Seqs \ Good(rows'))
  PROVE  HeadHolds(y, rows')
<1> DEFINE x == reader[r]
           f == x.from
<1> SUFFICES ASSUME x.pc = "rows", f > 1, f <= MaxSeq
             PROVE  \/ rows'[f - 1] # NoRow /\ rows'[f - 1].hash = x.head
                    \/ /\ f \in y.bad
                       /\ rows'[f] # NoRow /\ rows'[f].hash # <<>> =>
                            /\ rows'[f - 1] # NoRow /\ rows'[f - 1].hash # <<>>
                            /\ rows'[f - 1].hash = rows'[f].prev
  BY DEF HeadHolds
<1>1. f \in 1 .. MaxSeq + 1
  BY DEF ReaderRec
<1>2. f \in Seqs /\ f - 1 \in Seqs /\ f - 1 >= 1
  BY <1>1, EvidenceAssumption DEF Seqs
<1>3. Running(reader[r])
  BY DEF Running
<1>4. x.head # <<>>
  BY <1>2 DEF HeadIsThere, Verified
<1>5. CASE \A p \in Seqs : rows'[p] = NoRow
  <2>1. f \notin Good(rows')
    BY <1>2, <1>5, GoodRow
  <2> QED
    BY <1>2, <1>5, <2>1
<1>6. CASE ~\A p \in Seqs : rows'[p] = NoRow
  <2>1. CASE rows[f - 1] # NoRow /\ rows[f - 1].hash = x.head
    BY <1>2, <1>3, <1>4, <1>6, <2>1, RunningKeepsRows
  <2>2. CASE /\ f \in x.bad
             /\ rows[f] # NoRow /\ rows[f].hash # <<>> =>
                  /\ rows[f - 1] # NoRow /\ rows[f - 1].hash # <<>>
                  /\ rows[f - 1].hash = rows[f].prev
    BY <1>2, <1>3, <2>2, BelowStays
  <2> QED
    BY <2>1, <2>2 DEF HeadHolds
<1> QED
  BY <1>5, <1>6

\* What is verified is a prefix of the auction.
LEMMA VerifiedRange ==
  ASSUME NEW x \in ReaderRec, NEW t, NEW n, Holding(x, t, n), Verifying(x)
  PROVE  Verified(x) \in 0 .. MaxSeq
<1>1. x.pc = "prefixHead" => x.cache.seq \in 0 .. MaxSeq
  BY DEF Holding, CacheRow
<1>2. x.from \in 1 .. MaxSeq + 1 /\ x.last \in 0 .. MaxSeq
  BY DEF ReaderRec
<1>3. x.from - 1 \in 0 .. MaxSeq
  BY <1>2, EvidenceAssumption
<1> QED
  BY <1>1, <1>2, <1>3 DEF Verified

\* What a row statement leaves of a call, and of the facts about it.
LEMMA RowStepReader ==
  ASSUME VerdictInv, RowStep, NEW r \in Readers
  PROVE  /\ Sane(reader'[r], rows', now)
         /\ reader'[r].pc = reader[r].pc /\ reader'[r].kind = reader[r].kind
         /\ reader'[r].stream = reader[r].stream /\ reader'[r].count = reader[r].count
         /\ reader'[r].max = reader[r].max /\ reader'[r].upd = reader[r].upd
         /\ reader'[r].at = reader[r].at /\ reader'[r].last = reader[r].last
         /\ Verified(reader'[r]) = Verified(reader[r])
         /\ reader'[r].verdict = reader[r].verdict /\ reader'[r].floor = reader[r].floor
         /\ reader[r].good \subseteq reader'[r].good
<1> DEFINE x == reader[r]
           y == reader'[r]
<1>1. RowTypes /\ Removals # "any" /\ Sane(x, rows, now) /\ x \in ReaderRec
  BY DEF VerdictInv
<1>2. reader' = Witness(rows') /\ now' = now
  BY DEF RowStep
<1>3. CASE ~Running(x)
  <2>1. y = x
    BY <1>2, <1>3 DEF Witness, Running
  <2>2. Sane(x, rows', now)
    BY <1>1, <1>3 DEF Sane, Running, Witnessed, Established, Verifying, HeadIsThere, HeadHolds,
       Restated, Holding
  <2> QED
    BY <2>1, <2>2
<1>4. CASE Running(x)
  <2>1. y = [x EXCEPT !.good = @ \cup Good(rows'), !.bad = @ \cup (Seqs \ Good(rows'))]
    BY <1>2, <1>4 DEF Witness, Running
  <2>2. /\ y \in ReaderRec
        /\ y.good = x.good \cup Good(rows') /\ y.bad = x.bad \cup (Seqs \ Good(rows'))
        /\ y.pc = x.pc /\ y.kind = x.kind /\ y.stream = x.stream /\ y.count = x.count
        /\ y.max = x.max /\ y.upd = x.upd /\ y.cache = x.cache /\ y.at = x.at
        /\ y.from = x.from /\ y.last = x.last /\ y.head = x.head
        /\ y.verdict = x.verdict /\ y.brk = x.brk /\ y.floor = x.floor
    <3> DEFINE t == rows'
               z == [x EXCEPT !.good = @ \cup Good(t), !.bad = @ \cup (Seqs \ Good(t))]
    <3>1. y = z /\ x \in ReaderRec
      BY <1>1, <2>1
    <3> HIDE DEF x, y, t
    <3>2. /\ z \in ReaderRec
          /\ z.good = x.good \cup Good(t) /\ z.bad = x.bad \cup (Seqs \ Good(t))
          /\ z.pc = x.pc /\ z.kind = x.kind /\ z.stream = x.stream /\ z.count = x.count
          /\ z.max = x.max /\ z.upd = x.upd /\ z.cache = x.cache /\ z.at = x.at
          /\ z.from = x.from /\ z.last = x.last /\ z.head = x.head
          /\ z.verdict = x.verdict /\ z.brk = x.brk /\ z.floor = x.floor
      BY <3>1, WitnessFields
    <3> HIDE DEF z
    <3>3. t = rows'
      BY DEF t
    <3> QED
      BY <3>1, <3>2, <3>3
  <2> HIDE DEF x, y
  <2>3. Verified(y) = Verified(x) /\ Verifying(y) = Verifying(x)
    BY <2>2 DEF Verified, Verifying
  <2>4. Witnessed(y, rows')
    BY <2>2 DEF Witnessed
  <2>5. Established(y, rows', now)
    <3> SUFFICES ASSUME Verifying(x) PROVE Established(y, rows', now)
      BY <2>3 DEF Established
    <3>1. Verified(x) \in 0 .. MaxSeq /\ x.at \in Nat /\ x.at <= now
      BY <1>1, VerifiedRange DEF Sane, ReaderRec, Established
    <3>2. Certified(rows, Verified(x), x.at) /\ Solid(rows, Verified(x), x.at)
      BY <1>1 DEF Sane, Established
    <3>3. Certified(rows', Verified(x), x.at)
      BY <1>1, <3>1, <3>2, CertifiedStays
    <3>4. Solid(rows', Verified(x), x.at)
      BY <1>1, <1>4, <3>1, <3>2, SolidStays DEF x
    <3>5. 1 .. Verified(x) \subseteq x.good
      BY <1>1 DEF Sane, Established
    <3> QED
      BY <2>2, <2>3, <3>1, <3>3, <3>4, <3>5 DEF Established
  <2>6. HeadIsThere(y)
    BY <1>1, <2>2, <2>3 DEF Sane, HeadIsThere
  <2>7. HeadHolds(y, rows')
    BY <1>1, <2>2, HeadHoldsStays DEF Sane, x
  <2>8. Restated(y, rows')
    <3> SUFFICES ASSUME x.pc \in {"retip", "store"}, x.max = x.last, x.last >= 1
                 PROVE  x.count = x.last \/ Stale(rows', x.last, x.at)
      BY <2>2 DEF Restated
    <3>1. x.last \in Seqs /\ x.at \in Nat
      BY <1>1 DEF Sane, ReaderRec, Seqs
    <3>2. x.at <= now
      BY <1>1 DEF Sane, Established, Verifying
    <3>3. x.count = x.last \/ Stale(rows, x.last, x.at)
      BY <1>1 DEF Sane, Restated
    <3> QED
      BY <1>1, <3>1, <3>2, <3>3, StaleStays
  <2>9. Holding(y, rows', now)
    <3> SUFFICES ASSUME x.pc \in {"prefixNow", "prefix", "prefixHead"}
                 PROVE  Certified(rows', x.cache.seq, x.cache.at)
      BY <1>1, <2>2 DEF Sane, Holding
    <3>1. x.cache \in CacheRow /\ x.cache.at <= now /\ Certified(rows, x.cache.seq, x.cache.at)
      BY <1>1 DEF Sane, Holding
    <3>2. x.cache.seq \in 0 .. MaxSeq /\ x.cache.at \in Nat
      BY <3>1 DEF CacheRow
    <3> QED
      BY <1>1, <3>1, <3>2, CertifiedStays
  <2>10. Honest(y)
    BY <1>4, <2>2 DEF Honest, Running
  <2>11. Sane(y, rows', now)
    BY <2>2, <2>4, <2>5, <2>6, <2>7, <2>8, <2>9, <2>10 DEF Sane
  <2> QED
    BY <2>2, <2>3, <2>11 DEF x, y
<1> QED
  BY <1>3, <1>4

\* Statements on the rows keep the invariant.
LEMMA RowStepKeepsVerdict ==
  ASSUME VerdictInv, RowStep, RowTypes'
  PROVE  VerdictInv'
<1>1. RowTypes /\ now' = now /\ now \in Nat
  BY DEF VerdictInv, RowStep, RowTypes
<1>2. \A s \in Seqs : rows'[s] # NoRow => rows'[s].upd <= now
  BY <1>1, WritesAreNew DEF VerdictInv
<1>3. CacheSound(cached', rows', now)
  <2>1. CASE cached' = NoCache
    BY <2>1 DEF CacheSound
  <2>2. CASE cached' # NoCache
    <3>1. cached' = cached
      BY <2>2 DEF RowStep
    <3>2. /\ cached \in CacheRow /\ cached.at <= now /\ Certified(rows, cached.seq, cached.at)
          /\ cached.seq >= 1 => /\ cached.head # <<>>
                                /\ cached.count = cached.seq \/ Stale(rows, cached.seq, cached.at)
      BY <2>2, <3>1 DEF VerdictInv, CacheSound
    <3>3. cached.seq \in 0 .. MaxSeq /\ cached.at \in Nat
      BY <3>2 DEF CacheRow
    <3>4. Certified(rows', cached.seq, cached.at)
      BY <1>1, <3>2, <3>3, CertifiedStays
    <3>5. cached.seq >= 1 => cached.seq \in Seqs
      BY <3>3, EvidenceAssumption DEF Seqs
    <3>6. cached.seq >= 1 => cached.count = cached.seq \/ Stale(rows', cached.seq, cached.at)
      BY <1>1, <3>2, <3>3, <3>5, StaleStays
    <3> QED
      BY <3>1, <3>2, <3>4, <3>6 DEF CacheSound
  <2> QED
    BY <2>1, <2>2
<1>4. \A r \in Readers : Sane(reader'[r], rows', now)
  BY RowStepReader
<1>5. reader' \in [Readers -> ReaderRec]
  <2>1. \A r \in Readers : reader'[r] \in ReaderRec
    BY <1>4 DEF Sane
  <2>2. reader' = [r \in Readers |-> reader'[r]]
    BY DEF RowStep, Witness
  <2> QED
    BY <2>1, <2>2
<1>6. ASSUME NEW r \in Readers PROVE CacheMeets(cached', reader'[r])
  <2>1. cached' = NoCache \/ cached' = cached
    BY DEF RowStep
  <2>2. CacheMeets(cached, reader[r])
    BY DEF VerdictInv
  <2> QED
    BY <2>1, <2>2, RowStepReader DEF CacheMeets, Stating
<1>7. ASSUME NEW r \in Readers, NEW m \in Readers PROVE Meets(reader'[r], reader'[m])
  <2>1. Meets(reader[r], reader[m])
    BY DEF VerdictInv
  <2> QED
    BY <2>1, RowStepReader DEF Meets, Verifying, Stating
<1>8. Removals # "any"
  BY DEF VerdictInv
<1> QED
  BY <1>1, <1>2, <1>3, <1>4, <1>5, <1>6, <1>7, <1>8 DEF VerdictInv

\* So do steps elsewhere; the clock only moves on.
LEMMA ElsewhereKeepsVerdict ==
  ASSUME VerdictInv, Elsewhere, RowTypes'
  PROVE  VerdictInv'
<1>1. now \in Nat /\ now' \in Nat /\ now <= now'
  BY DEF VerdictInv, RowTypes, Elsewhere
<1>2. rows' = rows /\ cached' = cached /\ reader' = reader
  BY DEF Elsewhere
<1>3. ASSUME NEW s \in Seqs, rows[s] # NoRow PROVE rows[s].upd <= now'
  <2>1. rows[s].upd \in Nat /\ rows[s].upd <= now
    BY <1>3, RowFields DEF VerdictInv
  <2> QED
    BY <1>1, <2>1
<1>4. CacheSound(cached, rows, now')
  <2>1. cached # NoCache => cached.at \in Nat /\ cached.at <= now
    BY DEF VerdictInv, CacheSound, CacheRow
  <2>2. cached # NoCache => cached.at <= now'
    BY <1>1, <2>1
  <2> QED
    BY <2>2 DEF VerdictInv, CacheSound
<1>5. ASSUME NEW r \in Readers PROVE Sane(reader[r], rows, now')
  <2> DEFINE x == reader[r]
  <2>1. Sane(x, rows, now) /\ x.at \in Nat
    BY DEF VerdictInv, ReaderRec
  <2>2. Established(x, rows, now')
    <3>1. Verifying(x) => x.at <= now'
      BY <1>1, <2>1 DEF Sane, Established
    <3> QED
      BY <2>1, <3>1 DEF Sane, Established
  <2>3. Holding(x, rows, now')
    <3>1. x.pc \in {"prefixNow", "prefix", "prefixHead"} => x.cache.at \in Nat /\ x.cache.at <= now
      BY <2>1 DEF Sane, Holding, CacheRow
    <3>2. x.pc \in {"prefixNow", "prefix", "prefixHead"} => x.cache.at <= now'
      BY <1>1, <3>1
    <3>3. x.pc = "prefix" => x.at <= now'
      BY <1>1, <2>1 DEF Sane, Holding
    <3> QED
      BY <2>1, <3>2, <3>3 DEF Sane, Holding
  <2> QED
    BY <2>1, <2>2, <2>3 DEF Sane
<1> QED
  BY <1>2, <1>3, <1>4, <1>5 DEF VerdictInv

-----------------------------------------------------------------------------
(***************************************************************************)
(* The steps of a reader.                                                  *)
(***************************************************************************)

\* A reader's step moves this reader only.
Moves(r) ==
  /\ reader' = [m \in Readers |-> reader'[m]]
  /\ \A m \in Readers : m # r => reader'[m] = reader[m]

\* Writing one field, two, or all of them.
LEMMA FieldMoves ==
  ASSUME reader \in [Readers -> ReaderRec], NEW r \in Readers, NEW y,
         reader' = [reader EXCEPT ![r] = y]
  PROVE  Moves(r) /\ reader'[r] = y
BY DEF Moves

\* What the proofs need of the state that a step of reader r leads to.
Fits(r, y) ==
  /\ Sane(y, rows, now)
  /\ CacheMeets(cached, y)
  /\ \A m \in Readers : m # r => Meets(y, reader[m]) /\ Meets(reader[m], y)
  /\ Keeps(reader[r], rows, log) => Keeps(y, rows, log)

\* A fitting step keeps the invariant when it leaves the cache alone.
LEMMA FittingStep ==
  ASSUME VerdictInv, NEW r \in Readers, ReaderOnly, cached' = cached, Moves(r),
         Fits(r, reader'[r])
  PROVE  VerdictInv'
<1>1. rows' = rows /\ now' = now /\ RowTypes'
  BY DEF ReaderOnly, VerdictInv, RowTypes
<1>2. \A m \in Readers : Sane(reader'[m], rows, now) /\ CacheMeets(cached, reader'[m])
  BY DEF Moves, Fits, VerdictInv
<1>3. reader' \in [Readers -> ReaderRec]
  BY <1>2 DEF Moves, Sane
<1>4. ASSUME NEW k \in Readers, NEW m \in Readers PROVE Meets(reader'[k], reader'[m])
  <2>1. CASE k = m
    BY <2>1 DEF Meets, Verifying, Stating
  <2>2. CASE k # m
    BY <2>2 DEF Moves, Fits, VerdictInv
  <2> QED
    BY <2>1, <2>2
<1> QED
  BY <1>1, <1>2, <1>3, <1>4 DEF VerdictInv

\* A call in a phase that has no statistics and no certificate.
LEMMA PlainSane ==
  ASSUME NEW y \in ReaderRec, Witnessed(y, rows), Honest(y),
         y.pc \in {"done", "snapshot", "stream", "timeline", "stats", "now"},
         y.pc = "now" => y.from = 1 /\ y.head = <<>>
  PROVE  /\ Sane(y, rows, now) /\ CacheMeets(cached, y)
         /\ \A m \in Readers : Meets(y, reader[m]) /\ Meets(reader[m], y)
<1>1. ~Verifying(y) /\ ~Stating(y)
  BY DEF Verifying, Stating
<1>2. Established(y, rows, now) /\ CacheMeets(cached, y)
      /\ \A m \in Readers : Meets(y, reader[m]) /\ Meets(reader[m], y)
  BY <1>1 DEF Established, CacheMeets, Meets
<1>3. HeadIsThere(y) /\ HeadHolds(y, rows) /\ Restated(y, rows) /\ Holding(y, rows, now)
  BY DEF HeadIsThere, HeadHolds, Restated, Holding
<1> QED
  BY <1>2, <1>3 DEF Sane

\* Facts about the call that moves.
LEMMA MoverFacts ==
  ASSUME VerdictInv, NEW r \in Readers
  PROVE  /\ RowTypes /\ reader \in [Readers -> ReaderRec] /\ reader[r] \in ReaderRec
         /\ Sane(reader[r], rows, now) /\ CacheMeets(cached, reader[r])
         /\ log \in Nat /\ now \in Nat /\ rows \in Table
         /\ reader[r].good \in SUBSET Seqs /\ reader[r].bad \in SUBSET Seqs
         /\ reader[r].floor \in Nat /\ reader[r].max \in 0 .. MaxSeq
         /\ reader[r].last \in 0 .. MaxSeq /\ reader[r].from \in 1 .. MaxSeq + 1
         /\ reader[r].at \in Nat
BY DEF VerdictInv, RowTypes, ReaderRec

\* A call begins.
LEMMA BeginFits ==
  ASSUME VerdictInv, NEW r \in Readers, HandleEvidence(r) \/ RunVerify(r) \/ RunVerifyEvidence(r)
  PROVE  Moves(r) /\ Fits(r, reader'[r])
<1>1. PICK kind \in {"card", "verify"}, pc \in {"timeline", "snapshot", "stats"} :
        (kind = "card" \/ pc = "snapshot") /\ Begin(r, kind, pc)
  BY DEF HandleEvidence, RunVerify, RunVerifyEvidence
<1> DEFINE y == Fresh(kind, pc, Good(rows), Seqs \ Good(rows), log)
<1>2. /\ y \in ReaderRec /\ y.pc = pc /\ y.kind = kind /\ y.floor = log
      /\ y.good = Good(rows) /\ y.bad = Seqs \ Good(rows)
  <2>1. pc \in ReaderPcs
    BY DEF ReaderPcs
  <2>2. log \in Nat /\ Good(rows) \in SUBSET Seqs /\ Seqs \ Good(rows) \in SUBSET Seqs
    BY MoverFacts, GoodIsSeqs
  <2> QED
    BY <2>1, <2>2, BeginFields
<1>3. Moves(r) /\ reader'[r] = y
  BY <1>1, MoverFacts, FieldMoves DEF Begin, Fresh
<1> HIDE DEF y
<1>4. Witnessed(y, rows) /\ Honest(y)
  BY <1>2 DEF Witnessed, Honest
<1>5. Keeps(y, rows, log)
  BY <1>1, <1>2, MoverFacts DEF Keeps, Stating
<1> QED
  BY <1>2, <1>3, <1>4, <1>5, PlainSane DEF Fits

\* A call goes on to a phase that has no statistics.
LEMMA EnterFits ==
  ASSUME VerdictInv, NEW r \in Readers, Running(reader[r]), NEW pc \in {"stats", "now"},
         Enter(r, pc),
         reader[r].kind = "verify" =>
           1 .. reader[r].floor \subseteq Present(rows) \/ ~Keeps(reader[r], rows, log)
  PROVE  Moves(r) /\ Fits(r, reader'[r])
<1> DEFINE x == reader[r]
           y == Entered(x, pc)
<1>1. /\ y \in ReaderRec /\ y.pc = pc /\ y.kind = x.kind /\ y.floor = x.floor
      /\ y.good = x.good /\ y.bad = x.bad /\ y.from = 1 /\ y.head = <<>>
  <2>1. pc \in ReaderPcs /\ x \in ReaderRec
    BY MoverFacts DEF ReaderPcs
  <2> HIDE DEF x
  <2> QED
    BY <2>1, EnterFields
<1>2. Moves(r) /\ reader'[r] = y
  BY MoverFacts, FieldMoves DEF Enter, Entered
<1> HIDE DEF y
<1>3. Witnessed(y, rows) /\ Honest(y)
  BY <1>1, MoverFacts DEF Sane, Witnessed, Honest, Running
<1>4. Keeps(x, rows, log) => Keeps(y, rows, log)
  BY <1>1 DEF Keeps, Stating, Running
<1> QED
  BY <1>1, <1>2, <1>3, <1>4, PlainSane DEF Fits

\* A call ends.
LEMMA AnswerFits ==
  ASSUME VerdictInv, NEW r \in Readers, NEW v \in Verdicts, NEW brk \in Nat,
         NEW last \in 0 .. MaxSeq, Answer(r, v, brk, last),
         v = "ok" => 1 .. last \subseteq reader[r].good,
         v = "broken" => brk \in reader[r].bad,
         v = "ok" /\ reader[r].kind = "verify" /\ Keeps(reader[r], rows, log) => reader[r].floor <= last
  PROVE  Moves(r) /\ Fits(r, reader'[r])
<1> DEFINE x == reader[r]
           y == Closed(x, v, brk, last)
<1>1. /\ y \in ReaderRec /\ y.pc = "done" /\ y.verdict = v /\ y.brk = brk /\ y.last = last
      /\ y.kind = "none"
      /\ v = "ok" => y.good = x.good
      /\ v = "broken" => y.bad = x.bad
      /\ y.floor = IF v = "ok" /\ x.kind = "verify" THEN x.floor ELSE 0
  <2>1. x \in ReaderRec
    BY MoverFacts
  <2> HIDE DEF x
  <2> QED
    BY <2>1, AnswerFields
<1>2. Moves(r) /\ reader'[r] = y
  BY MoverFacts, FieldMoves DEF Answer, Closed
<1> HIDE DEF y
<1>3. Witnessed(y, rows) /\ Honest(y)
  BY <1>1 DEF Witnessed, Honest, Running
<1>4. Keeps(x, rows, log) => Keeps(y, rows, log)
  <2>1. 0 <= last
    BY EvidenceAssumption
  <2> QED
    BY <1>1, <2>1 DEF Keeps, Stating, Running
<1> QED
  BY <1>1, <1>2, <1>3, <1>4, PlainSane DEF Fits

\* Any of the queries fails.
LEMMA ReaderFailsFits ==
  ASSUME VerdictInv, NEW r \in Readers, ReaderFails(r)
  PROVE  Moves(r) /\ Fits(r, reader'[r])
<1>1. "error" \in Verdicts /\ 0 \in Nat /\ 0 \in 0 .. MaxSeq
  BY EvidenceAssumption DEF Verdicts
<1>2. Answer(r, "error", 0, 0)
  BY DEF ReaderFails
<1> QED
  BY <1>1, <1>2, AnswerFits

\* The snapshot and the Stream are read.
LEMMA ReadStreamFits ==
  ASSUME VerdictInv, NEW r \in Readers, ReadSnapshot(r) \/ ReadStream(r)
  PROVE  Moves(r) /\ Fits(r, reader'[r])
<1> DEFINE x == reader[r]
<1>1. reader \in [Readers -> ReaderRec] /\ log \in Nat /\ 1 .. log \in SUBSET Seqs /\ x \in ReaderRec
  <2>1. log \in 0 .. MaxSeq
    BY DEF VerdictInv, RowTypes
  <2>2. 1 .. log \in SUBSET Seqs
    BY <2>1, EvidenceAssumption DEF Seqs
  <2> QED
    BY <2>2, MoverFacts
<1>2. PICK y \in ReaderRec :
        /\ Moves(r) /\ reader'[r] = y
        /\ y.kind = x.kind /\ y.good = x.good /\ y.bad = x.bad /\ y.floor = x.floor
        /\ y.verdict = x.verdict /\ Running(x)
        /\ \/ y.pc = "stream"
           \/ y.pc = "timeline" /\ y.stream = 1 .. log
  <2>1. CASE ReadSnapshot(r)
    <3> DEFINE y == [[x EXCEPT !.pc = "stream"] EXCEPT !.snapshot = log]
    <3>1. reader' = [reader EXCEPT ![r].pc = "stream", ![r].snapshot = log] /\ x.pc = "snapshot"
      BY <2>1 DEF ReadSnapshot
    <3>2. /\ y \in ReaderRec /\ y.kind = x.kind /\ y.good = x.good /\ y.bad = x.bad
          /\ y.floor = x.floor /\ y.verdict = x.verdict /\ y.pc = "stream"
      BY <1>1 DEF ReaderRec, ReaderPcs
    <3>3. Moves(r) /\ reader'[r] = y
      BY <1>1, <3>1 DEF Moves
    <3> QED
      BY <3>1, <3>2, <3>3 DEF Running
  <2>2. CASE ReadStream(r)
    <3> DEFINE l == 1 .. log
               y == [[x EXCEPT !.pc = "timeline"] EXCEPT !.stream = l]
    <3>1. reader' = [reader EXCEPT ![r].pc = "timeline", ![r].stream = l] /\ x.pc = "stream"
      BY <2>2 DEF ReadStream
    <3>2. l \in SUBSET Seqs
      BY <1>1
    <3> HIDE DEF l
    <3>3. /\ y \in ReaderRec /\ y.kind = x.kind /\ y.good = x.good /\ y.bad = x.bad
          /\ y.floor = x.floor /\ y.verdict = x.verdict /\ y.pc = "timeline" /\ y.stream = l
      BY <1>1, <3>2 DEF ReaderRec, ReaderPcs
    <3>4. Moves(r) /\ reader'[r] = y
      BY <1>1, <3>1 DEF Moves
    <3> QED
      BY <3>1, <3>3, <3>4 DEF Running, l
  <2> QED
    BY <2>1, <2>2
<1>3. Witnessed(y, rows) /\ Honest(y)
  BY <1>2, MoverFacts DEF Sane, Witnessed, Honest, Running
<1>4. Keeps(x, rows, log) => Keeps(y, rows, log)
  <2> SUFFICES ASSUME Keeps(x, rows, log) PROVE Keeps(y, rows, log)
    OBVIOUS
  <2>1. y.floor \in Nat /\ y.floor <= log
    BY <1>2, MoverFacts DEF Keeps
  <2>2. 1 .. y.floor \subseteq 1 .. log
    BY <1>1, <2>1
  <2> QED
    BY <1>2, <2>1, <2>2 DEF Keeps, Running, Stating
<1> QED
  BY <1>2, <1>3, <1>4, PlainSane DEF Fits

\* findMismatch finds nothing only if Stream and projection have the same seqs.
LEMMA NoMismatch ==
  ASSUME NEW stream \in SUBSET Nat, NEW timeline \in SUBSET Nat, NEW snapshot,
         0 \notin stream, 0 \notin timeline, FindMismatch(stream, timeline, snapshot) = 0
  PROVE  stream = timeline
<1> DEFINE differ == (stream \ timeline) \cup (timeline \ stream)
<1>1. differ \in SUBSET Nat /\ 0 \notin differ
  OBVIOUS
<1>2. differ # {} => Min(differ) \in differ
  <2> HIDE DEF differ
  <2> QED
    BY <1>1, MinIsLeast
<1>3. differ # {} => FindMismatch(stream, timeline, snapshot) = Min(differ)
  BY DEF FindMismatch
<1>4. differ = {}
  BY <1>1, <1>2, <1>3
<1> QED
  BY <1>4

\* findMismatch names a seq.
LEMMA MismatchIsNat ==
  ASSUME NEW stream \in SUBSET Nat, NEW timeline \in SUBSET Nat, NEW snapshot,
         NEW b \in Nat, \A s \in stream : s <= b
  PROVE  FindMismatch(stream, timeline, snapshot) \in Nat
<1> DEFINE differ == (stream \ timeline) \cup (timeline \ stream)
           S == stream \cup {0}
<1>1. differ \in SUBSET Nat /\ S \in SUBSET Nat /\ S # {} /\ \A s \in S : s <= b
  OBVIOUS
<1>2. (differ # {} => Min(differ) \in Nat) /\ Max(S) \in Nat
  <2> HIDE DEF differ, S
  <2> QED
    BY <1>1, MinIsLeast, MaxIsGreatest
<1> QED
  BY <1>2 DEF FindMismatch

\* The card goes on; a verify run goes on if Stream and projection agree.
LEMMA EventTimelineFits ==
  ASSUME VerdictInv, NEW r \in Readers, EventTimeline(r)
  PROVE  Moves(r) /\ Fits(r, reader'[r])
<1> DEFINE x == reader[r]
           mismatch == FindMismatch(x.stream, Present(rows), x.snapshot)
<1>1. x.pc = "timeline" /\ Running(x)
  BY DEF EventTimeline, Running
<1>2. /\ x.stream \in SUBSET Nat /\ Present(rows) \in SUBSET Nat
      /\ 0 \notin x.stream /\ 0 \notin Present(rows) /\ \A s \in x.stream : s <= MaxSeq
  <2>1. x.stream \in SUBSET Seqs /\ Present(rows) \in SUBSET Seqs
    BY MoverFacts DEF ReaderRec, Present
  <2> QED
    BY <2>1, EvidenceAssumption DEF Seqs
<1>3. mismatch \in Nat
  BY <1>2, MismatchIsNat, EvidenceAssumption
<1>4. CASE (x.kind = "card" \/ mismatch = 0) /\ Enter(r, "stats")
  <2>1. x.kind = "verify" /\ Keeps(x, rows, log) => 1 .. x.floor \subseteq Present(rows)
    <3>1. mismatch = 0 => x.stream = Present(rows)
      BY <1>2, NoMismatch
    <3> QED
      BY <1>1, <1>4, <3>1 DEF Keeps
  <2> QED
    BY <1>1, <1>4, <2>1, EnterFits
<1>5. CASE Answer(r, "mismatch", mismatch, 0)
  <2>1. "mismatch" \in Verdicts /\ 0 \in 0 .. MaxSeq
    BY EvidenceAssumption DEF Verdicts
  <2> QED
    BY <1>3, <1>5, <2>1, AnswerFits
<1> QED
  BY <1>4, <1>5 DEF EventTimeline

\* The aggregate over the rows: its maximum is the last row, or 0 for none, its
\* updated_at bounds that of every row, and its count is the maximum when the
\* rows up to it are all there.
LEMMA Aggregate ==
  ASSUME RowTypes, \A s \in Seqs : rows[s] # NoRow => rows[s].upd <= now
  PROVE  LET m == MaxSeqOf(rows)
             u == Max({rows[s].upd : s \in Present(rows)} \cup {0})
             c == Cardinality(Present(rows))
         IN  /\ m \in 0 .. MaxSeq /\ u \in Nat /\ c \in Nat
             /\ Present(rows) \in SUBSET (1 .. m)
             /\ m # 0 => m \in Seqs /\ rows[m] # NoRow
             /\ \A s \in Present(rows) : rows[s].upd <= u
             /\ c = m <=> Present(rows) = 1 .. m
<1> DEFINE P == Present(rows)
           M == P \cup {0}
           T == {rows[s].upd : s \in P} \cup {0}
<1>1. P \in SUBSET Seqs /\ \A s \in P : rows[s] # NoRow /\ rows[s].upd \in Nat /\ rows[s].upd <= now
  BY RowFields DEF Present
<1>2. M \in SUBSET Nat /\ M # {} /\ 0 \in M /\ \A s \in M : s <= MaxSeq
  BY <1>1, EvidenceAssumption DEF Seqs
<1>3. Max(M) \in M /\ \A s \in M : s <= Max(M)
  <2> HIDE DEF M
  <2> QED
    BY <1>2, MaxIsGreatest, EvidenceAssumption
<1>4. T \in SUBSET Nat /\ T # {} /\ now \in Nat /\ \A s \in T : s <= now
  BY <1>1 DEF RowTypes
<1>5. Max(T) \in Nat /\ \A u \in T : u <= Max(T)
  <2> HIDE DEF T
  <2> QED
    BY <1>4, MaxIsGreatest
<1>6. P \in SUBSET (1 .. Max(M)) /\ Max(M) \in 0 .. MaxSeq
  <2>1. Max(M) \in Nat /\ Max(M) <= MaxSeq
    BY <1>2, <1>3
  <2>2. ASSUME NEW s \in P PROVE s \in 1 .. Max(M)
    <3>1. s \in Seqs /\ s <= Max(M)
      BY <1>1, <1>3
    <3> QED
      BY <2>1, <3>1 DEF Seqs
  <2> QED
    BY <2>1, <2>2, EvidenceAssumption
<1>7. Cardinality(P) \in Nat /\ (Cardinality(P) = Max(M) <=> P = 1 .. Max(M))
  <2> HIDE DEF P, M
  <2>1. Max(M) \in Nat
    BY <1>6, EvidenceAssumption
  <2> QED
    BY <1>6, <2>1, CountFillsPrefix
<1>8. Max(M) # 0 => Max(M) \in P
  BY <1>3
<1>9. \A s \in P : rows[s].upd <= Max(T)
  BY <1>5
<1> QED
  BY <1>1, <1>5, <1>6, <1>7, <1>8, <1>9 DEF MaxSeqOf

\* The fields that Stats writes.
LEMMA StatsFields ==
  ASSUME VerdictInv, NEW r \in Readers, NEW pc, NEW next \in ReaderPcs, Stats(r, pc, next)
  PROVE  LET x == reader[r]
             y == reader'[r]
         IN  /\ Moves(r) /\ y \in ReaderRec /\ y.pc = next
             /\ y.count = Cardinality(Present(rows)) /\ y.max = MaxSeqOf(rows)
             /\ y.upd = Max({rows[s].upd : s \in Present(rows)} \cup {0})
             /\ y.kind = x.kind /\ y.good = x.good /\ y.bad = x.bad /\ y.floor = x.floor
             /\ y.at = x.at /\ y.last = x.last /\ y.head = x.head /\ y.from = x.from
<1> DEFINE x == reader[r]
           c == Cardinality(Present(rows))
           m == MaxSeqOf(rows)
           u == Max({rows[s].upd : s \in Present(rows)} \cup {0})
           y == [[[[x EXCEPT !.pc = next] EXCEPT !.count = c] EXCEPT !.max = m] EXCEPT !.upd = u]
<1>1. c \in Nat /\ m \in 0 .. MaxSeq /\ u \in Nat
  BY Aggregate DEF VerdictInv
<1>2. reader \in [Readers -> ReaderRec] /\ x \in ReaderRec
  BY MoverFacts
<1>3. reader' = [reader EXCEPT ![r].pc = next, ![r].count = c, ![r].max = m, ![r].upd = u]
  BY DEF Stats
<1> HIDE DEF c, m, u
<1>4. /\ y \in ReaderRec /\ y.pc = next /\ y.count = c /\ y.max = m /\ y.upd = u
      /\ y.kind = x.kind /\ y.good = x.good /\ y.bad = x.bad /\ y.floor = x.floor
      /\ y.at = x.at /\ y.last = x.last /\ y.head = x.head /\ y.from = x.from
  BY <1>1, <1>2 DEF ReaderRec
<1>5. Moves(r) /\ reader'[r] = y
  BY <1>2, <1>3 DEF Moves
<1> HIDE DEF y
<1> QED
  BY <1>4, <1>5 DEF c, m, u

\* Statistics that fit a certificate for rows that are still there say that
\* the rows are good.
LEMMA FittingStatistics ==
  ASSUME VerdictInv, NEW k \in 1 .. MaxSeq, NEW at \in Nat, Certified(rows, k, at),
         Solid(rows, k, at), MaxSeqOf(rows) >= k,
         Max({rows[s].upd : s \in Present(rows)} \cup {0}) < at
  PROVE  1 .. k \subseteq Good(rows)
<1> DEFINE m == MaxSeqOf(rows)
           u == Max({rows[s].upd : s \in Present(rows)} \cup {0})
<1>1. /\ m \in 0 .. MaxSeq /\ u \in Nat /\ (m # 0 => m \in Seqs /\ rows[m] # NoRow)
      /\ \A s \in Present(rows) : rows[s].upd <= u
  BY Aggregate DEF VerdictInv
<1> HIDE DEF m, u
<1>2. m >= k /\ u < at
  BY DEF m, u
<1>3. \A s \in Seqs : rows[s] # NoRow => rows[s].upd < at
  <2> SUFFICES ASSUME NEW s \in Seqs, rows[s] # NoRow PROVE rows[s].upd < at
    OBVIOUS
  <2>1. rows[s].upd \in Nat /\ rows[s].upd <= u
    BY <1>1, RowFields DEF Present, VerdictInv
  <2> QED
    BY <1>1, <1>2, <2>1
<1>4. m \in Seqs /\ rows[m] # NoRow
  BY <1>1, <1>2
<1>5. ~(rows[m].upd >= at)
  <2>1. rows[m].upd \in Nat /\ rows[m].upd < at
    BY <1>3, <1>4, RowFields DEF VerdictInv
  <2> QED
    BY <2>1
<1>6. \A p \in 1 .. k : p \in Seqs /\ rows[p] # NoRow
  <2>1. \A p \in 1 .. k : p \in Seqs
    BY EvidenceAssumption DEF Seqs
  <2> QED
    BY <1>4, <1>5, <2>1 DEF Solid
<1> QED
  BY <1>3, <1>6 DEF Certified

\* A call that holds statistics.
LEMMA StatingSane ==
  ASSUME NEW y \in ReaderRec, Stating(y), Witnessed(y, rows)
  PROVE  Sane(y, rows, now) /\ \A m \in Readers : Meets(y, reader[m])
BY DEF Sane, Stating, Established, Verifying, HeadIsThere, HeadHolds, Restated, Holding, Honest,
       Meets

\* The first aggregate of a call.
LEMMA StatsFits ==
  ASSUME VerdictInv, NEW r \in Readers, Stats(r, "stats", "tip")
  PROVE  Moves(r) /\ Fits(r, reader'[r])
<1> DEFINE x == reader[r]
           y == reader'[r]
<1>1. x.pc = "stats" /\ Running(x)
  BY DEF Stats, Running
<1>2. /\ Moves(r) /\ y \in ReaderRec /\ y.pc = "tip"
      /\ y.count = Cardinality(Present(rows)) /\ y.max = MaxSeqOf(rows)
      /\ y.upd = Max({rows[s].upd : s \in Present(rows)} \cup {0})
      /\ y.kind = x.kind /\ y.good = x.good /\ y.bad = x.bad /\ y.floor = x.floor
  BY StatsFields DEF ReaderPcs
<1>3. Good(rows) \subseteq x.good /\ Seqs \ Good(rows) \subseteq x.bad
  BY <1>1, MoverFacts DEF Sane, Witnessed
<1> HIDE DEF x, y
<1>4. Witnessed(y, rows) /\ Stating(y)
  BY <1>2, <1>3 DEF Witnessed, Stating
<1>5. CacheMeets(cached, y)
  <2> SUFFICES ASSUME cached # NoCache, y.max = cached.seq, y.count = cached.count, y.upd < cached.at
               PROVE  1 .. cached.seq \subseteq y.good
    BY DEF CacheMeets
  <2> DEFINE k == cached.seq
  <2>1. /\ cached \in CacheRow /\ Certified(rows, k, cached.at)
        /\ k >= 1 => cached.count = k \/ Stale(rows, k, cached.at)
    BY DEF VerdictInv, CacheSound
  <2>2. k \in 0 .. MaxSeq /\ cached.at \in Nat
    BY <2>1 DEF CacheRow
  <2>3. CASE k >= 1
    <3>1. k \in 1 .. MaxSeq /\ k \in Seqs
      BY <2>2, <2>3, EvidenceAssumption DEF Seqs
    <3>2. /\ y.max = k /\ rows[k] # NoRow /\ (y.count = k <=> Present(rows) = 1 .. k)
          /\ \A s \in Present(rows) : rows[s].upd <= y.upd
      <4>1. MaxSeqOf(rows) = k /\ k # 0
        BY <1>2, <3>1
      <4> QED
        BY <1>2, <4>1, Aggregate DEF VerdictInv
    <3>3. ~Stale(rows, k, cached.at)
      <4>1. k \in Present(rows) /\ rows[k].upd \in Nat /\ y.upd \in Nat
        BY <1>2, <3>1, <3>2, RowFields DEF Present, VerdictInv, ReaderRec
      <4>2. rows[k].upd <= y.upd
        BY <3>2, <4>1
      <4>3. ~(rows[k].upd >= cached.at)
        BY <2>2, <4>1, <4>2
      <4> QED
        BY <3>2, <4>3 DEF Stale
    <3>4. Present(rows) = 1 .. k
      BY <2>1, <2>3, <3>2, <3>3
    <3>5. Solid(rows, k, cached.at)
      <4>1. \A p \in 1 .. k : rows[p] # NoRow
        BY <3>4 DEF Present
      <4> QED
        BY <4>1 DEF Solid
    <3>6. MaxSeqOf(rows) >= k /\ Max({rows[s].upd : s \in Present(rows)} \cup {0}) < cached.at
      BY <1>2, <2>2
    <3>7. 1 .. k \subseteq Good(rows)
      BY <2>1, <2>2, <3>1, <3>5, <3>6, FittingStatistics
    <3> QED
      BY <1>2, <1>3, <3>7
  <2>4. CASE ~(k >= 1)
    BY <2>2, <2>4
  <2> QED
    BY <2>3, <2>4
<1>6. ASSUME NEW m \in Readers PROVE Meets(reader[m], y)
  <2> DEFINE k == Verified(reader[m])
  <2> SUFFICES ASSUME Verifying(reader[m]), k >= 1, y.max >= k, y.upd < reader[m].at
               PROVE  1 .. k \subseteq y.good
    BY DEF Meets
  <2>1. Sane(reader[m], rows, now) /\ reader[m] \in ReaderRec /\ reader[m].at \in Nat
    BY MoverFacts
  <2>2. k \in 0 .. MaxSeq
    BY <2>1, VerifiedRange DEF Sane
  <2>3. k \in 1 .. MaxSeq
    BY <2>2, EvidenceAssumption
  <2>4. Certified(rows, k, reader[m].at) /\ Solid(rows, k, reader[m].at)
    BY <2>1 DEF Sane, Established
  <2> HIDE DEF k
  <2>5. MaxSeqOf(rows) >= k /\ Max({rows[s].upd : s \in Present(rows)} \cup {0}) < reader[m].at
    BY <1>2
  <2>6. 1 .. k \subseteq Good(rows)
    BY <2>1, <2>3, <2>4, <2>5, FittingStatistics
  <2> QED
    BY <1>2, <1>3, <2>6
<1>7. Keeps(x, rows, log) => Keeps(y, rows, log)
  <2> SUFFICES ASSUME Keeps(x, rows, log) PROVE Keeps(y, rows, log)
    OBVIOUS
  <2>1. y.kind = "verify" => 1 .. y.floor \subseteq Present(rows)
    BY <1>1, <1>2 DEF Keeps
  <2>2. y.floor \in Nat /\ y.max \in Nat /\ Present(rows) \in SUBSET (1 .. y.max)
    <3>1. y.floor \in Nat /\ y.max \in 0 .. MaxSeq
      BY <1>2 DEF ReaderRec
    <3>2. Present(rows) \in SUBSET (1 .. MaxSeqOf(rows))
      BY Aggregate DEF VerdictInv
    <3> QED
      BY <1>2, <3>1, <3>2, EvidenceAssumption
  <2>3. y.kind = "verify" => y.floor <= y.max
    <3> SUFFICES ASSUME y.kind = "verify", ~(y.floor <= y.max) PROVE FALSE
      OBVIOUS
    <3>1. y.floor \in 1 .. y.floor
      BY <2>2
    <3>2. y.floor \in 1 .. y.max
      BY <2>1, <2>2, <3>1
    <3> QED
      BY <2>2, <3>2
  <2> QED
    BY <1>1, <1>2, <2>1, <2>3 DEF Keeps, Running
<1> QED
  BY <1>2, <1>4, <1>5, <1>6, <1>7, StatingSane DEF Fits, x, y

\* The fields that ReadTip writes.
LEMMA ReadTipFields ==
  ASSUME VerdictInv, NEW r \in Readers, NEW pc, NEW next \in ReaderPcs, ReadTip(r, pc, next)
  PROVE  LET x == reader[r]
             y == reader'[r]
         IN  /\ Moves(r) /\ y \in ReaderRec /\ y.pc = next
             /\ y.count = x.count /\ y.max = x.max /\ y.upd = x.upd
             /\ y.kind = x.kind /\ y.good = x.good /\ y.bad = x.bad /\ y.floor = x.floor
             /\ y.at = x.at /\ y.last = x.last /\ y.head = x.head
<1> DEFINE x == reader[r]
           h == IF x.max = 0 THEN <<>> ELSE rows[x.max].hash
           y == [[x EXCEPT !.pc = next] EXCEPT !.tip = h]
<1>1. h \in Hashes
  <2>1. <<>> \in Hashes
    BY DEF Hashes
  <2>2. x.max # 0 => x.max \in Seqs /\ rows[x.max] # NoRow
    BY MoverFacts, EvidenceAssumption DEF ReadTip, Seqs
  <2>3. x.max # 0 => rows[x.max].hash \in Hashes
    BY <2>2, MoverFacts, RowFields
  <2> QED
    BY <2>1, <2>3
<1>2. reader \in [Readers -> ReaderRec] /\ x \in ReaderRec
  BY MoverFacts
<1>3. reader' = [reader EXCEPT ![r].pc = next, ![r].tip = h]
  BY DEF ReadTip
<1> HIDE DEF h
<1>4. /\ y \in ReaderRec /\ y.pc = next /\ y.count = x.count /\ y.max = x.max /\ y.upd = x.upd
      /\ y.kind = x.kind /\ y.good = x.good /\ y.bad = x.bad /\ y.floor = x.floor
      /\ y.at = x.at /\ y.last = x.last /\ y.head = x.head
  BY <1>1, <1>2 DEF ReaderRec
<1>5. Moves(r) /\ reader'[r] = y
  BY <1>2, <1>3 DEF Moves
<1> HIDE DEF y
<1> QED
  BY <1>4, <1>5

\* The tip that the statistics are completed with.
LEMMA TipFits ==
  ASSUME VerdictInv, NEW r \in Readers, ReadTip(r, "tip", "cache")
  PROVE  Moves(r) /\ Fits(r, reader'[r])
<1> DEFINE x == reader[r]
           y == reader'[r]
<1>1. x.pc = "tip" /\ Running(x) /\ Stating(x)
  BY DEF ReadTip, Running, Stating
<1>2. /\ Moves(r) /\ y \in ReaderRec /\ y.pc = "cache"
      /\ y.count = x.count /\ y.max = x.max /\ y.upd = x.upd
      /\ y.kind = x.kind /\ y.good = x.good /\ y.bad = x.bad /\ y.floor = x.floor
  BY ReadTipFields DEF ReaderPcs
<1>3. Sane(x, rows, now) /\ CacheMeets(cached, x)
  BY MoverFacts
<1>4. \A m \in Readers : Meets(reader[m], x)
  BY DEF VerdictInv
<1> HIDE DEF x, y
<1>5. Witnessed(y, rows) /\ Stating(y)
  BY <1>1, <1>2, <1>3 DEF Sane, Witnessed, Stating, Running
<1>6. CacheMeets(cached, y)
  BY <1>1, <1>2, <1>3, <1>5 DEF CacheMeets
<1>7. ASSUME NEW m \in Readers PROVE Meets(reader[m], y)
  <2>1. Meets(reader[m], x)
    BY <1>4
  <2> QED
    BY <1>1, <1>2, <2>1 DEF Meets
<1>8. Keeps(x, rows, log) => Keeps(y, rows, log)
  BY <1>1, <1>2 DEF Keeps, Stating, Running
<1> QED
  BY <1>2, <1>5, <1>6, <1>7, <1>8, StatingSane DEF Fits, x, y

\* A call that holds a cache row but has not compared it yet.
LEMMA HoldingSane ==
  ASSUME NEW y \in ReaderRec, y.pc \in {"prefixNow", "prefix"}, Witnessed(y, rows),
         Holding(y, rows, now)
  PROVE  /\ Sane(y, rows, now) /\ CacheMeets(cached, y)
         /\ \A m \in Readers : Meets(y, reader[m]) /\ Meets(reader[m], y)
<1>1. ~Verifying(y) /\ ~Stating(y)
  BY DEF Verifying, Stating
<1>2. HeadIsThere(y) /\ HeadHolds(y, rows) /\ Restated(y, rows) /\ Honest(y)
  BY DEF HeadIsThere, HeadHolds, Restated, Honest
<1> QED
  BY <1>1, <1>2 DEF Sane, Established, CacheMeets, Meets

\* The cached row settles the call, is a prefix to build on, or is no use.
LEMMA LoadCacheFits ==
  ASSUME VerdictInv, NEW r \in Readers, LoadCache(r)
  PROVE  Moves(r) /\ Fits(r, reader'[r])
<1> DEFINE x == reader[r]
<1>1. x.pc = "cache" /\ Running(x) /\ Stating(x)
  BY DEF LoadCache, Running, Stating
<1>2. /\ x \in ReaderRec /\ Sane(x, rows, now) /\ CacheMeets(cached, x) /\ x.max \in 0 .. MaxSeq
      /\ reader \in [Readers -> ReaderRec]
  BY MoverFacts
<1>3. Keeps(x, rows, log) /\ x.kind = "verify" =>
        x.floor <= x.max /\ 1 .. x.floor \subseteq Present(rows)
  BY <1>1 DEF Keeps
<1>4. CASE CacheHit(x, cached) /\ Answer(r, "ok", 0, x.max)
  <2>1. 1 .. x.max \subseteq x.good
    BY <1>1, <1>2, <1>4 DEF CacheHit, CacheMeets
  <2>2. "ok" \in Verdicts /\ 0 \in Nat
    BY DEF Verdicts
  <2>3. "ok" # "broken"
    OBVIOUS
  <2> QED
    BY <1>2, <1>3, <1>4, <2>1, <2>2, <2>3, AnswerFits
<1>5. CASE /\ cached # NoCache /\ cached.seq > 0 /\ cached.seq < x.max
           /\ reader' = [reader EXCEPT ![r].pc = "prefixNow", ![r].cache = cached,
                                       ![r].count = 0, ![r].upd = 0, ![r].tip = <<>>,
                                       ![r].max = 0]
  <2>1. /\ cached \in CacheRow /\ cached.at <= now /\ Certified(rows, cached.seq, cached.at)
        /\ cached.seq \in 0 .. MaxSeq
    BY <1>5 DEF VerdictInv, CacheSound, CacheRow
  <2>2. cached.seq >= 1 /\ cached.head # <<>>
    <3>1. cached.seq >= 1
      BY <1>5, <2>1
    <3> QED
      BY <1>5, <3>1 DEF VerdictInv, CacheSound
  <2> DEFINE a == [[[x EXCEPT !.pc = "prefixNow"] EXCEPT !.cache = cached] EXCEPT !.count = 0]
             y == [[[a EXCEPT !.upd = 0] EXCEPT !.tip = <<>>] EXCEPT !.max = 0]
  <2>3. /\ a \in ReaderRec /\ a.pc = "prefixNow" /\ a.cache = cached /\ a.kind = x.kind
        /\ a.good = x.good /\ a.bad = x.bad /\ a.floor = x.floor
    BY <1>2, <2>1 DEF ReaderRec, ReaderPcs
  <2>4. /\ y \in ReaderRec /\ y.pc = "prefixNow" /\ y.cache = cached /\ y.kind = x.kind
        /\ y.good = x.good /\ y.bad = x.bad /\ y.floor = x.floor
    <3>1. <<>> \in Hashes /\ 0 \in 0 .. MaxSeq
      BY EvidenceAssumption DEF Hashes
    <3> HIDE DEF a
    <3> QED
      BY <2>3, <3>1 DEF ReaderRec
  <2>5. Moves(r) /\ reader'[r] = y
    BY <1>2, <1>5 DEF Moves
  <2> HIDE DEF y
  <2>6. Witnessed(y, rows) /\ Holding(y, rows, now)
    BY <1>1, <1>2, <2>1, <2>2, <2>4 DEF Sane, Witnessed, Running, Holding
  <2>7. Keeps(x, rows, log) => Keeps(y, rows, log)
    BY <1>1, <2>4 DEF Keeps, Stating, Running
  <2> QED
    BY <2>4, <2>5, <2>6, <2>7, HoldingSane DEF Fits
<1>6. CASE Enter(r, "now")
  BY <1>1, <1>3, <1>6, EnterFits
<1> QED
  BY <1>4, <1>5, <1>6 DEF LoadCache

\* A call that has verified rows.
LEMMA VerifyingSane ==
  ASSUME NEW y \in ReaderRec, Verifying(y), Witnessed(y, rows), Established(y, rows, now),
         HeadIsThere(y), HeadHolds(y, rows), Restated(y, rows), Holding(y, rows, now)
  PROVE  /\ Sane(y, rows, now) /\ CacheMeets(cached, y)
         /\ \A m \in Readers : Meets(reader[m], y)
<1>1. ~Stating(y) /\ Honest(y)
  BY DEF Verifying, Stating, Honest
<1> QED
  BY <1>1 DEF Sane, CacheMeets, Meets

\* The database clock is read before the rows.
LEMMA DBNowFields ==
  ASSUME VerdictInv, NEW r \in Readers, NEW pc, NEW next \in ReaderPcs, DBNow(r, pc, next)
  PROVE  LET x == reader[r]
             y == reader'[r]
         IN  /\ Moves(r) /\ y \in ReaderRec /\ y.pc = next /\ y.at = now
             /\ y.kind = x.kind /\ y.good = x.good /\ y.bad = x.bad /\ y.floor = x.floor
             /\ y.cache = x.cache /\ y.from = x.from /\ y.head = x.head
<1> DEFINE x == reader[r]
           y == [[x EXCEPT !.pc = next] EXCEPT !.at = now]
<1>1. reader \in [Readers -> ReaderRec] /\ x \in ReaderRec /\ now \in Nat
  BY MoverFacts
<1>2. reader' = [reader EXCEPT ![r].pc = next, ![r].at = now]
  BY DEF DBNow
<1>3. /\ y \in ReaderRec /\ y.pc = next /\ y.at = now
      /\ y.kind = x.kind /\ y.good = x.good /\ y.bad = x.bad /\ y.floor = x.floor
      /\ y.cache = x.cache /\ y.from = x.from /\ y.head = x.head
  BY <1>1 DEF ReaderRec
<1>4. Moves(r) /\ reader'[r] = y
  BY <1>1, <1>2 DEF Moves
<1> HIDE DEF y
<1> QED
  BY <1>3, <1>4

\* The clock of a verification that builds on a cache row.
LEMMA PrefixNowFits ==
  ASSUME VerdictInv, NEW r \in Readers, DBNow(r, "prefixNow", "prefix")
  PROVE  Moves(r) /\ Fits(r, reader'[r])
<1> DEFINE x == reader[r]
           y == reader'[r]
<1>1. x.pc = "prefixNow" /\ Running(x)
  BY DEF DBNow, Running
<1>2. /\ Moves(r) /\ y \in ReaderRec /\ y.pc = "prefix" /\ y.at = now
      /\ y.kind = x.kind /\ y.good = x.good /\ y.bad = x.bad /\ y.floor = x.floor
      /\ y.cache = x.cache
  BY DBNowFields DEF ReaderPcs
<1>3. Sane(x, rows, now) /\ now \in Nat
  BY MoverFacts
<1> HIDE DEF x, y
<1>4. Witnessed(y, rows) /\ Holding(y, rows, now)
  BY <1>1, <1>2, <1>3 DEF Sane, Witnessed, Running, Holding
<1>5. Keeps(x, rows, log) => Keeps(y, rows, log)
  BY <1>1, <1>2 DEF Keeps, Stating, Running
<1> QED
  BY <1>2, <1>4, <1>5, HoldingSane DEF Fits, x, y

\* The clock of a verification from the first row.
LEMMA NowFits ==
  ASSUME VerdictInv, NEW r \in Readers, DBNow(r, "now", "rows")
  PROVE  Moves(r) /\ Fits(r, reader'[r])
<1> DEFINE x == reader[r]
           y == reader'[r]
<1>1. x.pc = "now" /\ Running(x)
  BY DEF DBNow, Running
<1>2. /\ Moves(r) /\ y \in ReaderRec /\ y.pc = "rows" /\ y.at = now
      /\ y.kind = x.kind /\ y.good = x.good /\ y.bad = x.bad /\ y.floor = x.floor
      /\ y.from = x.from /\ y.head = x.head
  BY DBNowFields DEF ReaderPcs
<1>3. Sane(x, rows, now) /\ now \in Nat
  BY MoverFacts
<1>4. y.from = 1 /\ y.head = <<>>
  BY <1>1, <1>2, <1>3 DEF Sane, HeadIsThere
<1> HIDE DEF x, y
<1>5. Verifying(y) /\ Verified(y) = 0
  BY <1>2, <1>4 DEF Verifying, Verified
<1>6. Witnessed(y, rows)
  BY <1>1, <1>2, <1>3 DEF Sane, Witnessed, Running
<1>7. Established(y, rows, now)
  <2>1. 1 .. 0 = {}
    OBVIOUS
  <2> QED
    BY <1>2, <1>3, <1>5, <2>1 DEF Established, Certified, Solid
<1>8. HeadIsThere(y) /\ HeadHolds(y, rows) /\ Restated(y, rows) /\ Holding(y, rows, now)
  BY <1>2, <1>4, <1>5 DEF HeadIsThere, HeadHolds, Restated, Holding
<1>9. \A m \in Readers : Meets(y, reader[m])
  BY <1>5 DEF Meets
<1>10. Keeps(x, rows, log) => Keeps(y, rows, log)
  BY <1>1, <1>2 DEF Keeps, Stating, Running
<1> QED
  BY <1>2, <1>5, <1>6, <1>7, <1>8, <1>9, <1>10, VerifyingSane DEF Fits, x, y

\* The prefix of the cache row is as it was: all there, and not written since.
LEMMA PrefixCountsFits ==
  ASSUME VerdictInv, NEW r \in Readers, PrefixCounts(r)
  PROVE  Moves(r) /\ Fits(r, reader'[r])
<1> DEFINE x == reader[r]
           k == x.cache.seq
           prefix == {s \in Present(rows) : s <= k}
<1>1. x.pc = "prefix" /\ Running(x)
  BY DEF PrefixCounts, Running
<1>2. x \in ReaderRec /\ Sane(x, rows, now) /\ reader \in [Readers -> ReaderRec] /\ RowTypes
  BY MoverFacts
<1>3. /\ x.cache \in CacheRow /\ k >= 1 /\ x.cache.head # <<>> /\ x.cache.at <= now
      /\ Certified(rows, k, x.cache.at) /\ x.at <= now
  BY <1>1, <1>2 DEF Sane, Holding
<1>4. k \in 0 .. MaxSeq /\ x.cache.at \in Nat
  BY <1>3 DEF CacheRow
<1>5. CASE Enter(r, "now")
  <2>1. Keeps(x, rows, log) /\ x.kind = "verify" => 1 .. x.floor \subseteq Present(rows)
    BY <1>1 DEF Keeps
  <2> QED
    BY <1>1, <1>5, <2>1, EnterFits
<1>6. CASE /\ Cardinality(prefix) = k
           /\ \A s \in prefix : ~ChangedSince(s, x.cache.at)
           /\ reader' = [reader EXCEPT ![r].pc = "prefixHead"]
  <2>1. prefix = 1 .. k
    <3>1. prefix \in SUBSET (1 .. k) /\ k \in Nat
      BY <1>4, EvidenceAssumption DEF Present, Seqs
    <3>2. Cardinality(prefix) = k
      BY <1>6
    <3> HIDE DEF prefix, k
    <3> QED
      BY <3>1, <3>2, CountFillsPrefix
  <2>2. \A p \in 1 .. k : p \in Seqs /\ rows[p] # NoRow /\ rows[p].upd < x.cache.at
    <3> SUFFICES ASSUME NEW p \in prefix
                 PROVE  p \in Seqs /\ rows[p] # NoRow /\ rows[p].upd < x.cache.at
      BY <2>1
    <3>1. p \in Seqs /\ rows[p] # NoRow
      BY DEF Present
    <3>2. rows[p].upd \in Nat
      BY <1>2, <3>1, RowFields
    <3>3. ~(rows[p].upd >= x.cache.at)
      BY <1>6 DEF ChangedSince
    <3> QED
      BY <1>4, <3>1, <3>2, <3>3
  <2>3. 1 .. k \subseteq Good(rows)
    BY <1>3, <2>2 DEF Certified
  <2> DEFINE y == [x EXCEPT !.pc = "prefixHead"]
  <2>4. /\ y \in ReaderRec /\ y.pc = "prefixHead" /\ y.at = x.at /\ y.cache = x.cache
        /\ y.kind = x.kind /\ y.good = x.good /\ y.bad = x.bad /\ y.floor = x.floor
    BY <1>2 DEF ReaderRec, ReaderPcs
  <2>5. Moves(r) /\ reader'[r] = y
    BY <1>2, <1>6 DEF Moves
  <2> HIDE DEF y
  <2>6. Verifying(y) /\ Verified(y) = k
    BY <2>4 DEF Verifying, Verified
  <2>7. Good(rows) \subseteq y.good /\ Witnessed(y, rows)
    BY <1>1, <1>2, <2>4 DEF Sane, Witnessed, Running
  <2>8. Established(y, rows, now)
    BY <1>3, <2>2, <2>3, <2>4, <2>6, <2>7 DEF Established, Certified, Solid
  <2>9. HeadIsThere(y) /\ HeadHolds(y, rows) /\ Restated(y, rows) /\ Holding(y, rows, now)
    BY <1>3, <2>4 DEF HeadIsThere, HeadHolds, Restated, Holding
  <2>10. ASSUME NEW m \in Readers PROVE Meets(y, reader[m])
    <3>1. Stating(reader[m]) => Good(rows) \subseteq reader[m].good
      BY DEF VerdictInv, Sane, Witnessed, Stating, Running
    <3> QED
      BY <2>3, <2>6, <3>1 DEF Meets
  <2>11. Keeps(x, rows, log) => Keeps(y, rows, log)
    BY <1>1, <2>4 DEF Keeps, Stating, Running
  <2> QED
    BY <2>4, <2>5, <2>6, <2>7, <2>8, <2>9, <2>10, <2>11, VerifyingSane DEF Fits
<1> QED
  BY <1>5, <1>6 DEF PrefixCounts

\* The prefix ends in the head of the cache row: only the rest is verified.
LEMMA PrefixHeadFits ==
  ASSUME VerdictInv, NEW r \in Readers, PrefixHead(r)
  PROVE  Moves(r) /\ Fits(r, reader'[r])
<1> DEFINE x == reader[r]
           c == x.cache
           k == c.seq
<1>1. x.pc = "prefixHead" /\ Running(x) /\ Verifying(x) /\ Verified(x) = k
  BY DEF PrefixHead, Running, Verifying, Verified
<1>2. x \in ReaderRec /\ Sane(x, rows, now) /\ reader \in [Readers -> ReaderRec]
  BY MoverFacts
<1>3. c \in CacheRow /\ k >= 1 /\ c.head # <<>>
  BY <1>1, <1>2 DEF Sane, Holding
<1>4. k \in 0 .. MaxSeq /\ c.head \in Hashes
  BY <1>3 DEF CacheRow
<1>5. CASE Enter(r, "now")
  <2>1. Keeps(x, rows, log) /\ x.kind = "verify" => 1 .. x.floor \subseteq Present(rows)
    BY <1>1 DEF Keeps
  <2> QED
    BY <1>1, <1>5, <2>1, EnterFits
<1>6. CASE /\ rows[k] # NoRow /\ rows[k].hash = c.head
           /\ reader' = [reader EXCEPT ![r].pc = "rows", ![r].from = k + 1, ![r].head = c.head,
                                       ![r].cache = NoCache]
  <2> DEFINE f == k + 1
             h == c.head
             y == [[[[x EXCEPT !.pc = "rows"] EXCEPT !.from = f] EXCEPT !.head = h]
                      EXCEPT !.cache = NoCache]
  <2>1. f \in 1 .. MaxSeq + 1 /\ h \in Hashes
    BY <1>4, EvidenceAssumption
  <2>2. reader' = [reader EXCEPT ![r].pc = "rows", ![r].from = f, ![r].head = h,
                                 ![r].cache = NoCache]
    BY <1>6
  <2> HIDE DEF f, h
  <2>3. /\ y \in ReaderRec /\ y.pc = "rows" /\ y.at = x.at /\ y.from = f /\ y.head = h
        /\ y.kind = x.kind /\ y.good = x.good /\ y.bad = x.bad /\ y.floor = x.floor
    BY <1>2, <2>1 DEF ReaderRec, ReaderPcs
  <2>4. Moves(r) /\ reader'[r] = y
    BY <1>2, <2>2 DEF Moves
  <2> HIDE DEF y
  <2>5. y.from - 1 = k /\ y.from > 1 /\ y.head = c.head /\ k \in Nat
    BY <1>3, <1>4, <2>3, EvidenceAssumption DEF f, h
  <2>6. Verifying(y) /\ Verified(y) = k
    BY <2>3, <2>5 DEF Verifying, Verified
  <2>7. Witnessed(y, rows)
    BY <1>1, <1>2, <2>3 DEF Sane, Witnessed, Running
  <2>8. Established(y, rows, now)
    BY <1>1, <1>2, <2>3, <2>6 DEF Sane, Established
  <2>9. HeadIsThere(y) /\ HeadHolds(y, rows) /\ Restated(y, rows) /\ Holding(y, rows, now)
    BY <1>3, <1>6, <2>3, <2>5 DEF HeadIsThere, HeadHolds, Restated, Holding
  <2>10. ASSUME NEW m \in Readers PROVE Meets(y, reader[m])
    <3>1. Meets(x, reader[m])
      BY DEF VerdictInv
    <3> QED
      BY <1>1, <2>3, <2>6, <3>1 DEF Meets
  <2>11. Keeps(x, rows, log) => Keeps(y, rows, log)
    BY <1>1, <2>3 DEF Keeps, Stating, Running
  <2> QED
    BY <2>3, <2>4, <2>6, <2>7, <2>8, <2>9, <2>10, <2>11, VerifyingSane DEF Fits
<1> QED
  BY <1>5, <1>6 DEF PrefixHead

\* Rows above the first one read are judged as in a verification of all rows.
LEMMA LinkedAbove ==
  ASSUME NEW t, NEW from \in Nat, NEW head, NEW s \in Seqs, s > from, from >= 1
  PROVE  Linked(t, s, from, head) <=> Linked(t, s, 1, <<>>)
<1>1. s # from /\ s # 1
  BY DEF Seqs
<1> QED
  BY <1>1 DEF Linked

\* What a verification knows of its first row: if it links to the head it is
\* good, and if it does not, the call has seen it not good.
LEMMA FirstRow ==
  ASSUME RowTypes, NEW x \in ReaderRec, x.pc = "rows", Witnessed(x, rows), HeadIsThere(x),
         HeadHolds(x, rows), x.from \in Seqs, rows[x.from] # NoRow
  PROVE  /\ Linked(rows, x.from, x.from, x.head) => x.from \in Good(rows)
         /\ ~Linked(rows, x.from, x.from, x.head) => x.from \in x.bad
<1> DEFINE f == x.from
<1>1. f \notin Good(rows) => f \in x.bad
  BY DEF Witnessed, Running
<1>2. f = 1 \/ (f > 1 /\ f <= MaxSeq /\ f # 1 /\ f - 1 \in Seqs /\ f - 1 >= 1)
  BY EvidenceAssumption DEF Seqs
<1>3. CASE f = 1
  BY <1>1, <1>3, GoodRow DEF HeadIsThere
<1>4. CASE rows[f - 1] # NoRow /\ rows[f - 1].hash = x.head /\ f # 1
  <2>1. Linked(rows, f, f, x.head) <=> Linked(rows, f, 1, <<>>)
    BY <1>4 DEF Linked
  <2> QED
    BY <1>1, <2>1, GoodRow
<1>5. CASE /\ f > 1 /\ f <= MaxSeq /\ f # 1 /\ f - 1 \in Seqs /\ f - 1 >= 1 /\ f \in x.bad
           /\ rows[f] # NoRow /\ rows[f].hash # <<>> =>
                /\ rows[f - 1] # NoRow /\ rows[f - 1].hash # <<>>
                /\ rows[f - 1].hash = rows[f].prev
  <2> SUFFICES ASSUME Linked(rows, f, f, x.head) PROVE f \in Good(rows)
    BY <1>5
  <2>1. rows[f].prev = x.head /\ rows[f].hash = EvidenceHash(x.head, f, rows[f].body)
    BY DEF Linked
  <2>2. x.head \in Hashes /\ rows[f].body \in Bodies
    BY RowFields DEF ReaderRec
  <2>3. rows[f].hash # <<>>
    BY <2>1, <2>2, HashIsThere
  <2>4. rows[f - 1] # NoRow /\ rows[f - 1].hash = x.head
    BY <1>5, <2>1, <2>3
  <2> QED
    BY <1>4, <1>5, <2>4
<1> QED
  BY <1>2, <1>3, <1>4, <1>5 DEF HeadHolds

\* A verification without a break finds its rows contiguous and good.
LEMMA NoBreakMeansGood ==
  ASSUME RowTypes, NEW x \in ReaderRec, x.pc = "rows", Witnessed(x, rows), HeadIsThere(x),
         HeadHolds(x, rows), Breaks(rows, x.from, x.head) = {}
  PROVE  LET last == Max(Present(rows) \cup {x.from - 1})
         IN  /\ last \in 0 .. MaxSeq /\ last >= x.from - 1
             /\ \A p \in Present(rows) : p <= last
             /\ last >= x.from => last = MaxSeqOf(rows) /\ last \in Present(rows)
             /\ MaxSeqOf(rows) >= x.from => last >= x.from
             /\ \A p \in x.from .. last : p \in Good(rows)
<1> DEFINE f == x.from
           P == Present(rows)
           L == P \cup {f - 1}
           M == P \cup {0}
           last == Max(L)
<1>1. f \in 1 .. MaxSeq + 1 /\ f \in Nat
  BY EvidenceAssumption DEF ReaderRec
<1>2. P \in SUBSET Seqs
  BY DEF Present
<1>3. /\ L \in SUBSET Nat /\ L # {} /\ \A s \in L : s <= MaxSeq
      /\ M \in SUBSET Nat /\ M # {} /\ \A s \in M : s <= MaxSeq
  BY <1>1, <1>2, EvidenceAssumption DEF Seqs
<1>4. /\ Max(L) \in L /\ \A s \in L : s <= Max(L)
      /\ Max(M) \in M /\ \A s \in M : s <= Max(M)
  <2> HIDE DEF L, M
  <2> QED
    BY <1>3, MaxIsGreatest, EvidenceAssumption
<1>5. last \in 0 .. MaxSeq /\ last \in Nat /\ last >= f - 1 /\ \A p \in P : p <= last
  <2>1. last \in Nat /\ last <= MaxSeq /\ f - 1 <= last /\ \A p \in P : p <= last
    BY <1>3, <1>4
  <2>2. MaxSeq \in Nat
    BY EvidenceAssumption
  <2> HIDE DEF last, P
  <2> QED
    BY <1>1, <2>1, <2>2
<1>6. last >= f => last \in P
  BY <1>1, <1>4
<1>7. (last >= f => last = Max(M)) /\ (Max(M) >= f => last >= f)
  <2>1. Max(M) \in Nat
    BY <1>3, <1>4
  <2>2. last >= f => last <= Max(M)
    BY <1>4, <1>6
  <2>3. Max(M) # 0 => Max(M) <= last
    BY <1>4, <1>5
  <2> HIDE DEF last, M
  <2> QED
    BY <1>1, <1>5, <2>1, <2>2, <2>3
<1>8. ASSUME NEW s \in P, s >= f PROVE Linked(rows, s, f, x.head)
  BY <1>8 DEF Breaks
<1> HIDE DEF last
<1>9. \A p \in f .. last : p \in P
  <2> DEFINE N == {p \in f .. last : p \notin P}
  <2> SUFFICES ASSUME N # {} PROVE FALSE
    OBVIOUS
  <2>1. N \in SUBSET Nat /\ \A p \in N : p <= last
    BY <1>1, <1>5
  <2>2. Max(N) \in N /\ \A p \in N : p <= Max(N)
    <3> HIDE DEF N
    <3> QED
      BY <1>5, <2>1, MaxIsGreatest
  <2> DEFINE q == Max(N)
  <2> HIDE DEF q
  <2>3. q \in f .. last /\ q \notin P /\ q \in Nat
    BY <1>1, <2>2 DEF q
  <2>4. q # last
    BY <1>1, <1>5, <1>6, <2>3
  <2>5. q + 1 \in f .. last /\ ~(q + 1 <= q)
    BY <1>1, <1>5, <2>3, <2>4
  <2>6. q + 1 \in P
    BY <2>2, <2>5 DEF q
  <2>7. Linked(rows, q + 1, f, x.head) /\ q + 1 # f /\ (q + 1) - 1 = q
    BY <1>1, <1>5, <1>8, <2>3, <2>5, <2>6
  <2>8. rows[q] # NoRow
    BY <2>7 DEF Linked
  <2>9. q \in Seqs
    BY <1>1, <1>5, <2>3, EvidenceAssumption DEF Seqs
  <2> QED
    BY <2>3, <2>8, <2>9 DEF Present
<1>10. ASSUME NEW p \in f .. last PROVE p \in Good(rows)
  <2>1. p \in P /\ p \in Seqs /\ p >= f /\ rows[p] # NoRow
    BY <1>1, <1>2, <1>5, <1>9 DEF Present
  <2>2. Linked(rows, p, f, x.head)
    BY <1>8, <2>1
  <2>3. CASE p = f
    BY <2>1, <2>2, <2>3, FirstRow
  <2>4. CASE p # f
    <3>1. p > f /\ f >= 1
      BY <1>1, <2>1, <2>4 DEF Seqs
    <3>2. Linked(rows, p, 1, <<>>)
      BY <1>1, <2>1, <2>2, <3>1, LinkedAbove
    <3> QED
      BY <2>1, <3>2, GoodRow
  <2> QED
    BY <2>3, <2>4
<1> QED
  BY <1>5, <1>6, <1>7, <1>10 DEF last, MaxSeqOf

\* One consistent read of the rows: the verdict "broken", or a certificate.
LEMMA VerifyRowsFits ==
  ASSUME VerdictInv, NEW r \in Readers, VerifyRows(r)
  PROVE  Moves(r) /\ Fits(r, reader'[r])
<1> DEFINE x == reader[r]
           f == x.from
           breaks == Breaks(rows, f, x.head)
<1>1. x.pc = "rows" /\ Running(x) /\ Verifying(x) /\ Verified(x) = f - 1
  BY DEF VerifyRows, Running, Verifying, Verified
<1>2. x \in ReaderRec /\ Sane(x, rows, now) /\ reader \in [Readers -> ReaderRec] /\ RowTypes
  BY MoverFacts
<1>3. /\ Witnessed(x, rows) /\ HeadIsThere(x) /\ HeadHolds(x, rows) /\ x.at <= now
      /\ 1 .. f - 1 \subseteq x.good /\ Certified(rows, f - 1, x.at) /\ Solid(rows, f - 1, x.at)
  BY <1>1, <1>2 DEF Sane, Established
<1>4. /\ f \in 1 .. MaxSeq + 1 /\ f \in Nat /\ x.floor \in Nat /\ x.at \in Nat
      /\ Good(rows) \subseteq x.good /\ Seqs \ Good(rows) \subseteq x.bad
  BY <1>1, <1>2, <1>3, EvidenceAssumption DEF ReaderRec, Witnessed
<1>5. CASE breaks # {} /\ Answer(r, "broken", Min(breaks), 0)
  <2> DEFINE b == Min(breaks)
  <2>1. breaks \in SUBSET Nat /\ breaks \in SUBSET Seqs
    BY DEF Breaks, Present, Seqs
  <2>2. b \in breaks
    <3> HIDE DEF breaks
    <3> QED
      BY <1>5, <2>1, MinIsLeast
  <2> HIDE DEF b
  <2>3. b \in Seqs /\ b \in Nat /\ rows[b] # NoRow /\ b >= f /\ ~Linked(rows, b, f, x.head)
    BY <2>1, <2>2 DEF Breaks, Present
  <2>4. b \in x.bad
    <3>1. CASE b = f
      BY <1>1, <1>2, <1>3, <2>3, <3>1, FirstRow
    <3>2. CASE b # f
      <4>1. b > f /\ f >= 1
        BY <1>4, <2>3, <3>2
      <4>2. ~Linked(rows, b, 1, <<>>)
        BY <1>4, <2>3, <4>1, LinkedAbove
      <4> QED
        BY <1>4, <2>3, <4>2, GoodRow
    <3> QED
      BY <3>1, <3>2
  <2>5. "broken" \in Verdicts /\ 0 \in 0 .. MaxSeq /\ "broken" # "ok"
    BY EvidenceAssumption DEF Verdicts
  <2>6. Answer(r, "broken", b, 0)
    BY <1>5 DEF b
  <2> QED
    BY <2>3, <2>4, <2>5, <2>6, AnswerFits
<1>6. CASE /\ breaks = {}
           /\ reader' = [reader EXCEPT
                ![r].pc = "restat",
                ![r].last = Max(Present(rows) \cup {f - 1}),
                ![r].head = IF MaxSeqOf(rows) >= f THEN TipOf(rows) ELSE @]
  <2> DEFINE last == Max(Present(rows) \cup {f - 1})
             head == IF MaxSeqOf(rows) >= f THEN TipOf(rows) ELSE x.head
             y == [[[x EXCEPT !.pc = "restat"] EXCEPT !.last = last] EXCEPT !.head = head]
  <2>1. /\ last \in 0 .. MaxSeq /\ last >= f - 1
        /\ \A p \in Present(rows) : p <= last
        /\ last >= f => last = MaxSeqOf(rows) /\ last \in Present(rows)
        /\ MaxSeqOf(rows) >= f => last >= f
        /\ \A p \in f .. last : p \in Good(rows)
    BY <1>1, <1>2, <1>3, <1>6, NoBreakMeansGood
  <2>2. reader' = [reader EXCEPT ![r].pc = "restat", ![r].last = last, ![r].head = head]
    BY <1>2, <1>6
  <2> HIDE DEF last
  <2>3. last \in Nat
    BY <2>1, EvidenceAssumption
  <2>4. head \in Hashes /\ (last >= 1 => head # <<>>)
    <3>1. CASE MaxSeqOf(rows) >= f
      <4>1. last = MaxSeqOf(rows) /\ last >= f /\ last # 0
        BY <1>4, <2>1, <2>3, <3>1
      <4>2. last \in Good(rows)
        BY <1>4, <2>1, <2>3, <4>1
      <4>3. last \in Seqs /\ rows[last] \in Row /\ rows[last].hash # <<>>
        BY <1>2, <4>2, GoodIsHashed DEF RowTypes
      <4>4. rows[last].hash \in Hashes
        BY <4>3 DEF Row
      <4>5. head = rows[last].hash
        BY <3>1, <4>1 DEF TipOf
      <4> QED
        BY <4>3, <4>4, <4>5
    <3>2. CASE ~(MaxSeqOf(rows) >= f)
      <4>1. head = x.head /\ head \in Hashes
        BY <1>2, <3>2 DEF ReaderRec
      <4>2. ~(last >= f)
        BY <2>1, <3>2
      <4>3. last = f - 1
        BY <1>4, <2>1, <2>3, <4>2
      <4> QED
        BY <1>1, <1>3, <4>1, <4>3 DEF HeadIsThere
    <3> QED
      BY <3>1, <3>2
  <2> HIDE DEF head
  <2>5. /\ y \in ReaderRec /\ y.pc = "restat" /\ y.at = x.at /\ y.last = last /\ y.head = head
        /\ y.kind = x.kind /\ y.good = x.good /\ y.bad = x.bad /\ y.floor = x.floor
    BY <1>2, <2>1, <2>4 DEF ReaderRec, ReaderPcs
  <2>6. Moves(r) /\ reader'[r] = y
    BY <1>2, <2>2 DEF Moves
  <2> HIDE DEF y
  <2>7. Verifying(y) /\ Verified(y) = last
    BY <2>5 DEF Verifying, Verified
  <2>8. \A p \in 1 .. last : p \in 1 .. f - 1 \/ p \in f .. last
    BY <1>4, <2>3
  <2>9. Witnessed(y, rows)
    BY <1>4, <2>5 DEF Witnessed
  <2>10. Established(y, rows, now)
    <3>1. 1 .. last \subseteq x.good
      BY <1>3, <1>4, <2>1, <2>8
    <3>2. 1 .. f - 1 \subseteq 1 .. last
      BY <1>4, <2>1, <2>3
    <3>3. Certified(rows, last, x.at)
      BY <1>3, <2>1, <2>8, <3>2 DEF Certified
    <3>4. Solid(rows, last, x.at)
      <4>1. \A p \in f .. last : rows[p] # NoRow
        BY <2>1 DEF Good, Present
      <4> QED
        BY <1>3, <2>8, <4>1 DEF Solid
    <3> QED
      BY <1>3, <2>5, <2>7, <3>1, <3>3, <3>4 DEF Established
  <2>11. HeadIsThere(y) /\ HeadHolds(y, rows) /\ Restated(y, rows) /\ Holding(y, rows, now)
    BY <2>4, <2>5, <2>7 DEF HeadIsThere, HeadHolds, Restated, Holding
  <2>12. ASSUME NEW m \in Readers PROVE Meets(y, reader[m])
    <3> SUFFICES ASSUME Stating(reader[m]), last >= 1, reader[m].max >= last, reader[m].upd < x.at
                 PROVE  1 .. last \subseteq reader[m].good
      BY <2>5, <2>7 DEF Meets
    <3>1. Good(rows) \subseteq reader[m].good
      BY DEF VerdictInv, Sane, Witnessed, Stating, Running
    <3>2. reader[m].max \in Nat
      BY MoverFacts, EvidenceAssumption
    <3>3. f - 1 >= 1 => reader[m].max >= f - 1
      BY <1>4, <2>1, <2>3, <3>2
    <3>4. Meets(x, reader[m])
      BY DEF VerdictInv
    <3>5. f - 1 >= 1 => 1 .. f - 1 \subseteq reader[m].good
      BY <1>1, <3>3, <3>4 DEF Meets
    <3>6. 1 .. f - 1 \subseteq reader[m].good
      BY <1>4, <3>5
    <3> QED
      BY <2>1, <2>8, <3>1, <3>6
  <2>13. Keeps(x, rows, log) => Keeps(y, rows, log)
    <3> SUFFICES ASSUME Keeps(x, rows, log) PROVE Keeps(y, rows, log)
      OBVIOUS
    <3>1. x.kind = "verify" => 1 .. x.floor \subseteq Present(rows)
      BY <1>1 DEF Keeps
    <3>2. x.kind = "verify" => x.floor <= last
      <4>1. x.floor # 0 => x.floor \in 1 .. x.floor
        BY <1>4
      <4>2. 0 <= last
        BY <2>3
      <4> QED
        BY <2>1, <3>1, <4>1, <4>2
    <3> QED
      BY <1>1, <2>5, <3>1, <3>2 DEF Keeps, Stating, Running
  <2> QED
    BY <2>5, <2>6, <2>7, <2>9, <2>10, <2>11, <2>12, <2>13, VerifyingSane DEF Fits
<1> QED
  BY <1>5, <1>6 DEF VerifyRows

\* The statistics that go with the certificate.
LEMMA RestatFits ==
  ASSUME VerdictInv, NEW r \in Readers, Stats(r, "restat", "retip")
  PROVE  Moves(r) /\ Fits(r, reader'[r])
<1> DEFINE x == reader[r]
           y == reader'[r]
<1>1. x.pc = "restat" /\ Running(x) /\ Verifying(x) /\ Verified(x) = x.last
  BY DEF Stats, Running, Verifying, Verified
<1>2. /\ Moves(r) /\ y \in ReaderRec /\ y.pc = "retip"
      /\ y.count = Cardinality(Present(rows)) /\ y.max = MaxSeqOf(rows)
      /\ y.kind = x.kind /\ y.good = x.good /\ y.bad = x.bad /\ y.floor = x.floor
      /\ y.at = x.at /\ y.last = x.last /\ y.head = x.head
  BY StatsFields DEF ReaderPcs
<1>3. Sane(x, rows, now) /\ RowTypes /\ x.last \in 0 .. MaxSeq
  BY MoverFacts
<1>4. \A m \in Readers : Meets(x, reader[m])
  BY DEF VerdictInv
<1> HIDE DEF x, y
<1>5. Verifying(y) /\ Verified(y) = x.last
  BY <1>2 DEF Verifying, Verified
<1>6. Witnessed(y, rows) /\ Established(y, rows, now)
  BY <1>1, <1>2, <1>3, <1>5 DEF Sane, Witnessed, Running, Established
<1>7. HeadIsThere(y) /\ HeadHolds(y, rows) /\ Holding(y, rows, now)
  BY <1>1, <1>2, <1>3, <1>5 DEF Sane, HeadIsThere, HeadHolds, Holding
<1>8. Restated(y, rows)
  <2> DEFINE k == x.last
  <2> SUFFICES ASSUME y.max = k, k >= 1, y.count # k PROVE Stale(rows, k, x.at)
    BY <1>2 DEF Restated
  <2>1. k \in Seqs /\ MaxSeqOf(rows) = k /\ k # 0
    BY <1>2, <1>3 DEF Seqs
  <2>2. rows[k] # NoRow /\ Present(rows) # 1 .. k /\ Present(rows) \in SUBSET (1 .. k)
    BY <1>2, <2>1, Aggregate DEF VerdictInv
  <2>3. Solid(rows, k, x.at)
    BY <1>1, <1>3 DEF Sane, Established
  <2>4. ~\A p \in 1 .. k : rows[p] # NoRow
    <3>1. \A p \in 1 .. k : p \in Seqs
      BY <1>3, EvidenceAssumption DEF Seqs
    <3> QED
      BY <2>2, <3>1 DEF Present
  <2> QED
    BY <2>1, <2>2, <2>3, <2>4 DEF Solid, Stale
<1>9. ASSUME NEW m \in Readers PROVE Meets(y, reader[m])
  <2>1. Meets(x, reader[m])
    BY <1>4
  <2> QED
    BY <1>1, <1>2, <1>5, <2>1 DEF Meets
<1>10. Keeps(x, rows, log) => Keeps(y, rows, log)
  BY <1>1, <1>2 DEF Keeps, Stating, Running
<1> QED
  BY <1>2, <1>5, <1>6, <1>7, <1>8, <1>9, <1>10, VerifyingSane DEF Fits, x, y

\* Their tip.
LEMMA RetipFits ==
  ASSUME VerdictInv, NEW r \in Readers, ReadTip(r, "retip", "store")
  PROVE  Moves(r) /\ Fits(r, reader'[r])
<1> DEFINE x == reader[r]
           y == reader'[r]
<1>1. x.pc = "retip" /\ Running(x) /\ Verifying(x) /\ Verified(x) = x.last
  BY DEF ReadTip, Running, Verifying, Verified
<1>2. /\ Moves(r) /\ y \in ReaderRec /\ y.pc = "store" /\ y.count = x.count /\ y.max = x.max
      /\ y.kind = x.kind /\ y.good = x.good /\ y.bad = x.bad /\ y.floor = x.floor
      /\ y.at = x.at /\ y.last = x.last /\ y.head = x.head
  BY ReadTipFields DEF ReaderPcs
<1>3. Sane(x, rows, now)
  BY MoverFacts
<1>4. \A m \in Readers : Meets(x, reader[m])
  BY DEF VerdictInv
<1> HIDE DEF x, y
<1>5. Verifying(y) /\ Verified(y) = x.last
  BY <1>2 DEF Verifying, Verified
<1>6. Witnessed(y, rows) /\ Established(y, rows, now)
  BY <1>1, <1>2, <1>3, <1>5 DEF Sane, Witnessed, Running, Established
<1>7. HeadIsThere(y) /\ HeadHolds(y, rows) /\ Restated(y, rows) /\ Holding(y, rows, now)
  BY <1>1, <1>2, <1>3, <1>5 DEF Sane, HeadIsThere, HeadHolds, Restated, Holding
<1>8. ASSUME NEW m \in Readers PROVE Meets(y, reader[m])
  <2>1. Meets(x, reader[m])
    BY <1>4
  <2> QED
    BY <1>1, <1>2, <1>5, <2>1 DEF Meets
<1>9. Keeps(x, rows, log) => Keeps(y, rows, log)
  BY <1>1, <1>2 DEF Keeps, Stating, Running
<1> QED
  BY <1>2, <1>5, <1>6, <1>7, <1>8, <1>9, VerifyingSane DEF Fits, x, y

\* The certificate goes into the cache.
LEMMA StoreCacheKeeps ==
  ASSUME VerdictInv, NEW r \in Readers, StoreCache(r)
  PROVE  VerdictInv' /\ Moves(r) /\ Fits(r, reader'[r])
<1> DEFINE x == reader[r]
           c == [seq |-> x.last, count |-> x.count, head |-> x.head, at |-> x.at]
<1>1. x.pc = "store" /\ Running(x) /\ Verifying(x) /\ Verified(x) = x.last
  BY DEF StoreCache, Running, Verifying, Verified
<1>2. x \in ReaderRec /\ Sane(x, rows, now) /\ x.last \in 0 .. MaxSeq
  BY MoverFacts
<1>3. 1 .. x.last \subseteq x.good /\ Certified(rows, x.last, x.at) /\ x.at <= now
  BY <1>1, <1>2 DEF Sane, Established
<1>4. Moves(r) /\ Fits(r, reader'[r])
  <2>1. Answer(r, "ok", 0, x.last)
    BY DEF StoreCache
  <2>2. "ok" \in Verdicts /\ 0 \in Nat /\ "ok" # "broken"
    BY DEF Verdicts
  <2>3. x.kind = "verify" /\ Keeps(x, rows, log) => x.floor <= x.last
    BY <1>1 DEF Keeps
  <2> QED
    BY <1>2, <1>3, <2>1, <2>2, <2>3, AnswerFits
<1>5. reader'[r].pc = "done"
  <2>1. Closed(x, "ok", 0, x.last).pc = "done"
    <3>1. "ok" \in Verdicts /\ 0 \in Nat
      BY DEF Verdicts
    <3> QED
      BY <1>2, <3>1, AnswerFields
  <2>2. reader' = [reader EXCEPT ![r] = Closed(x, "ok", 0, x.last)]
    BY DEF StoreCache, Answer, Closed
  <2> QED
    BY <2>1, <2>2, MoverFacts
<1>6. ReaderOnly
  BY DEF StoreCache
<1>7. CASE cached' = cached
  BY <1>4, <1>6, <1>7, FittingStep
<1>8. CASE x.max = x.last /\ x.tip = x.head /\ cached' = c
  <2>1. c \in CacheRow /\ c.seq = x.last /\ c.count = x.count /\ c.head = x.head /\ c.at = x.at
    BY <1>2 DEF CacheRow, ReaderRec
  <2> HIDE DEF c
  <2>2. CacheSound(c, rows, now)
    <3>1. x.last >= 1 => x.head # <<>>
      BY <1>1, <1>2 DEF Sane, HeadIsThere
    <3>2. x.last >= 1 => x.count = x.last \/ Stale(rows, x.last, x.at)
      BY <1>1, <1>2, <1>8 DEF Sane, Restated
    <3> QED
      BY <1>3, <2>1, <3>1, <3>2 DEF CacheSound
  <2>3. ASSUME NEW m \in Readers PROVE CacheMeets(c, reader'[m])
    <3>1. CASE m = r
      BY <1>5, <3>1 DEF CacheMeets, Stating
    <3>2. CASE m # r
      <4>1. reader'[m] = reader[m] /\ Meets(x, reader[m])
        BY <1>4, <3>2 DEF Moves, VerdictInv
      <4> SUFFICES ASSUME Stating(reader[m]), reader[m].max = x.last, reader[m].upd < x.at
                   PROVE  1 .. x.last \subseteq reader[m].good
        BY <2>1, <4>1 DEF CacheMeets
      <4>2. CASE x.last >= 1
        <5>1. reader[m].max >= x.last
          BY <1>2
        <5> QED
          BY <1>1, <4>1, <4>2, <5>1 DEF Meets
      <4>3. CASE ~(x.last >= 1)
        BY <1>2, <4>3
      <4> QED
        BY <4>2, <4>3
    <3> QED
      BY <3>1, <3>2
  <2>4. rows' = rows /\ now' = now /\ RowTypes'
    BY <1>6 DEF ReaderOnly, VerdictInv, RowTypes
  <2>5. \A m \in Readers : Sane(reader'[m], rows, now)
    BY <1>4 DEF Moves, Fits, VerdictInv
  <2>6. reader' \in [Readers -> ReaderRec]
    BY <1>4, <2>5 DEF Moves, Sane
  <2>7. ASSUME NEW k \in Readers, NEW m \in Readers PROVE Meets(reader'[k], reader'[m])
    <3>1. CASE k = m
      BY <3>1 DEF Meets, Verifying, Stating
    <3>2. CASE k # m
      BY <1>4, <3>2 DEF Moves, Fits, VerdictInv
    <3> QED
      BY <3>1, <3>2
  <2>8. VerdictInv'
    BY <1>8, <2>2, <2>3, <2>4, <2>5, <2>6, <2>7 DEF VerdictInv
  <2> QED
    BY <1>4, <2>8
<1> QED
  BY <1>4, <1>7, <1>8 DEF StoreCache

\* Every step of a reader.
LEMMA ReaderStepKeeps ==
  ASSUME VerdictInv, NEW r \in Readers, ReaderStep(r)
  PROVE  VerdictInv' /\ Moves(r) /\ Fits(r, reader'[r])
<1>1. CASE StoreCache(r)
  BY <1>1, StoreCacheKeeps
<1>2. CASE ~StoreCache(r)
  <2>1. Moves(r) /\ Fits(r, reader'[r])
    BY <1>2, BeginFits, ReaderFailsFits, ReadStreamFits, EventTimelineFits, StatsFits, TipFits,
       LoadCacheFits, PrefixNowFits, NowFits, PrefixCountsFits, PrefixHeadFits, VerifyRowsFits,
       RestatFits, RetipFits DEF ReaderStep
  <2>2. ReaderOnly
    BY ReadersOnlyRead
  <2>3. cached' = cached
    BY <1>2 DEF ReaderStep, HandleEvidence, RunVerify, RunVerifyEvidence, Begin, ReadSnapshot,
       ReadStream, EventTimeline, Stats, ReadTip, LoadCache, DBNow, PrefixCounts, PrefixHead,
       VerifyRows, ReaderFails
  <2> QED
    BY <2>1, <2>2, <2>3, FittingStep
<1> QED
  BY <1>1, <1>2

\* The certificates, the cache and the witnesses are kept by every step.
LEMMA VerdictInvKept ==
  ASSUME VerdictInv, [Next]_vars
  PROVE  VerdictInv'
<1>1. RowTypes /\ RowTypes'
  BY RowTypesKept DEF VerdictInv
<1> QED
  BY <1>1, StepKinds, RowStepKeepsVerdict, ElsewhereKeepsVerdict, ReaderStepKeeps

\* They hold before the first call.
LEMMA VerdictInvInit ==
  ASSUME Init, Removals # "any"
  PROVE  VerdictInv /\ FloorInv
<1>1. RowTypes
  BY ChainInvInit DEF ChainInv
<1>2. (\A s \in Seqs : rows[s] = NoRow) /\ cached = NoCache
  BY DEF Init
<1>3. \A r \in Readers : reader[r] = IdleReader
  BY DEF Init
<1>4. reader \in [Readers -> ReaderRec]
  BY IdleIsReader DEF Init
<1>5. IdleReader.pc = "idle" /\ IdleReader.kind = "none"
  BY DEF IdleReader
<1>6. Sane(IdleReader, rows, now)
  BY <1>5, IdleIsReader DEF Sane, Witnessed, Running, Established, Verifying, HeadIsThere,
     HeadHolds, Restated, Holding, Honest
<1>7. CacheMeets(cached, IdleReader) /\ CacheSound(cached, rows, now)
  BY <1>2 DEF CacheMeets, CacheSound
<1>8. Meets(IdleReader, IdleReader) /\ Keeps(IdleReader, rows, log)
  BY <1>5 DEF Meets, Verifying, Keeps, Running, Stating
<1> QED
  BY <1>1, <1>2, <1>3, <1>4, <1>6, <1>7, <1>8 DEF VerdictInv, FloorInv

\* VerifyEvidenceChain tells the truth: for any number of readers, workers,
\* events, edits and deletions, and whatever the cache holds, each row it vouches
\* for was intact during the call, and the row it blames was not.  Rows may be
\* edited at any time, but removed one by one only while no call runs.
THEOREM VerdictsAreHonest ==
  ASSUME Removals # "any"
  PROVE  Spec => []VerdictIsHonest
<1>1. Init => VerdictInv
  BY VerdictInvInit
<1>2. VerdictInv /\ [Next]_vars => VerdictInv'
  BY VerdictInvKept
<1>3. VerdictInv => VerdictIsHonest
  BY DEF VerdictInv, Sane, Honest, VerdictIsHonest
<1> QED
  BY <1>1, <1>2, <1>3, PTL DEF Spec

-----------------------------------------------------------------------------
(***************************************************************************)
(* A green verify run.                                                     *)
(***************************************************************************)

\* Until DeleteAuction begins, the Stream only grows.
LEMMA LogGrows ==
  ASSUME RowTypes, [Next]_vars, deleter' = "idle"
  PROVE  deleter = "idle" /\ log' \in Nat /\ log \in Nat /\ log <= log'
<1>1. log \in 0 .. MaxSeq /\ log \in Nat
  BY EvidenceAssumption DEF RowTypes
<1>2. CASE Publish
  BY <1>1, <1>2 DEF Publish
<1>3. ASSUME NEW r \in Readers, ReaderStep(r) PROVE deleter' = deleter /\ log' = log
  BY <1>3, ReadersOnlyRead DEF ReaderOnly
<1>4. CASE ~Publish
  <2>1. deleter' = deleter /\ log' = log
    BY <1>3, <1>4 DEF Next, vars, Tick, WorkerStep, Project, InsertEvent, FillEventHash,
       ProjectStatus, Restart, DeleteGate, DeletePurge, DeleteRows, Edit, Remove
  <2> QED
    BY <1>1, <2>1
<1> QED
  BY <1>2, <1>4

\* What a verify run has found projected stays projected.
LEMMA FloorInvKept ==
  ASSUME VerdictInv, FloorInv, [Next]_vars
  PROVE  FloorInv'
<1> SUFFICES ASSUME deleter' = "idle", NEW r \in Readers
             PROVE  Keeps(reader'[r], rows', log')
  BY DEF FloorInv
<1>1. RowTypes /\ reader[r] \in ReaderRec /\ Removals # "any"
  BY DEF VerdictInv
<1>2. log' \in Nat /\ log \in Nat /\ log <= log' /\ Keeps(reader[r], rows, log)
  BY <1>1, LogGrows DEF FloorInv
<1>3. reader[r].floor \in Nat
  BY <1>1 DEF ReaderRec
<1>4. CASE RowStep
  <2> DEFINE x == reader[r]
             y == reader'[r]
  <2>1. /\ y.pc = x.pc /\ y.kind = x.kind /\ y.stream = x.stream /\ y.max = x.max
        /\ y.last = x.last /\ y.verdict = x.verdict /\ y.floor = x.floor
    BY <1>4, RowStepReader
  <2>2. Running(x) => Present(rows) \subseteq Present(rows')
    BY <1>1, <1>4, RunningKeepsRows DEF Present
  <2>3. Running(x) => x.floor <= log'
    BY <1>2, <1>3 DEF Keeps
  <2> HIDE DEF x, y
  <2> QED
    BY <1>2, <2>1, <2>2, <2>3 DEF Keeps, Running, Stating, x, y
<1>5. CASE Elsewhere
  <2>1. reader' = reader /\ rows' = rows
    BY <1>5 DEF Elsewhere
  <2>2. Running(reader[r]) => reader[r].floor <= log'
    BY <1>2, <1>3 DEF Keeps
  <2> QED
    BY <1>2, <2>1, <2>2 DEF Keeps
<1>6. ASSUME NEW k \in Readers, ReaderStep(k) PROVE Keeps(reader'[r], rows', log')
  <2>1. Moves(k) /\ Fits(k, reader'[k]) /\ rows' = rows /\ log' = log
    BY <1>6, ReaderStepKeeps, ReadersOnlyRead DEF ReaderOnly
  <2> QED
    BY <1>2, <2>1 DEF Moves, Fits
<1> QED
  BY <1>1, <1>4, <1>5, <1>6, StepKinds

\* A verify run that prints "consistent" found every event that the Stream held
\* when the run began projected and chained (computeVerifyReport).
THEOREM GreenRunsAreProjected ==
  ASSUME Removals # "any"
  PROVE  Spec => []GreenMeansProjected
<1>1. Init => VerdictInv /\ FloorInv
  BY VerdictInvInit
<1>2. VerdictInv /\ FloorInv /\ [Next]_vars => VerdictInv' /\ FloorInv'
  BY VerdictInvKept, FloorInvKept
<1>3. VerdictInv /\ FloorInv => GreenMeansProjected
  <2> SUFFICES ASSUME VerdictInv, FloorInv, NEW r \in Readers, reader[r].pc = "done",
                      reader[r].verdict = "ok", deleter = "idle"
               PROVE  1 .. reader[r].floor \subseteq reader[r].good
    BY DEF GreenMeansProjected
  <2>1. reader[r].floor \in Nat /\ reader[r].last \in 0 .. MaxSeq
    BY MoverFacts
  <2>2. reader[r].floor <= reader[r].last
    BY DEF FloorInv, Keeps
  <2>3. 1 .. reader[r].last \subseteq reader[r].good
    BY DEF VerdictInv, Sane, Honest
  <2>4. 1 .. reader[r].floor \subseteq 1 .. reader[r].last
    BY <2>1, <2>2, EvidenceAssumption
  <2> QED
    BY <2>3, <2>4
<1> QED
  BY <1>1, <1>2, <1>3, PTL DEF Spec
=============================================================================
