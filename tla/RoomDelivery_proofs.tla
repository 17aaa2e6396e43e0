------------------------- MODULE RoomDelivery_proofs -------------------------
(***************************************************************************)
(* What a client of a room is shown, for any number of clients, any lane   *)
(* capacity, any number of joins, lost sockets and failed reads: the three *)
(* safety properties of RoomDelivery follow from one invariant.            *)
(*                                                                         *)
(* The argument is one of coverage.  Of every event it is known who owes   *)
(* it to the client: it has been applied, is in the priority lane, comes   *)
(* with the snapshot of a join, waits in the broadcast lane or behind the  *)
(* barrier, or has yet to leave the fan-out.                               *)
(***************************************************************************)
EXTENDS RoomDelivery, SequenceTheorems, TLAPS

-----------------------------------------------------------------------------
(***************************************************************************)
(* The invariant.                                                          *)
(***************************************************************************)

FrameRecord == [type : {"event", "patch", "snapshot", "ack"}, from : Nat, to : Nat]

ConnRecord ==
  [pc : {"off", "wait", "init", "splice", "idle", "ack"}, open : BOOLEAN, member : BOOLEAN,
   joining : BOOLEAN, arg : Nat, snap : Nat, served : BOOLEAN, fresh : BOOLEAN,
   seededOver : BOOLEAN]

FlightRecord ==
  [pc : {"none", "asked", "read"}, seq : Nat, who : SUBSET (Clients \cup {Gateway})]

RoomTypes ==
  /\ log \in Seq({"BID", "CAP_BID", "EXTENDED", "SOLD"})
  /\ affinity \in BOOLEAN /\ seeded \in BOOLEAN /\ seeding \in BOOLEAN
  /\ cursor \in Nat /\ cursor <= Len(log)
  /\ out \in Seq(FrameRecord) /\ todo \subseteq Clients /\ sending \in Clients \cup {NoOne}
  /\ patch \in [from : Nat, to : Nat]
  /\ flight \in FlightRecord
  /\ flight.seq <= Len(log)
  /\ conn \in [Clients -> ConnRecord]
  /\ crit \in [Clients -> Seq(FrameRecord)]
  /\ bcast \in [Clients -> Seq(FrameRecord)]
  /\ pend \in [Clients -> Seq(FrameRecord)]
  /\ last \in [Clients -> Nat]
  /\ gap \in [Clients -> BOOLEAN]

\* A frame of events that are in the Stream.
InLog(f) == f.from <= f.to /\ f.to <= Len(log)

Fresh(f) == f.type \in {"event", "patch"} /\ 1 <= f.from /\ f.from <= f.to

\* The fan-out: what it has read, holds back in the patch and broadcasts is one
\* run of events, and nothing of it is there before the cursor is seeded.
Pipeline ==
  /\ patch # NoPatch => 1 <= patch.from /\ patch.from <= patch.to /\ patch.to = cursor
  /\ \/ out = <<>> /\ todo = {} /\ sending = NoOne
     \/ /\ patch = NoPatch /\ Len(out) \in {1, 2} /\ out[Len(out)].to = cursor
        /\ \A i \in 1 .. Len(out) : Fresh(out[i])
        /\ Len(out) = 2 => out[2].from = out[1].to + 1
  /\ affinity /\ ~seeded => cursor = 0 /\ out = <<>> /\ patch = NoPatch
  /\ seeding <=> Gateway \in flight.who
  /\ seeding => affinity /\ ~seeded
  /\ flight.pc = "none" => flight.who = {}

\* The frames on their way to c, in the order in which they will reach it
\* after those of the priority lane.
Queue(c) == bcast[c] \o pend[c]

\* The socket of c and its read loop.
PhaseOK(c) ==
  /\ conn[c].pc = "wait" <=> c \in flight.who
  /\ conn[c].pc \in {"wait", "init"} => conn[c].joining /\ ~conn[c].served
  /\ conn[c].pc \in {"idle", "ack", "off"} => ~conn[c].joining
  /\ conn[c].pc # "off" <=> conn[c].member
  /\ conn[c].pc = "off" => ~conn[c].fresh
  /\ conn[c].arg <= Len(log) /\ conn[c].snap <= Len(log) /\ last[c] <= Len(log)

\* Its lanes.
LanesOK(c) ==
  /\ ~conn[c].open => crit[c] = <<>> /\ bcast[c] = <<>> /\ pend[c] = <<>>
  /\ ~conn[c].joining => pend[c] = <<>>
  /\ \A i \in 1 .. Len(crit[c]) : InLog(crit[c][i]) /\ crit[c][i].type # "patch"
  /\ \A i \in 1 .. Len(bcast[c]) : InLog(bcast[c][i]) /\ Fresh(bcast[c][i])
  /\ \A i \in 1 .. Len(pend[c]) : InLog(pend[c][i]) /\ Fresh(pend[c][i])

\* What a ROOM_JOIN that c waits for will bring it up to.
JoinLevel(c) ==
  IF conn[c].pc = "init" THEN conn[c].snap
  ELSE IF conn[c].pc # "wait" THEN 0
  ELSE IF flight.pc = "read" THEN flight.seq ELSE Len(log)

\* A snapshot that c will be handed is no older than what is shown before it.
SnapshotsAdvance(c) ==
  conn[c].fresh =>
    /\ \A i \in 1 .. Len(crit[c]) : crit[c][i].type = "snapshot" =>
         /\ last[c] <= crit[c][i].to
         /\ \A j \in 1 .. i : crit[c][j].to <= crit[c][i].to
    /\ conn[c].pc \in {"init", "wait"} =>
         /\ last[c] <= JoinLevel(c)
         /\ \A i \in 1 .. Len(crit[c]) : crit[c][i].to <= JoinLevel(c)
         /\ \A i \in 1 .. Len(bcast[c]) : bcast[c][i].to <= JoinLevel(c)

\* A frame of the lane goes up to event e or beyond.
Reaches(lane, e) == \E i \in 1 .. Len(lane) : e <= lane[i].to

\* A client at event k, with the priority lane cr and a join that brings it up
\* to j, is owed nothing up to event e.
Covers(k, cr, j, e) == e <= k \/ e <= j \/ Reaches(cr, e)

\* Nor, with the queue q behind that, does a frame of q jump over an event ...
Unbroken(k, cr, j, q) ==
  \A i \in 1 .. Len(q) :
    \/ Covers(k, cr, j, q[i].from - 1)
    \/ \E h \in 1 .. i - 1 : q[i].from - 1 <= q[h].to

\* ... or will one that follows event e.
Meets(k, cr, j, q, e) == Covers(k, cr, j, e) \/ Reaches(q, e)

\* The events up to here have left the fan-out, as far as c is concerned.
Passed(c) ==
  IF out = <<>>
  THEN IF patch = NoPatch THEN cursor ELSE patch.from - 1
  ELSE IF c \in todo \/ sending = c THEN out[1].from - 1 ELSE out[1].to

\* An open socket whose join is or will be followed up without a hole.
Sane(c) == conn[c].open /\ conn[c].fresh /\ ~conn[c].seededOver

\* No hole in front of a queued frame, and none in front of the next one.
NoHole(c) ==
  Sane(c) =>
    /\ Unbroken(last[c], crit[c], JoinLevel(c), Queue(c))
    /\ Meets(last[c], crit[c], JoinLevel(c), Queue(c), Passed(c))

\* A replay is followed by its snapshot, which heals what it may have skipped.
HealedBySnapshot(c) ==
  /\ \A i \in 1 .. Len(crit[c]) : crit[c][i].type = "event" =>
       \E j \in i + 1 .. Len(crit[c]) : crit[c][j].type = "snapshot"
  /\ conn[c].open /\ gap[c] /\ Sound(c) =>
       \E j \in 1 .. Len(crit[c]) : crit[c][j].type = "snapshot"

ClientOK(c) ==
  PhaseOK(c) /\ LanesOK(c) /\ SnapshotsAdvance(c) /\ NoHole(c) /\ HealedBySnapshot(c)

RoomInv == RoomTypes /\ Pipeline /\ \A c \in Clients : ClientOK(c)

-----------------------------------------------------------------------------
(***************************************************************************)
(* Lanes.                                                                  *)
(***************************************************************************)

Lane == Seq(FrameRecord)

\* What a new frame does to a lane.
LEMMA LaneAppend ==
  ASSUME NEW q \in Lane, NEW f \in FrameRecord
  PROVE  /\ Append(q, f) \in Lane /\ Len(q) \in Nat /\ Len(Append(q, f)) = Len(q) + 1
         /\ \A i \in 1 .. Len(q) : Append(q, f)[i] = q[i]
         /\ Append(q, f)[Len(q) + 1] = f
  BY DEF Lane

\* What the write pump leaves of one.
LEMMA LaneTail ==
  ASSUME NEW q \in Lane, q # <<>>
  PROVE  /\ Len(q) \in Nat \ {0} /\ Head(q) = q[1] /\ Head(q) \in FrameRecord
         /\ Tail(q) \in Lane /\ Len(Tail(q)) = Len(q) - 1
         /\ \A i \in 1 .. Len(q) - 1 : Tail(q)[i] = q[i + 1]
  BY DEF Lane

\* Two lanes in a row.
LEMMA LaneConcat ==
  ASSUME NEW q \in Lane, NEW s \in Lane
  PROVE  /\ q \o s \in Lane /\ Len(q) \in Nat /\ Len(s) \in Nat
         /\ Len(q \o s) = Len(q) + Len(s)
         /\ \A i \in 1 .. Len(q) : (q \o s)[i] = q[i]
         /\ \A i \in 1 .. Len(s) : (q \o s)[Len(q) + i] = s[i]
         /\ \A i \in 1 .. Len(q) + Len(s) :
              i \in 1 .. Len(q) \/ \E h \in 1 .. Len(s) : i = Len(q) + h
<1>1. /\ q \o s \in Lane /\ Len(q) \in Nat /\ Len(s) \in Nat
      /\ Len(q \o s) = Len(q) + Len(s)
  BY DEF Lane
<1>2. /\ \A i \in 1 .. Len(q) : (q \o s)[i] = q[i]
      /\ \A i \in 1 .. Len(s) : (q \o s)[Len(q) + i] = s[i]
  BY DEF Lane
<1>3. ASSUME NEW i \in 1 .. Len(q) + Len(s)
      PROVE  i \in 1 .. Len(q) \/ \E h \in 1 .. Len(s) : i = Len(q) + h
  <2>1. CASE i <= Len(q)
    BY <1>1, <2>1
  <2>2. CASE ~(i <= Len(q))
    <3>1. i - Len(q) \in 1 .. Len(s) /\ i = Len(q) + (i - Len(q))
      BY <1>1, <2>2
    <3> QED
      BY <3>1
  <2> QED
    BY <2>1, <2>2
<1> QED
  BY <1>1, <1>2, <1>3

\* The fields of a frame.
LEMMA FrameFields ==
  ASSUME NEW f \in FrameRecord
  PROVE  f.from \in Nat /\ f.to \in Nat /\ f.from - 1 \in Int
  BY DEF FrameRecord

\* The same of a frame in a lane.
LEMMA LaneFrame ==
  ASSUME NEW q \in Lane, NEW i \in 1 .. Len(q)
  PROVE  q[i] \in FrameRecord /\ q[i].from \in Nat /\ q[i].to \in Nat /\ q[i].from - 1 \in Int
<1>1. q[i] \in FrameRecord
  BY DEF Lane
<1> QED
  BY <1>1, FrameFields

\* A lane that reaches an event still does so when frames come after it ...
LEMMA ReachesAppend ==
  ASSUME NEW q \in Lane, NEW f \in FrameRecord, NEW e \in Int
  PROVE  Reaches(Append(q, f), e) <=> Reaches(q, e) \/ e <= f.to
<1>1. \A i \in 1 .. Len(q) + 1 : i \in 1 .. Len(q) \/ i = Len(q) + 1
  BY LaneAppend
<1>2. \A i \in 1 .. Len(q) : i \in 1 .. Len(q) + 1
  BY LaneAppend
<1>3. Len(q) + 1 \in 1 .. Len(q) + 1
  BY LaneAppend
<1> QED
  BY <1>1, <1>2, <1>3, LaneAppend DEF Reaches

\* ... or before it.
LEMMA ReachesConcat ==
  ASSUME NEW q \in Lane, NEW s \in Lane, NEW e \in Int
  PROVE  Reaches(q \o s, e) <=> Reaches(q, e) \/ Reaches(s, e)
<1>1. \A i \in 1 .. Len(q) : i \in 1 .. Len(q) + Len(s)
  BY LaneConcat
<1>2. \A i \in 1 .. Len(s) : Len(q) + i \in 1 .. Len(q) + Len(s)
  BY LaneConcat
<1>3. ASSUME Reaches(q \o s, e) PROVE Reaches(q, e) \/ Reaches(s, e)
  <2>1. PICK i \in 1 .. Len(q) + Len(s) : e <= (q \o s)[i].to
    BY <1>3, LaneConcat DEF Reaches
  <2>2. CASE i \in 1 .. Len(q)
    BY <2>1, <2>2, LaneConcat DEF Reaches
  <2>3. ASSUME NEW h \in 1 .. Len(s), i = Len(q) + h
        PROVE  Reaches(s, e)
    BY <2>1, <2>3, LaneConcat DEF Reaches
  <2> QED
    BY <2>2, <2>3, LaneConcat
<1>4. ASSUME Reaches(q, e) PROVE Reaches(q \o s, e)
  BY <1>1, <1>4, LaneConcat DEF Reaches
<1>5. ASSUME Reaches(s, e) PROVE Reaches(q \o s, e)
  <2>1. PICK i \in 1 .. Len(s) : e <= s[i].to
    BY <1>5 DEF Reaches
  <2>2. (q \o s)[Len(q) + i] = s[i]
    BY LaneConcat
  <2>3. Len(q) + i \in 1 .. Len(q \o s)
    BY <1>2, LaneConcat
  <2> QED
    BY <2>1, <2>2, <2>3 DEF Reaches
<1> QED
  BY <1>3, <1>4, <1>5

\* The frame that reaches an event is the first one or still there.
LEMMA ReachesTail ==
  ASSUME NEW q \in Lane, q # <<>>, NEW e \in Int
  PROVE  Reaches(q, e) <=> e <= Head(q).to \/ Reaches(Tail(q), e)
<1>1. \A i \in 1 .. Len(q) : i = 1 \/ (i - 1 \in 1 .. Len(q) - 1 /\ i = (i - 1) + 1)
  BY LaneTail
<1>2. \A i \in 1 .. Len(q) - 1 : i + 1 \in 1 .. Len(q)
  BY LaneTail
<1>3. 1 \in 1 .. Len(q)
  BY LaneTail
<1>4. ASSUME Reaches(q, e) PROVE e <= Head(q).to \/ Reaches(Tail(q), e)
  <2>1. PICK i \in 1 .. Len(q) : e <= q[i].to
    BY <1>4 DEF Reaches
  <2>2. CASE i = 1
    BY <2>1, <2>2, LaneTail
  <2>3. CASE i - 1 \in 1 .. Len(q) - 1 /\ i = (i - 1) + 1
    <3>1. Tail(q)[i - 1] = q[i]
      BY <2>3, LaneTail
    <3>2. i - 1 \in 1 .. Len(Tail(q))
      BY <2>3, LaneTail
    <3> QED
      BY <2>1, <3>1, <3>2 DEF Reaches
  <2>4. i = 1 \/ (i - 1 \in 1 .. Len(q) - 1 /\ i = (i - 1) + 1)
    BY <1>1
  <2> QED
    BY <2>2, <2>3, <2>4
<1>5. ASSUME Reaches(Tail(q), e) PROVE Reaches(q, e)
  BY <1>2, <1>5, LaneTail DEF Reaches
<1> QED
  BY <1>3, <1>4, <1>5, LaneTail DEF Reaches

\* A client that is owed nothing up to an event is owed nothing up to an
\* earlier one.
LEMMA CoversLess ==
  ASSUME NEW k \in Int, NEW cr \in Lane, NEW j \in Int, NEW e \in Int, Covers(k, cr, j, e),
         NEW d \in Int, d <= e
  PROVE  Covers(k, cr, j, d)
<1>1. \A i \in 1 .. Len(cr) : cr[i].to \in Int
  BY LaneFrame
<1>2. CASE e <= k \/ e <= j
  BY <1>2 DEF Covers
<1>3. CASE Reaches(cr, e)
  BY <1>1, <1>3 DEF Covers, Reaches
<1> QED
  BY <1>2, <1>3 DEF Covers

\* What a client is covered by may grow.
LEMMA CoverageGrows ==
  ASSUME NEW k, NEW cr, NEW j, NEW k2, NEW cr2, NEW j2,
         \A e \in Int : Covers(k, cr, j, e) => Covers(k2, cr2, j2, e),
         NEW q \in Lane
  PROVE  /\ Unbroken(k, cr, j, q) => Unbroken(k2, cr2, j2, q)
         /\ \A e \in Int : Meets(k, cr, j, q, e) => Meets(k2, cr2, j2, q, e)
<1>1. \A i \in 1 .. Len(q) : q[i].from - 1 \in Int
  BY LaneFrame
<1> QED
  BY <1>1 DEF Unbroken, Meets

\* A frame that follows what the queue meets goes to its end.
LEMMA QueueGrows ==
  ASSUME NEW k \in Int, NEW cr \in Lane, NEW j \in Int, NEW q \in Lane, NEW f \in FrameRecord,
         Unbroken(k, cr, j, q), Meets(k, cr, j, q, f.from - 1)
  PROVE  Unbroken(k, cr, j, Append(q, f)) /\ Meets(k, cr, j, Append(q, f), f.to)
<1>0. Len(q) \in Nat /\ f.to \in Int
  BY LaneAppend, FrameFields
<1>1. \A i \in 1 .. Len(q) + 1 : i \in 1 .. Len(q) \/ i = Len(q) + 1
  BY <1>0
<1>2. ASSUME NEW i \in 1 .. Len(q)
      PROVE  \/ Covers(k, cr, j, Append(q, f)[i].from - 1)
             \/ \E h \in 1 .. i - 1 : Append(q, f)[i].from - 1 <= Append(q, f)[h].to
  <2>1. \A h \in 1 .. i - 1 : h \in 1 .. Len(q)
    BY <1>0
  <2> QED
    BY <2>1, LaneAppend DEF Unbroken
<1>3. \/ Covers(k, cr, j, f.from - 1)
      \/ \E h \in 1 .. Len(q) + 1 - 1 : f.from - 1 <= Append(q, f)[h].to
  <2>1. 1 .. Len(q) + 1 - 1 = 1 .. Len(q)
    BY <1>0
  <2> QED
    BY <2>1, LaneAppend DEF Meets, Reaches
<1>4. Unbroken(k, cr, j, Append(q, f))
  BY <1>1, <1>2, <1>3, LaneAppend DEF Unbroken
<1>5. Meets(k, cr, j, Append(q, f), f.to)
  BY <1>0, ReachesAppend DEF Meets
<1> QED
  BY <1>4, <1>5

\* The first frame of the queue is applied.
LEMMA QueueShrinks ==
  ASSUME NEW k \in Int, NEW cr \in Lane, NEW j \in Int, NEW q \in Lane, q # <<>>,
         Unbroken(k, cr, j, q), NEW k2 \in Int, k <= k2, Head(q).to <= k2
  PROVE  /\ Unbroken(k2, cr, j, Tail(q))
         /\ \A e \in Int : Meets(k, cr, j, q, e) => Meets(k2, cr, j, Tail(q), e)
<1>0. /\ Len(q) \in Nat \ {0} /\ Tail(q) \in Lane /\ Len(Tail(q)) = Len(q) - 1
      /\ \A i \in 1 .. Len(q) - 1 : Tail(q)[i] = q[i + 1]
      /\ Head(q) = q[1] /\ Head(q).to \in Int
  BY LaneTail, FrameFields
<1>1. ASSUME NEW e \in Int
      PROVE  /\ Covers(k, cr, j, e) => Covers(k2, cr, j, e)
             /\ e <= Head(q).to => Covers(k2, cr, j, e)
  BY <1>0 DEF Covers
<1>2. ASSUME NEW i \in 1 .. Len(Tail(q))
      PROVE  \/ Covers(k2, cr, j, Tail(q)[i].from - 1)
             \/ \E h \in 1 .. i - 1 : Tail(q)[i].from - 1 <= Tail(q)[h].to
  <2> DEFINE e == q[i + 1].from - 1
  <2>1. i + 1 \in 1 .. Len(q) /\ i \in 1 .. Len(q) - 1 /\ i \in Nat
    BY <1>0
  <2>2. e \in Int /\ Tail(q)[i].from - 1 = e
    BY <1>0, <2>1, LaneFrame
  <2>3. Covers(k, cr, j, e) \/ \E h \in 1 .. i + 1 - 1 : e <= q[h].to
    BY <2>1 DEF Unbroken
  <2> HIDE DEF e
  <2>4. ASSUME NEW h \in 1 .. i + 1 - 1, e <= q[h].to
        PROVE  Covers(k2, cr, j, e) \/ \E g \in 1 .. i - 1 : e <= Tail(q)[g].to
    <3>1. CASE h = 1
      BY <1>0, <1>1, <2>2, <2>4, <3>1
    <3>2. CASE h # 1
      <4>1. h - 1 \in 1 .. i - 1 /\ h - 1 \in 1 .. Len(q) - 1 /\ (h - 1) + 1 = h
        BY <2>1, <3>2
      <4> QED
        BY <1>0, <2>4, <4>1
    <3> QED
      BY <3>1, <3>2
  <2> QED
    BY <1>1, <2>2, <2>3, <2>4
<1>3. Unbroken(k2, cr, j, Tail(q))
  BY <1>2 DEF Unbroken
<1>4. ASSUME NEW e \in Int, Meets(k, cr, j, q, e)
      PROVE  Meets(k2, cr, j, Tail(q), e)
  BY <1>1, <1>4, ReachesTail DEF Meets
<1> QED
  BY <1>3, <1>4

\* The first frame of the priority lane is applied.
LEMMA PriorityShrinks ==
  ASSUME NEW k \in Int, NEW cr \in Lane, cr # <<>>, NEW j \in Int,
         NEW k2 \in Int, k <= k2, Head(cr).to <= k2,
         NEW e \in Int, Covers(k, cr, j, e)
  PROVE  Covers(k2, Tail(cr), j, e)
<1>1. Head(cr).to \in Int
  BY LaneTail, FrameFields
<1>2. CASE e <= k \/ e <= j
  BY <1>2 DEF Covers
<1>3. CASE Reaches(cr, e)
  <2>1. e <= Head(cr).to \/ Reaches(Tail(cr), e)
    BY <1>3, ReachesTail
  <2> QED
    BY <1>1, <2>1 DEF Covers
<1> QED
  BY <1>2, <1>3 DEF Covers

\* What meets an event meets an earlier one.
LEMMA MeetsLess ==
  ASSUME NEW k \in Int, NEW cr \in Lane, NEW j \in Int, NEW q \in Lane,
         NEW e \in Int, Meets(k, cr, j, q, e), NEW d \in Int, d <= e
  PROVE  Meets(k, cr, j, q, d)
<1>1. \A i \in 1 .. Len(q) : q[i].to \in Int
  BY LaneFrame
<1>2. CASE Covers(k, cr, j, e)
  BY <1>2, CoversLess DEF Meets
<1>3. CASE Reaches(q, e)
  BY <1>1, <1>3 DEF Meets, Reaches
<1> QED
  BY <1>2, <1>3 DEF Meets

-----------------------------------------------------------------------------
(***************************************************************************)
(* A client that a step does not touch.                                    *)
(***************************************************************************)

\* The types of what belongs to one client.
LEMMA ClientTypes ==
  ASSUME RoomTypes, NEW c \in Clients
  PROVE  /\ conn[c] \in ConnRecord /\ last[c] \in Nat /\ gap[c] \in BOOLEAN
         /\ crit[c] \in Lane /\ bcast[c] \in Lane /\ pend[c] \in Lane /\ Queue(c) \in Lane
         /\ Len(log) \in Nat /\ JoinLevel(c) \in Nat /\ Passed(c) \in Int
<1>1. /\ conn[c] \in ConnRecord /\ last[c] \in Nat /\ gap[c] \in BOOLEAN
      /\ crit[c] \in Lane /\ bcast[c] \in Lane /\ pend[c] \in Lane
  BY DEF RoomTypes, Lane
<1>2. Queue(c) \in Lane
  BY <1>1, LaneConcat DEF Queue
<1>3. Len(log) \in Nat
  BY DEF RoomTypes
<1>4. JoinLevel(c) \in Nat
  BY <1>1, <1>3 DEF JoinLevel, RoomTypes, ConnRecord, FlightRecord
<1>5. Passed(c) \in Int
  <2>1. CASE out = <<>>
    BY <2>1 DEF Passed, RoomTypes
  <2>2. CASE out # <<>>
    <3>1. out \in Lane /\ 1 \in 1 .. Len(out)
      BY <2>2 DEF RoomTypes, Lane
    <3>2. out[1].to \in Int /\ out[1].from - 1 \in Int
      BY <3>1, LaneFrame
    <3> QED
      BY <2>2, <3>2 DEF Passed
  <2> QED
    BY <2>1, <2>2
<1> QED
  BY <1>1, <1>2, <1>3, <1>4, <1>5

Untouched(c) ==
  /\ conn'[c] = conn[c] /\ last'[c] = last[c] /\ gap'[c] = gap[c]
  /\ crit'[c] = crit[c] /\ bcast'[c] = bcast[c] /\ pend'[c] = pend[c]

\* Others move on, the log may grow, a read that c waits for may be made.
LEMMA Bystander ==
  ASSUME RoomTypes, RoomTypes', NEW c \in Clients, ClientOK(c), Untouched(c),
         Len(log) <= Len(log'), c \in flight'.who <=> c \in flight.who,
         JoinLevel(c) <= JoinLevel(c)', Sane(c) => Passed(c)' = Passed(c)
  PROVE  ClientOK(c)'
<1>0. /\ conn[c] \in ConnRecord /\ last[c] \in Nat
      /\ crit[c] \in Lane /\ bcast[c] \in Lane /\ pend[c] \in Lane /\ Queue(c) \in Lane
      /\ Len(log) \in Nat /\ JoinLevel(c) \in Nat /\ Passed(c) \in Int
  BY ClientTypes
<1>1. Len(log') \in Nat /\ JoinLevel(c)' \in Nat
  <2>1. Len(log') \in Nat /\ flight'.seq \in Nat
    BY DEF RoomTypes, FlightRecord
  <2>2. conn'[c].snap \in Nat
    BY <1>0 DEF Untouched, ConnRecord
  <2> QED
    BY <2>1, <2>2 DEF JoinLevel
<1>2. PhaseOK(c)' /\ LanesOK(c)'
  <2>1. PhaseOK(c) /\ LanesOK(c)
    BY DEF ClientOK
  <2>2. /\ conn[c].arg <= Len(log)' /\ conn[c].snap <= Len(log)' /\ last[c] <= Len(log)'
    BY <1>0, <1>1, <2>1 DEF PhaseOK, ConnRecord
  <2>3. ASSUME NEW q \in Lane, NEW i \in 1 .. Len(q), q[i].to <= Len(log)
        PROVE  q[i].to <= Len(log)'
    BY <1>0, <1>1, <2>3, LaneFrame
  <2> QED
    BY <1>0, <2>1, <2>2, <2>3 DEF PhaseOK, LanesOK, InLog, Fresh, Untouched
<1>3. SnapshotsAdvance(c)'
  <2>1. SnapshotsAdvance(c)
    BY DEF ClientOK
  <2>2. ASSUME NEW q \in Lane, NEW i \in 1 .. Len(q), q[i].to <= JoinLevel(c)
        PROVE  q[i].to <= JoinLevel(c)'
    BY <1>0, <1>1, <2>2, LaneFrame
  <2>3. last[c] <= JoinLevel(c) => last[c] <= JoinLevel(c)'
    BY <1>0, <1>1
  <2> QED
    BY <1>0, <2>1, <2>2, <2>3 DEF SnapshotsAdvance, Untouched
<1>4. NoHole(c)'
  <2> SUFFICES ASSUME Sane(c)'
               PROVE  /\ Unbroken(last[c], crit[c], JoinLevel(c)', Queue(c))
                      /\ Meets(last[c], crit[c], JoinLevel(c)', Queue(c), Passed(c)')
    BY DEF NoHole, Untouched, Queue
  <2>1. Sane(c)
    BY DEF Sane, Untouched
  <2>2. \A e \in Int : Covers(last[c], crit[c], JoinLevel(c), e)
                         => Covers(last[c], crit[c], JoinLevel(c)', e)
    BY <1>0, <1>1 DEF Covers
  <2>3. /\ Unbroken(last[c], crit[c], JoinLevel(c), Queue(c))
        /\ Meets(last[c], crit[c], JoinLevel(c), Queue(c), Passed(c))
    BY <2>1 DEF NoHole, ClientOK
  <2> QED
    BY <1>0, <2>1, <2>2, <2>3, CoverageGrows
<1>5. HealedBySnapshot(c)'
  BY DEF ClientOK, HealedBySnapshot, Untouched, Sound
<1> QED
  BY <1>2, <1>3, <1>4, <1>5 DEF ClientOK

-----------------------------------------------------------------------------
(***************************************************************************)
(* Types.                                                                  *)
(***************************************************************************)

LaneTypes ==
  crit \in [Clients -> Lane] /\ bcast \in [Clients -> Lane] /\ pend \in [Clients -> Lane]

\* The scripts append events.
LEMMA AppendTypes ==
  ASSUME RoomTypes, NEW es \in BidAppends \cup {<<"SOLD">>}, Appended(es)
  PROVE  /\ log' \in Seq({"BID", "CAP_BID", "EXTENDED", "SOLD"})
         /\ Len(log) < Len(log') /\ Len(log) \in Nat /\ Len(log') \in Nat
<1> DEFINE T == {"BID", "CAP_BID", "EXTENDED", "SOLD"}
<1>1. es \in Seq(T) /\ Len(es) > 0 /\ Len(es) \in Nat
  <2>1. <<"BID">> \in Seq(T) /\ <<"SOLD">> \in Seq(T)
    OBVIOUS
  <2>2. <<"BID", "EXTENDED">> \in Seq(T) /\ <<"CAP_BID", "SOLD">> \in Seq(T)
    OBVIOUS
  <2>3. es \in {<<"BID">>, <<"SOLD">>, <<"BID", "EXTENDED">>, <<"CAP_BID", "SOLD">>}
    BY DEF BidAppends
  <2>4. Len(es) \in {1, 2}
    BY <2>3
  <2> HIDE DEF T
  <2>5. es \in Seq(T)
    BY <2>1, <2>2, <2>3, Zenon
  <2>6. Len(es) > 0 /\ Len(es) \in Nat
    BY <2>4
  <2> QED
    BY <2>5, <2>6
<1>2. log \in Seq(T) /\ log' = log \o es
  BY DEF RoomTypes, Appended
<1> HIDE DEF T
<1>3. log' \in Seq(T) /\ Len(log') = Len(log) + Len(es) /\ Len(log) \in Nat
  BY <1>1, <1>2
<1> QED
  BY <1>1, <1>3 DEF T

\* A closed socket's lanes are dropped.
LEMMA DropTypes ==
  ASSUME RoomTypes, NEW c \in Clients, Drop(c)
  PROVE  LaneTypes'
<1>1. <<>> \in Lane
  BY DEF Lane
<1> QED
  BY <1>1 DEF RoomTypes, Drop, LaneTypes, Lane

\* Frames are pushed on the priority lane.
LEMMA PushTypes ==
  ASSUME RoomTypes, NEW c \in Clients, NEW fs \in Lane, NEW closed \in BOOLEAN,
         PushCritical(c, fs, closed)
  PROVE  LaneTypes'
<1>1. CASE closed
  BY <1>1, DropTypes DEF PushCritical
<1>2. CASE ~closed
  <2>1. crit[c] \o fs \in Lane
    BY LaneConcat DEF RoomTypes, Lane
  <2>2. LaneTypes
    BY DEF LaneTypes, RoomTypes, Lane
  <2>3. [crit EXCEPT ![c] = @ \o fs] \in [Clients -> Lane]
    BY <2>1, <2>2 DEF LaneTypes
  <2> QED
    BY <1>2, <2>2, <2>3 DEF PushCritical, LaneTypes
<1> QED
  BY <1>1, <1>2

\* An event up to s.
Replayed(f, s) == f.type = "event" /\ f.from <= f.to /\ f.to <= s

\* What a joining client is sent.
LEMMA ReplayTypes ==
  ASSUME NEW k \in Nat, NEW s \in Nat
  PROVE  /\ Catchup(k, s) \in Lane
         /\ \A i \in 1 .. Len(Catchup(k, s)) : Replayed(Catchup(k, s)[i], s)
<1>1. CASE s > k /\ s - k <= CatchupMaxGap
  <2>1. Catchup(k, s) = [i \in 1 .. s - k |-> Frame("event", k + i, k + i)]
    BY <1>1 DEF Catchup
  <2>2. s - k \in Nat
    BY <1>1
  <2>3. ASSUME NEW i \in 1 .. s - k
        PROVE  Frame("event", k + i, k + i) \in FrameRecord /\ k + i <= s
    BY DEF Frame, FrameRecord
  <2>4. Catchup(k, s) \in Lane /\ Len(Catchup(k, s)) = s - k
    BY <2>1, <2>2, <2>3 DEF Lane
  <2>5. ASSUME NEW i \in 1 .. s - k
        PROVE  Replayed(Catchup(k, s)[i], s)
    <3>1. Catchup(k, s)[i] = [type |-> "event", from |-> k + i, to |-> k + i]
      BY <2>1 DEF Frame
    <3>2. k + i <= k + i
      OBVIOUS
    <3> QED
      BY <2>3, <3>1, <3>2 DEF Replayed
  <2> QED
    BY <2>4, <2>5
<1>2. CASE ~(s > k /\ s - k <= CatchupMaxGap)
  <2>1. Catchup(k, s) = <<>>
    BY <1>2 DEF Catchup
  <2>2. <<>> \in Lane /\ Len(<<>>) = 0
    BY DEF Lane
  <2> QED
    BY <2>1, <2>2
<1> QED
  BY <1>1, <1>2

\* The init frames.
LEMMA InitTypes ==
  ASSUME NEW replay \in Lane, NEW s \in Nat
  PROVE  Frame("snapshot", 0, s) \in FrameRecord
         /\ replay \o <<Frame("snapshot", 0, s)>> \in Lane
<1>1. Frame("snapshot", 0, s) \in FrameRecord
  BY DEF Frame, FrameRecord
<1>2. <<Frame("snapshot", 0, s)>> \in Lane
  BY <1>1 DEF Lane
<1> QED
  BY <1>1, <1>2, LaneConcat

\* A broadcast frame reaches a socket, whose lane may be full.
LEMMA EnqueueTypes ==
  ASSUME RoomTypes, NEW c \in Clients, NEW f \in FrameRecord, EnqueueBroadcast(c, f)
  PROVE  LaneTypes' /\ conn' \in [Clients -> ConnRecord]
<1>1. LaneTypes /\ conn \in [Clients -> ConnRecord]
  BY DEF LaneTypes, RoomTypes, Lane
<1>2. CASE UNCHANGED <<conn, lanes>>
  BY <1>1, <1>2 DEF LaneTypes, lanes
<1>3. CASE conn' = [conn EXCEPT ![c].open = FALSE] /\ Drop(c)
  BY <1>1, <1>3, DropTypes, ZenonT(60) DEF ConnRecord
<1>4. CASE /\ pend'  = IF Held(c) THEN [pend EXCEPT ![c] = Append(@, f)] ELSE pend
           /\ bcast' = IF Held(c) THEN bcast ELSE [bcast EXCEPT ![c] = Append(@, f)]
           /\ UNCHANGED <<conn, crit>>
  <2>1. Append(pend[c], f) \in Lane /\ Append(bcast[c], f) \in Lane
    BY <1>1, LaneAppend DEF LaneTypes
  <2> QED
    BY <1>1, <1>4, <2>1 DEF LaneTypes
<1> QED
  BY <1>2, <1>3, <1>4 DEF EnqueueBroadcast

\* A ROOM_JOIN or the gateway calls Snapshot.
LEMMA CallTypes ==
  ASSUME RoomTypes, NEW callers, callers \subseteq Clients \cup {Gateway}, CallSnapshot(callers)
  PROVE  /\ flight' \in FlightRecord
         /\ flight'.seq <= Len(log) /\ flight'.pc # "none"
         /\ flight.pc = "none" \/ (flight'.pc = flight.pc /\ flight'.seq = flight.seq)
         /\ (flight.pc = "none" /\ flight'.who = callers) \/ flight'.who = flight.who \cup callers
<1>1. Len(log) \in Nat
  BY DEF RoomTypes
<1>2. CASE flight.pc = "none" /\ flight' = [pc |-> "asked", seq |-> 0, who |-> callers]
  BY <1>1, <1>2 DEF FlightRecord
<1>3. ASSUME NEW s \in 0 .. Len(log), flight.pc = "none",
             flight' = [pc |-> "read", seq |-> s, who |-> callers]
      PROVE  /\ flight' \in FlightRecord
             /\ flight'.seq <= Len(log) /\ flight'.pc # "none" /\ flight'.who = callers
  BY <1>1, <1>3 DEF FlightRecord
<1>4. CASE flight.pc # "none" /\ flight' = [flight EXCEPT !.who = @ \cup callers]
  BY <1>4 DEF RoomTypes, FlightRecord
<1> QED
  BY <1>2, <1>3, <1>4 DEF CallSnapshot

\* The frames the subscribe goroutine broadcasts.
LEMMA BroadcastTypes ==
  ASSUME RoomTypes, NEW k \in Nat
  PROVE  /\ EventFrames(k) \in Lane /\ PatchFrames \in Lane
         /\ patch = NoPatch =>
              PatchFrames = <<>> /\ Len(EventFrames(k)) = 1
              /\ EventFrames(k)[1] = Frame("event", k, k)
         /\ patch # NoPatch =>
              /\ Len(PatchFrames) = 1 /\ PatchFrames[1] = Frame("patch", patch.from, patch.to)
              /\ Len(EventFrames(k)) = 2 /\ EventFrames(k)[2] = Frame("event", k, k)
              /\ EventFrames(k)[1] = Frame("patch", patch.from, patch.to)
<1>1. Frame("event", k, k) \in FrameRecord
      /\ Frame("patch", patch.from, patch.to) \in FrameRecord
  BY DEF Frame, FrameRecord, RoomTypes
<1>2. CASE patch = NoPatch
  BY <1>1, <1>2 DEF EventFrames, PatchFrames, Lane
<1>3. CASE patch # NoPatch
  BY <1>1, <1>3 DEF EventFrames, PatchFrames, Lane
<1> QED
  BY <1>2, <1>3

Phases == {"off", "wait", "init", "splice", "idle", "ack"}

\* The socket of one client changes.
LEMMA ConnTypes ==
  ASSUME NEW r \in ConnRecord, NEW p \in Phases, NEW n \in Nat, NEW b \in BOOLEAN
  PROVE  /\ [r EXCEPT !.pc = p, !.snap = n, !.seededOver = b] \in ConnRecord
         /\ [r EXCEPT !.pc = p, !.arg = n, !.fresh = b] \in ConnRecord
         /\ [r EXCEPT !.pc = p, !.arg = n, !.open = b] \in ConnRecord
         /\ [r EXCEPT !.pc = p, !.joining = FALSE, !.open = b] \in ConnRecord
         /\ [r EXCEPT !.pc = p, !.served = TRUE, !.arg = 0, !.snap = 0, !.open = b] \in ConnRecord
         /\ [r EXCEPT !.pc = p, !.arg = n] \in ConnRecord
         /\ [r EXCEPT !.open = b] \in ConnRecord
         /\ [r EXCEPT !.pc = p, !.open = TRUE, !.member = TRUE, !.joining = TRUE, !.arg = n,
                      !.served = FALSE, !.seededOver = FALSE, !.fresh = b] \in ConnRecord
         /\ Offline \in ConnRecord
BY ZenonT(60) DEF ConnRecord, Phases, Offline

\* The Snapshot call changes.
LEMMA FlightTypes ==
  /\ \A r \in FlightRecord, n \in Nat :
       /\ [r EXCEPT !.pc = "read", !.seq = n] \in FlightRecord
       /\ [r EXCEPT !.pc = "read", !.seq = n].seq = n
BY DEF FlightRecord

LEMMA NoFlightTypes ==
  NoFlight \in FlightRecord /\ NoFlight.seq = 0 /\ NoFlight.who = {} /\ NoFlight.pc = "none"
BY DEF FlightRecord, NoFlight

\* The subscribe goroutine and the scripts keep the types.
LEMMA StreamTypes ==
  ASSUME RoomTypes
  PROVE  /\ ScriptElsewhere => RoomTypes'
         /\ Wake => RoomTypes'
         /\ FlushAll => RoomTypes'
         /\ BroadcastDone => RoomTypes'
         /\ \A c \in Clients : EpochMatches(c) => RoomTypes'
         /\ UNCHANGED dvars => RoomTypes'
<1>1. ASSUME ScriptElsewhere PROVE RoomTypes'
  <2>1. PICK es \in BidAppends \cup {<<"SOLD">>} : Appended(es)
    BY <1>1 DEF ScriptElsewhere
  <2>2. /\ log' \in Seq({"BID", "CAP_BID", "EXTENDED", "SOLD"})
        /\ Len(log) < Len(log') /\ Len(log) \in Nat /\ Len(log') \in Nat
    BY <2>1, AppendTypes
  <2>3. cursor <= Len(log') /\ flight.seq <= Len(log')
    BY <2>2 DEF RoomTypes, FlightRecord
  <2> QED
    BY <1>1, <2>2, <2>3 DEF ScriptElsewhere, streamVars, lanes, client, RoomTypes
<1>2. ASSUME NEW others \in 0 .. MinViewers, SeedCursor(others)
      PROVE  RoomTypes'
  <2>1. CallSnapshot({Gateway}) /\ {Gateway} \subseteq Clients \cup {Gateway}
    BY <1>2 DEF SeedCursor
  <2>2. flight' \in FlightRecord /\ flight'.seq <= Len(log)
    BY <2>1, CallTypes
  <2> QED
    BY <1>2, <2>2 DEF SeedCursor, lanes, client, RoomTypes
<1>3. ASSUME NEW others \in 0 .. MinViewers, Fanout(others)
      PROVE  RoomTypes'
  <2>1. cursor' = cursor + 1 /\ cursor' \in Nat /\ cursor' <= Len(log)
    BY <1>3 DEF Fanout, RoomTypes
  <2>2. out' \in Lane
    <3>1. out' = out \/ out' = EventFrames(cursor + 1)
      BY <1>3 DEF Fanout
    <3>2. out \in Lane /\ EventFrames(cursor + 1) \in Lane
      BY <2>1, BroadcastTypes DEF Lane, RoomTypes
    <3> QED
      BY <3>1, <3>2
  <2>3. patch' \in [from : Nat, to : Nat] /\ todo' \subseteq Clients
    BY <1>3, <2>1 DEF Fanout, NoPatch, Members, RoomTypes
  <2> QED
    BY <1>3, <2>1, <2>2, <2>3 DEF Fanout, lanes, client, Lane, RoomTypes
<1>4. ASSUME FlushAll PROVE RoomTypes'
  <2>1. out' \in Lane
    BY <1>4, BroadcastTypes DEF FlushAll
  <2> QED
    BY <1>4, <2>1 DEF FlushAll, lanes, client, Lane, NoPatch, Members, RoomTypes
<1>5. ASSUME BroadcastDone PROVE RoomTypes'
  <2>1. out \in Lane /\ out # <<>> /\ out' = Tail(out)
    BY <1>5 DEF BroadcastDone, Lane, RoomTypes
  <2>2. Tail(out) \in Lane
    BY <2>1, LaneTail
  <2> QED
    BY <1>5, <2>1, <2>2 DEF BroadcastDone, lanes, client, Lane, Members, RoomTypes
<1>6. ASSUME NEW c \in Clients, EpochMatches(c)
      PROVE  RoomTypes'
  BY <1>6 DEF EpochMatches, lanes, client, RoomTypes
<1>7. ASSUME UNCHANGED dvars PROVE RoomTypes'
  BY <1>7 DEF dvars, streamVars, lanes, client, RoomTypes
<1> QED
  BY <1>1, <1>2, <1>3, <1>4, <1>5, <1>6, <1>7 DEF Wake

\* The Snapshot call keeps the types.
LEMMA SnapshotTypes ==
  ASSUME RoomTypes
  PROVE  /\ SnapshotRead => RoomTypes'
         /\ SnapshotDone => RoomTypes'
         /\ SnapshotFails => RoomTypes'
<1>0. /\ conn \in [Clients -> ConnRecord] /\ Len(log) \in Nat /\ flight.seq \in Nat
      /\ flight.seq <= Len(log) /\ flight \in FlightRecord
  BY DEF RoomTypes, FlightRecord
<1>1. ASSUME SnapshotRead PROVE RoomTypes'
  <2>1. flight' = [flight EXCEPT !.pc = "read", !.seq = Len(log)]
    BY <1>1 DEF SnapshotRead
  <2>2. flight' \in FlightRecord /\ flight'.seq <= Len(log)
    <3>1. /\ [flight EXCEPT !.pc = "read", !.seq = Len(log)] \in FlightRecord
          /\ [flight EXCEPT !.pc = "read", !.seq = Len(log)].seq = Len(log)
      BY <1>0, FlightTypes
    <3> QED
      BY <1>0, <2>1, <3>1
  <2> QED
    BY <1>1, <2>2 DEF SnapshotRead, streamVars, lanes, client, RoomTypes
<1>2. ASSUME SnapshotDone PROVE RoomTypes'
  <2>1. ASSUME NEW c \in Clients, NEW b \in BOOLEAN
        PROVE  [conn[c] EXCEPT !.pc = IF c \in flight.who THEN "init" ELSE @,
                               !.snap = IF c \in flight.who THEN flight.seq ELSE @,
                               !.seededOver = b] \in ConnRecord
    <3>1. conn[c] \in ConnRecord /\ conn[c].pc \in Phases /\ conn[c].snap \in Nat
      BY <1>0 DEF ConnRecord, Phases
    <3>2. (IF c \in flight.who THEN "init" ELSE conn[c].pc) \in Phases
          /\ (IF c \in flight.who THEN flight.seq ELSE conn[c].snap) \in Nat
      BY <1>0, <3>1 DEF Phases
    <3> QED
      BY <3>1, <3>2, ConnTypes
  <2>2. ASSUME NEW c \in Clients
        PROVE  (conn[c].seededOver \/ (Gateway \in flight.who /\ c \notin flight.who
                                        /\ ~Reached(c, flight.seq))) \in BOOLEAN
    BY <1>0 DEF ConnRecord
  <2>3. conn' \in [Clients -> ConnRecord]
    BY <1>2, <2>1, <2>2 DEF SnapshotDone
  <2>4. cursor' \in Nat /\ cursor' <= Len(log)
    BY <1>0, <1>2 DEF SnapshotDone, RoomTypes
  <2>5. seeded' \in BOOLEAN /\ seeding' \in BOOLEAN
    BY <1>2 DEF SnapshotDone, RoomTypes
  <2>6. flight' \in FlightRecord /\ flight'.seq <= Len(log)
    <3>1. flight' = NoFlight
      BY <1>2 DEF SnapshotDone
    <3> QED
      BY <1>0, <3>1, NoFlightTypes
  <2> QED
    BY <1>2, <2>3, <2>4, <2>5, <2>6 DEF SnapshotDone, lanes, client, RoomTypes
<1>3. ASSUME SnapshotFails PROVE RoomTypes'
  <2>1. ASSUME NEW c \in Clients, NEW b \in BOOLEAN
        PROVE  [conn[c] EXCEPT !.pc = IF c \in flight.who THEN "splice" ELSE @,
                               !.arg = IF c \in flight.who THEN 0 ELSE @,
                               !.fresh = b] \in ConnRecord
    <3>1. conn[c] \in ConnRecord /\ conn[c].pc \in Phases /\ conn[c].arg \in Nat
      BY <1>0 DEF ConnRecord, Phases
    <3>2. (IF c \in flight.who THEN "splice" ELSE conn[c].pc) \in Phases
          /\ (IF c \in flight.who THEN 0 ELSE conn[c].arg) \in Nat
      BY <1>0, <3>1 DEF Phases
    <3> QED
      BY <3>1, <3>2, ConnTypes
  <2>2. ASSUME NEW c \in Clients
        PROVE  (conn[c].fresh /\ c \notin flight.who) \in BOOLEAN
    BY <1>0 DEF ConnRecord
  <2>3. conn' \in [Clients -> ConnRecord]
    BY <1>3, <2>1, <2>2 DEF SnapshotFails
  <2>4. seeded' \in BOOLEAN /\ seeding' \in BOOLEAN
    BY <1>3 DEF SnapshotFails, RoomTypes
  <2>5. flight' \in FlightRecord /\ flight'.seq <= Len(log)
    <3>1. flight' = NoFlight
      BY <1>3 DEF SnapshotFails
    <3> QED
      BY <1>0, <3>1, NoFlightTypes
  <2> QED
    BY <1>3, <2>3, <2>4, <2>5 DEF SnapshotFails, lanes, client, RoomTypes
<1> QED
  BY <1>1, <1>2, <1>3

\* The socket of a client keeps the types.
LEMMA SocketTypes ==
  ASSUME RoomTypes, NEW c \in Clients
  PROVE  /\ SocketLost(c) => RoomTypes'
         /\ Teardown(c) => RoomTypes'
         /\ WritePump(c) => RoomTypes'
         /\ TrySendPrepared(c) /\ out # <<>> => RoomTypes'
         /\ RoomJoin(c) => RoomTypes'
<1>0. /\ conn \in [Clients -> ConnRecord] /\ conn[c] \in ConnRecord /\ conn[c].pc \in Phases
      /\ LaneTypes /\ crit[c] \in Lane /\ bcast[c] \in Lane /\ out \in Lane /\ last[c] \in Nat
      /\ last \in [Clients -> Nat] /\ gap \in [Clients -> BOOLEAN]
  BY DEF RoomTypes, LaneTypes, Lane, ConnRecord, Phases
<1>1. ASSUME SocketLost(c) PROVE RoomTypes'
  <2>1. LaneTypes'
    BY <1>1, DropTypes DEF SocketLost
  <2>2. conn' \in [Clients -> ConnRecord]
    BY <1>0, <1>1, ConnTypes DEF SocketLost
  <2> QED
    BY <1>1, <2>1, <2>2 DEF SocketLost, streamVars, client, RoomTypes, LaneTypes, Lane
<1>2. ASSUME Teardown(c) PROVE RoomTypes'
  <2>1. conn' \in [Clients -> ConnRecord]
    BY <1>0, <1>2, ConnTypes DEF Teardown
  <2> QED
    BY <1>2, <2>1 DEF Teardown, lanes, client, RoomTypes
<1>3. ASSUME NEW f \in FrameRecord, Apply(c, f)
      PROVE  last' \in [Clients -> Nat] /\ gap' \in [Clients -> BOOLEAN]
  <2>1. f.to \in Nat
    BY FrameFields
  <2>2. \A n \in Nat : [last EXCEPT ![c] = n] \in [Clients -> Nat]
    BY <1>0
  <2>3. \A b \in BOOLEAN : [gap EXCEPT ![c] = b] \in [Clients -> BOOLEAN]
    BY <1>0
  <2>4. (gap[c] \/ (f.type # "ack" /\ f.from > last[c] + 1 /\ Sound(c))) \in BOOLEAN
    BY <1>0
  <2> QED
    BY <1>0, <1>3, <2>1, <2>2, <2>3, <2>4 DEF Apply, client
<1>4. ASSUME WriteCritical(c) PROVE RoomTypes'
  <2>1. Head(crit[c]) \in FrameRecord /\ Tail(crit[c]) \in Lane
    BY <1>0, <1>4, LaneTail DEF WriteCritical
  <2>2. crit' \in [Clients -> Lane]
    BY <1>0, <1>4, <2>1 DEF WriteCritical, LaneTypes
  <2>3. last' \in [Clients -> Nat] /\ gap' \in [Clients -> BOOLEAN]
    BY <1>3, <1>4, <2>1 DEF WriteCritical
  <2> QED
    BY <1>4, <2>2, <2>3 DEF WriteCritical, streamVars, RoomTypes, Lane
<1>5. ASSUME WriteBroadcast(c) PROVE RoomTypes'
  <2>1. Head(bcast[c]) \in FrameRecord /\ Tail(bcast[c]) \in Lane
    BY <1>0, <1>5, LaneTail DEF WriteBroadcast
  <2>2. bcast' \in [Clients -> Lane]
    BY <1>0, <1>5, <2>1 DEF WriteBroadcast, LaneTypes
  <2>3. last' \in [Clients -> Nat] /\ gap' \in [Clients -> BOOLEAN]
    BY <1>3, <1>5, <2>1 DEF WriteBroadcast
  <2> QED
    BY <1>5, <2>2, <2>3 DEF WriteBroadcast, streamVars, RoomTypes, Lane
<1>6. ASSUME TrySendPrepared(c), out # <<>> PROVE RoomTypes'
  <2>1. Head(out) \in FrameRecord
    BY <1>0, <1>6, LaneTail
  <2>2. LaneTypes' /\ conn' \in [Clients -> ConnRecord]
    BY <1>6, <2>1, EnqueueTypes DEF TrySendPrepared
  <2> QED
    BY <1>6, <2>2 DEF TrySendPrepared, client, RoomTypes, LaneTypes, Lane
<1>7. ASSUME RoomJoin(c) PROVE RoomTypes'
  <2>1. CallSnapshot({c}) /\ {c} \subseteq Clients \cup {Gateway}
    BY <1>7 DEF RoomJoin
  <2>2. flight' \in FlightRecord /\ flight'.seq <= Len(log)
    BY <2>1, CallTypes
  <2>3. pend' \in [Clients -> Lane]
    BY <1>0, <1>7 DEF RoomJoin, LaneTypes, Lane
  <2>4. \A b \in BOOLEAN :
          [conn[c] EXCEPT !.pc = "wait", !.open = TRUE, !.member = TRUE, !.joining = TRUE,
                          !.arg = last[c], !.served = FALSE, !.seededOver = FALSE,
                          !.fresh = b] \in ConnRecord
    BY <1>0 DEF ConnRecord
  <2>5. (/\ flight'.pc = "read" => flight'.seq = Len(log)
         /\ crit[c] = <<>> \/ conn[c].fresh) \in BOOLEAN
    BY <1>0 DEF ConnRecord
  <2>6. conn' \in [Clients -> ConnRecord]
    BY <1>0, <1>7, <2>4, <2>5 DEF RoomJoin
  <2> QED
    BY <1>7, <2>2, <2>3, <2>6 DEF RoomJoin, client, RoomTypes, Lane
<1> QED
  BY <1>1, <1>2, <1>4, <1>5, <1>6, <1>7 DEF WritePump

\* So do the steps of its handler.
LEMMA HandlerTypes ==
  ASSUME RoomTypes, NEW c \in Clients
  PROVE  /\ \A replay \in Lane : PushInit(c, replay) => LaneTypes' /\ conn' \in [Clients -> ConnRecord]
         /\ JoinInit(c) => RoomTypes'
         /\ CatchupReadFails(c) => RoomTypes'
         /\ SpliceAndGoLive(c) => RoomTypes'
         /\ BidPlace(c) => RoomTypes'
         /\ PushAck(c) => RoomTypes'
<1>0. /\ conn \in [Clients -> ConnRecord] /\ conn[c] \in ConnRecord /\ conn[c].pc \in Phases
      /\ LaneTypes /\ bcast[c] \in Lane /\ pend[c] \in Lane
      /\ conn[c].arg \in Nat /\ conn[c].snap \in Nat /\ conn[c].open \in BOOLEAN
  BY DEF RoomTypes, LaneTypes, Lane, ConnRecord, Phases
<1>1. ASSUME NEW replay \in Lane, PushInit(c, replay)
      PROVE  LaneTypes' /\ conn' \in [Clients -> ConnRecord]
  <2>1. PICK closed \in BOOLEAN :
          /\ PushCritical(c, replay \o <<Frame("snapshot", 0, conn[c].snap)>>, closed)
          /\ conn' = [conn EXCEPT ![c].pc = "splice", ![c].served = TRUE,
                                  ![c].arg = 0, ![c].snap = 0, ![c].open = @ /\ ~closed]
    BY <1>1 DEF PushInit
  <2>2. replay \o <<Frame("snapshot", 0, conn[c].snap)>> \in Lane
    BY <1>0, InitTypes
  <2>3. LaneTypes'
    BY <2>1, <2>2, PushTypes
  <2>4. conn' \in [Clients -> ConnRecord]
    BY <1>0, <2>1 DEF ConnRecord
  <2> QED
    BY <2>3, <2>4
<1>2. ASSUME JoinInit(c) PROVE RoomTypes'
  <2>1. Catchup(conn[c].arg, conn[c].snap) \in Lane
    BY <1>0, ReplayTypes
  <2>2. LaneTypes' /\ conn' \in [Clients -> ConnRecord]
    BY <1>1, <1>2, <2>1 DEF JoinInit
  <2> QED
    BY <1>2, <2>2 DEF JoinInit, streamVars, client, RoomTypes, LaneTypes, Lane
<1>3. ASSUME CatchupReadFails(c) PROVE RoomTypes'
  <2>1. <<>> \in Lane
    BY DEF Lane
  <2>2. LaneTypes' /\ conn' \in [Clients -> ConnRecord]
    BY <1>1, <1>3, <2>1 DEF CatchupReadFails
  <2> QED
    BY <1>3, <2>2 DEF CatchupReadFails, streamVars, client, RoomTypes, LaneTypes, Lane
<1>4. ASSUME SpliceAndGoLive(c) PROVE RoomTypes'
  <2>1. conn' \in [Clients -> ConnRecord]
    BY <1>0, <1>4 DEF SpliceAndGoLive, ConnRecord
  <2>2. CASE Drop(c)
    <3>1. LaneTypes'
      BY <2>2, DropTypes
    <3> QED
      BY <1>4, <2>1, <3>1
         DEF SpliceAndGoLive, streamVars, client, RoomTypes, LaneTypes, Lane
  <2>3. CASE /\ bcast' = [bcast EXCEPT ![c] = @ \o pend[c]]
             /\ pend'  = [pend EXCEPT ![c] = <<>>] /\ UNCHANGED crit
    <3>1. bcast[c] \o pend[c] \in Lane /\ <<>> \in Lane
      BY <1>0, LaneConcat DEF Lane
    <3>2. LaneTypes'
      BY <1>0, <2>3, <3>1 DEF LaneTypes
    <3> QED
      BY <1>4, <2>1, <3>2
         DEF SpliceAndGoLive, streamVars, client, RoomTypes, LaneTypes, Lane
  <2> QED
    BY <1>4, <2>2, <2>3 DEF SpliceAndGoLive
<1>5. ASSUME BidPlace(c) PROVE RoomTypes'
  <2>1. PICK es \in BidAppends \cup {<<"SOLD">>} : Appended(es)
    BY <1>5 DEF BidPlace
  <2>2. /\ log' \in Seq({"BID", "CAP_BID", "EXTENDED", "SOLD"})
        /\ Len(log) < Len(log') /\ Len(log) \in Nat /\ Len(log') \in Nat
    BY <2>1, AppendTypes
  <2>3. cursor <= Len(log') /\ flight.seq <= Len(log')
    BY <2>2, SMTT(30) DEF RoomTypes, FlightRecord
  <2>4. conn' \in [Clients -> ConnRecord]
    <3>1. [conn[c] EXCEPT !.pc = "ack", !.arg = Len(log) + 1] \in ConnRecord
      <4>1. Len(log) + 1 \in Nat
        BY <2>2
      <4>2. \A n \in Nat : [conn[c] EXCEPT !.pc = "ack", !.arg = n] \in ConnRecord
        BY <1>0 DEF ConnRecord
      <4> QED
        BY <4>1, <4>2
    <3>2. conn' = [conn EXCEPT ![c] = [conn[c] EXCEPT !.pc = "ack", !.arg = Len(log) + 1]]
      BY <1>0, <1>5 DEF BidPlace
    <3> QED
      BY <1>0, <3>1, <3>2
  <2> QED
    BY <1>5, <2>2, <2>3, <2>4 DEF BidPlace, streamVars, lanes, client, RoomTypes
<1>6. ASSUME PushAck(c) PROVE RoomTypes'
  <2>1. PICK closed \in BOOLEAN :
          /\ PushCritical(c, <<Frame("ack", conn[c].arg, conn[c].arg)>>, closed)
          /\ conn' = [conn EXCEPT ![c].pc = "idle", ![c].arg = 0, ![c].open = @ /\ ~closed]
    BY <1>6 DEF PushAck
  <2>2. <<Frame("ack", conn[c].arg, conn[c].arg)>> \in Lane
    BY <1>0 DEF Lane, Frame, FrameRecord
  <2>3. LaneTypes'
    BY <2>1, <2>2, PushTypes
  <2>4. conn' \in [Clients -> ConnRecord]
    BY <1>0, <2>1 DEF ConnRecord
  <2> QED
    BY <1>6, <2>3, <2>4 DEF PushAck, streamVars, client, RoomTypes, LaneTypes, Lane
<1> QED
  BY <1>1, <1>2, <1>3, <1>4, <1>5, <1>6

-----------------------------------------------------------------------------
(***************************************************************************)
(* The fan-out.                                                            *)
(***************************************************************************)

FanoutVars == <<affinity, cursor, seeded, seeding, out, todo, sending, patch, flight>>

\* A step of a client that leaves the goroutine alone.
LEMMA PipelineAlone ==
  ASSUME Pipeline, UNCHANGED FanoutVars
  PROVE  Pipeline'
BY DEF Pipeline, FanoutVars, Fresh

\* The broadcast goes on, for some member.
LEMMA PipelineTargets ==
  ASSUME Pipeline, out # <<>> \/ (todo' = {} /\ sending' = NoOne),
         UNCHANGED <<affinity, cursor, seeded, seeding, out, patch>>,
         Gateway \in flight'.who <=> Gateway \in flight.who,
         flight'.pc = "none" => flight'.who = {}
  PROVE  Pipeline'
<1>1. CASE out = <<>>
  BY <1>1 DEF Pipeline
<1>2. CASE out # <<>>
  BY <1>2 DEF Pipeline, Fresh
<1> QED
  BY <1>1, <1>2

\* With nothing to broadcast there is no one to send it to.
LEMMA IdleGoroutine ==
  ASSUME Pipeline
  PROVE  out # <<>> \/ (todo = {} /\ sending = NoOne)
<1>1. CASE out = <<>>
  <2>1. Len(out) = 0
    BY <1>1
  <2> QED
    BY <1>1, <2>1 DEF Pipeline
<1> QED
  BY <1>1

\* The goroutine's own steps.
LEMMA PipelineGoroutine ==
  ASSUME RoomTypes, Pipeline, DeliveryAssumption
  PROVE  /\ Wake => Pipeline'
         /\ FlushAll => Pipeline'
         /\ BroadcastDone => Pipeline'
         /\ \A c \in Clients : EpochMatches(c) => Pipeline' /\ out # <<>>
         /\ \A c \in Clients : TrySendPrepared(c) => Pipeline' /\ out # <<>>
<1>0. /\ cursor \in Nat /\ out \in Lane /\ patch.from \in Nat /\ patch.to \in Nat
      /\ NoOne \notin Clients /\ Gateway \notin Clients
  BY DEF RoomTypes, Lane, DeliveryAssumption
<1>1. ASSUME NEW others \in 0 .. MinViewers, SeedCursor(others)
      PROVE  Pipeline'
  <2>1. CallSnapshot({Gateway}) /\ {Gateway} \subseteq Clients \cup {Gateway}
    BY <1>1 DEF SeedCursor
  <2>2. flight'.pc # "none" /\ Gateway \in flight'.who
    BY <2>1, CallTypes
  <2> QED
    BY <1>1, <2>2 DEF SeedCursor, Pipeline, Fresh
<1>2. ASSUME NEW others \in 0 .. MinViewers, Fanout(others)
      PROVE  Pipeline'
  <2>1. /\ cursor' = cursor + 1 /\ seeded' = TRUE /\ ~seeding /\ out = <<>>
        /\ UNCHANGED <<affinity, seeding, sending, flight>>
    BY <1>2 DEF Fanout, Waiting
  <2>2. CASE /\ patch' = [from |-> IF patch = NoPatch THEN cursor + 1 ELSE patch.from,
                          to |-> cursor + 1]
             /\ UNCHANGED <<out, todo>>
    <3>1. 1 <= patch'.from /\ patch'.from <= patch'.to /\ patch'.to = cursor'
      BY <1>0, <2>1, <2>2 DEF Pipeline
    <3> QED
      BY <2>1, <2>2, <3>1 DEF Pipeline
  <2>3. CASE /\ out' = EventFrames(cursor + 1) /\ todo' = Members /\ patch' = NoPatch
    <3>1. CASE patch = NoPatch
      <4>1. Len(out') = 1 /\ out'[1] = Frame("event", cursor + 1, cursor + 1)
        BY <1>0, <2>3, <3>1, BroadcastTypes
      <4>2. Fresh(Frame("event", cursor + 1, cursor + 1))
        BY <1>0 DEF Fresh, Frame
      <4>3. out'[Len(out')].to = cursor'
        BY <2>1, <4>1 DEF Frame
      <4>4. \A i \in 1 .. Len(out') : Fresh(out'[i])
        BY <4>1, <4>2
      <4> QED
        BY <2>1, <2>3, <4>1, <4>3, <4>4 DEF Pipeline, Fresh
    <3>2. CASE patch # NoPatch
      <4>1. /\ Len(out') = 2 /\ out'[1] = Frame("patch", patch.from, patch.to)
            /\ out'[2] = Frame("event", cursor + 1, cursor + 1)
        BY <1>0, <2>3, <3>2, BroadcastTypes
      <4>2. /\ Fresh(Frame("event", cursor + 1, cursor + 1))
            /\ Fresh(Frame("patch", patch.from, patch.to))
        BY <1>0, <3>2 DEF Fresh, Frame, Pipeline
      <4>3. out'[Len(out')].to = cursor' /\ out'[2].from = out'[1].to + 1
        BY <2>1, <3>2, <4>1 DEF Frame, Pipeline
      <4>4. \A i \in 1 .. Len(out') : Fresh(out'[i])
        BY <4>1, <4>2
      <4> QED
        BY <2>1, <2>3, <4>1, <4>3, <4>4 DEF Pipeline, Fresh
    <3> QED
      BY <3>1, <3>2
  <2> QED
    BY <1>2, <2>2, <2>3 DEF Fanout
<1>3. ASSUME FlushAll PROVE Pipeline'
  <2>1. /\ patch # NoPatch /\ out = <<>> /\ out' = PatchFrames /\ patch' = NoPatch
        /\ UNCHANGED <<affinity, cursor, seeded, seeding, sending, flight>>
    BY <1>3 DEF FlushAll, Waiting
  <2>2. Len(out') = 1 /\ out'[1] = Frame("patch", patch.from, patch.to)
    BY <1>0, <2>1, BroadcastTypes
  <2>3. Fresh(Frame("patch", patch.from, patch.to)) /\ out'[Len(out')].to = cursor'
    BY <2>1, <2>2 DEF Fresh, Frame, Pipeline
  <2>4. \A i \in 1 .. Len(out') : Fresh(out'[i])
    BY <2>2, <2>3
  <2> QED
    BY <2>1, <2>2, <2>3, <2>4 DEF Pipeline, Fresh
<1>4. ASSUME BroadcastDone PROVE Pipeline'
  <2>1. /\ out # <<>> /\ sending = NoOne /\ out' = Tail(out)
        /\ todo' = IF Tail(out) = <<>> THEN {} ELSE Members
        /\ UNCHANGED <<affinity, cursor, seeded, seeding, sending, patch, flight>>
    BY <1>4 DEF BroadcastDone
  <2>2. Len(Tail(out)) = Len(out) - 1 /\ \A i \in 1 .. Len(out) - 1 : Tail(out)[i] = out[i + 1]
    BY <1>0, <2>1, LaneTail
  <2>3. CASE Len(out) = 1
    <3>1. out' = <<>>
      <4>1. Tail(out) \in Lane /\ Len(Tail(out)) = 0
        BY <1>0, <2>1, <2>2, <2>3, LaneTail
      <4> QED
        BY <2>1, <4>1, EmptySeq DEF Lane
    <3> QED
      BY <2>1, <3>1 DEF Pipeline
  <2>4. CASE Len(out) = 2
    <3>1. Len(out') = 1 /\ out'[1] = out[2] /\ Fresh(out[2])
      <4>1. 1 \in 1 .. Len(out) - 1 /\ 2 \in 1 .. Len(out) /\ 2 - 1 = 1 /\ 1 + 1 = 2
        BY <2>4
      <4> QED
        BY <2>1, <2>2, <2>4, <4>1 DEF Pipeline
    <3>2. \A i \in 1 .. Len(out') : Fresh(out'[i])
      BY <3>1
    <3>3. out'[Len(out')].to = cursor'
      BY <2>1, <2>4, <3>1 DEF Pipeline
    <3> QED
      BY <2>1, <3>1, <3>2, <3>3 DEF Pipeline, Fresh
  <2> QED
    BY <2>1, <2>3, <2>4 DEF Pipeline
<1>5. ASSUME NEW c \in Clients, EpochMatches(c)
      PROVE  Pipeline' /\ out # <<>>
  <2>1. /\ c \in todo
        /\ UNCHANGED <<affinity, cursor, seeded, seeding, out, patch, flight>>
    BY <1>5 DEF EpochMatches
  <2>2. out # <<>>
    BY <2>1 DEF Pipeline
  <2>3. flight'.pc = "none" => flight'.who = {}
    BY <2>1 DEF Pipeline
  <2> QED
    BY <2>1, <2>2, <2>3, PipelineTargets
<1>6. ASSUME NEW c \in Clients, TrySendPrepared(c)
      PROVE  Pipeline' /\ out # <<>>
  <2>1. /\ sending = c
        /\ UNCHANGED <<affinity, cursor, seeded, seeding, out, patch, flight>>
    BY <1>6 DEF TrySendPrepared
  <2>2. out # <<>>
    <3>1. sending # NoOne
      BY <1>0, <2>1
    <3> QED
      BY <3>1 DEF Pipeline
  <2>3. flight'.pc = "none" => flight'.who = {}
    BY <2>1 DEF Pipeline
  <2> QED
    BY <2>1, <2>2, <2>3, PipelineTargets
<1> QED
  BY <1>1, <1>2, <1>3, <1>4, <1>5, <1>6 DEF Wake

\* The Snapshot call, and who leaves and joins during a broadcast.
LEMMA PipelineSnapshot ==
  ASSUME RoomTypes, Pipeline, DeliveryAssumption
  PROVE  /\ SnapshotRead => Pipeline'
         /\ SnapshotDone => Pipeline'
         /\ SnapshotFails => Pipeline'
         /\ \A c \in Clients : RoomJoin(c) => Pipeline'
         /\ \A c \in Clients : Teardown(c) => Pipeline'
<1>0. flight \in FlightRecord /\ cursor \in Nat /\ Gateway \notin Clients /\ seeding \in BOOLEAN
  BY DEF RoomTypes, DeliveryAssumption
<1>1. ASSUME SnapshotRead PROVE Pipeline'
  <2>1. flight'.who = flight.who /\ flight'.pc # "none"
    BY <1>0, <1>1 DEF SnapshotRead, FlightRecord
  <2> QED
    BY <1>1, <2>1 DEF SnapshotRead, Pipeline, Fresh, streamVars
<1>2. ASSUME SnapshotDone PROVE Pipeline'
  <2>1. /\ flight' = NoFlight /\ UNCHANGED <<affinity, out, todo, sending, patch>>
        /\ cursor' = IF Gateway \in flight.who THEN flight.seq ELSE cursor
        /\ seeded' = (seeded \/ Gateway \in flight.who)
        /\ seeding' = (seeding /\ Gateway \notin flight.who)
    BY <1>2 DEF SnapshotDone
  <2>2. ~seeding'
    BY <2>1 DEF Pipeline
  <2>3. CASE Gateway \in flight.who
    <3>1. out = <<>> /\ patch = NoPatch /\ todo = {} /\ sending = NoOne
      BY <2>3, IdleGoroutine DEF Pipeline
    <3>2. seeded'
      BY <2>1, <2>3
    <3> QED
      BY <2>1, <2>2, <3>1, <3>2, NoFlightTypes DEF Pipeline
  <2>4. CASE Gateway \notin flight.who
    BY <2>1, <2>2, <2>4, NoFlightTypes DEF Pipeline, Fresh
  <2> QED
    BY <2>3, <2>4
<1>3. ASSUME SnapshotFails PROVE Pipeline'
  <2>1. /\ flight' = NoFlight /\ UNCHANGED <<affinity, cursor, out, todo, sending, patch>>
        /\ seeding' = (seeding /\ Gateway \notin flight.who)
        /\ seeded' = (seeded \/ (Gateway \in flight.who /\ log # <<>>))
    BY <1>3 DEF SnapshotFails
  <2>2. ~seeding'
    BY <2>1 DEF Pipeline
  <2> QED
    BY <2>1, <2>2, NoFlightTypes DEF Pipeline, Fresh
<1>4. ASSUME NEW c \in Clients, RoomJoin(c) PROVE Pipeline'
  <2>1. CallSnapshot({c}) /\ {c} \subseteq Clients \cup {Gateway} /\ c # Gateway
    BY <1>0, <1>4 DEF RoomJoin
  <2>2. Gateway \in flight'.who <=> Gateway \in flight.who
    BY <2>1, CallTypes DEF Pipeline
  <2>5. flight'.pc = "none" => flight'.who = {}
    BY <2>1, CallTypes
  <2>3. /\ todo' = todo \ {c}
        /\ UNCHANGED <<affinity, cursor, seeded, seeding, out, sending, patch>>
    BY <1>4 DEF RoomJoin
  <2>4. out # <<>> \/ (todo' = {} /\ sending' = NoOne)
    <3>1. out # <<>> \/ (todo = {} /\ sending = NoOne)
      BY IdleGoroutine
    <3> QED
      BY <2>3, <3>1
  <2> QED
    BY <2>2, <2>3, <2>4, <2>5, PipelineTargets
<1>5. ASSUME NEW c \in Clients, Teardown(c) PROVE Pipeline'
  <2>1. /\ todo' = todo \ {c}
        /\ UNCHANGED <<affinity, cursor, seeded, seeding, out, sending, patch, flight>>
    BY <1>5 DEF Teardown
  <2>2. out # <<>> \/ (todo = {} /\ sending = NoOne)
    BY IdleGoroutine
  <2>3. out # <<>> \/ (todo' = {} /\ sending' = NoOne)
    BY <2>1, <2>2
  <2>4. flight'.pc = "none" => flight'.who = {}
    BY <2>1 DEF Pipeline
  <2> QED
    BY <2>1, <2>3, <2>4, PipelineTargets
<1> QED
  BY <1>1, <1>2, <1>3, <1>4, <1>5

-----------------------------------------------------------------------------
(***************************************************************************)
(* The step of a client.                                                   *)
(***************************************************************************)

\* What has left the fan-out is in the Stream.
LEMMA PassedInLog ==
  ASSUME RoomTypes, Pipeline, NEW c \in Clients
  PROVE  /\ Passed(c) \in Int /\ Passed(c) <= cursor /\ Passed(c) <= Len(log)
         /\ out # <<>> => 1 \in 1 .. Len(out) /\ Fresh(out[1]) /\ out[1].to <= cursor
<1>0. /\ cursor \in Nat /\ cursor <= Len(log) /\ Len(log) \in Nat
      /\ out \in Lane /\ patch.from \in Nat /\ patch.to \in Nat
  BY DEF RoomTypes, Lane
<1>1. CASE out = <<>>
  BY <1>0, <1>1 DEF Passed, Pipeline
<1>2. CASE out # <<>>
  <2>1. /\ Len(out) \in {1, 2} /\ out[Len(out)].to = cursor
        /\ \A i \in 1 .. Len(out) : Fresh(out[i])
        /\ Len(out) = 2 => out[2].from = out[1].to + 1
    BY <1>2 DEF Pipeline
  <2>2. 1 \in 1 .. Len(out)
    BY <2>1
  <2>3. out[1].to \in Nat /\ out[1].from \in Nat /\ Fresh(out[1])
    BY <1>0, <2>1, <2>2, LaneFrame
  <2>4. CASE Len(out) = 1
    BY <1>0, <1>2, <2>1, <2>2, <2>3, <2>4 DEF Passed, Fresh
  <2>5. CASE Len(out) = 2
    <3>1. 2 \in 1 .. Len(out)
      BY <2>5
    <3>2. out[2].to \in Nat /\ out[2].from \in Nat /\ Fresh(out[2])
      BY <1>0, <2>1, <3>1, LaneFrame
    <3>3. out[1].to <= cursor /\ out[1].from - 1 <= cursor
      BY <1>0, <2>1, <2>3, <2>5, <3>2 DEF Fresh
    <3> QED
      BY <1>0, <1>2, <2>2, <2>3, <3>3 DEF Passed
  <2> QED
    BY <2>1, <2>4, <2>5
<1> QED
  BY <1>1, <1>2

\* Where the goroutine stands does not change for c.
LEMMA PassedAlone ==
  ASSUME NEW c \in Clients, UNCHANGED <<cursor, out, patch, sending>>, c \in todo' <=> c \in todo
  PROVE  Passed(c)' = Passed(c)
BY DEF Passed

\* A step that is neither c's nor the goroutine's.
LEMMA Elsewhere ==
  ASSUME RoomTypes, RoomTypes', NEW c \in Clients, ClientOK(c), Untouched(c),
         Len(log) <= Len(log'), UNCHANGED <<flight, cursor, out, patch, sending>>,
         c \in todo' <=> c \in todo
  PROVE  ClientOK(c)'
<1>1. JoinLevel(c) <= JoinLevel(c)'
  <2>1. JoinLevel(c) \in Nat /\ Len(log') \in Nat
    BY ClientTypes DEF RoomTypes
  <2> QED
    BY <2>1 DEF JoinLevel, Untouched
<1> QED
  BY <1>1, PassedAlone, Bystander

\* A socket that is closed, with its lanes dropped.
LEMMA Closed ==
  ASSUME NEW c \in Clients, PhaseOK(c)', ~conn'[c].open,
         crit'[c] = <<>> /\ bcast'[c] = <<>> /\ pend'[c] = <<>>,
         conn'[c].fresh /\ conn'[c].pc \in {"init", "wait"} => last'[c] <= JoinLevel(c)'
  PROVE  ClientOK(c)'
<1>1. Len(<<>>) = 0 /\ 1 .. 0 = {}
  OBVIOUS
<1>2. LanesOK(c)'
  BY <1>1 DEF LanesOK
<1>3. SnapshotsAdvance(c)'
  BY <1>1 DEF SnapshotsAdvance
<1>4. NoHole(c)'
  BY DEF NoHole, Sane
<1>5. HealedBySnapshot(c)'
  BY <1>1 DEF HealedBySnapshot
<1> QED
  BY <1>2, <1>3, <1>4, <1>5 DEF ClientOK

\* A lost socket, and the end of its handler.
LEMMA LostAndTornDown ==
  ASSUME RoomTypes, NEW c \in Clients, ClientOK(c)
  PROVE  SocketLost(c) \/ Teardown(c) => ClientOK(c)'
<1>0. /\ conn \in [Clients -> ConnRecord] /\ conn[c] \in ConnRecord /\ last[c] \in Nat
      /\ Len(log) \in Nat /\ crit \in [Clients -> Lane] /\ bcast \in [Clients -> Lane]
      /\ pend \in [Clients -> Lane]
  BY DEF RoomTypes, Lane
<1>1. PhaseOK(c) /\ LanesOK(c) /\ SnapshotsAdvance(c)
  BY DEF ClientOK
<1>2. ASSUME SocketLost(c) PROVE ClientOK(c)'
  <2>1. /\ conn'[c] = [conn[c] EXCEPT !.open = FALSE] /\ ~conn'[c].open
        /\ conn'[c].pc = conn[c].pc /\ conn'[c].joining = conn[c].joining
        /\ conn'[c].served = conn[c].served /\ conn'[c].member = conn[c].member
        /\ conn'[c].fresh = conn[c].fresh /\ conn'[c].arg = conn[c].arg
        /\ conn'[c].snap = conn[c].snap
    BY <1>0, <1>2 DEF SocketLost, ConnRecord
  <2>2. crit'[c] = <<>> /\ bcast'[c] = <<>> /\ pend'[c] = <<>>
    BY <1>0, <1>2 DEF SocketLost, Drop
  <2>3. UNCHANGED <<log, flight, last>>
    BY <1>2 DEF SocketLost, client
  <2>4. PhaseOK(c)'
    BY <1>1, <2>1, <2>3 DEF PhaseOK
  <2>5. conn[c].fresh /\ conn[c].pc \in {"init", "wait"} => last[c] <= JoinLevel(c)
    BY <1>1 DEF SnapshotsAdvance
  <2>6. JoinLevel(c)' = JoinLevel(c)
    BY <2>1, <2>3 DEF JoinLevel
  <2> QED
    BY <2>1, <2>2, <2>3, <2>4, <2>5, <2>6, Closed
<1>3. ASSUME Teardown(c) PROVE ClientOK(c)'
  <2>1. /\ conn'[c] = Offline /\ UNCHANGED <<log, flight, lanes, last>>
        /\ conn[c].pc = "idle" /\ ~conn[c].open
    BY <1>0, <1>3 DEF Teardown, client
  <2>2. PhaseOK(c)'
    BY <1>0, <1>1, <2>1 DEF PhaseOK, Offline
  <2>3. crit'[c] = <<>> /\ bcast'[c] = <<>> /\ pend'[c] = <<>>
    BY <1>1, <2>1 DEF LanesOK, lanes
  <2> QED
    BY <2>1, <2>2, <2>3, Closed DEF Offline
<1> QED
  BY <1>2, <1>3

\* The queue after its first broadcast frame was written.
LEMMA QueueTail ==
  ASSUME NEW q \in Lane, q # <<>>, NEW s \in Lane
  PROVE  q \o s # <<>> /\ Head(q \o s) = Head(q) /\ Tail(q \o s) = Tail(q) \o s
<1>1. Len(q) \in Nat \ {0} /\ Len(s) \in Nat /\ q \o s \in Lane /\ Len(q \o s) = Len(q) + Len(s)
  BY LaneTail, LaneConcat
<1>2. q \o s # <<>>
  <2>1. Len(q \o s) # 0 /\ Len(<<>>) = 0
    BY <1>1
  <2> QED
    BY <2>1
<1>3. Head(q \o s) = Head(q)
  <2>1. Head(q \o s) = (q \o s)[1] /\ Head(q) = q[1] /\ 1 \in 1 .. Len(q)
    BY <1>1, <1>2, LaneTail
  <2> QED
    BY <2>1, LaneConcat
<1>4. Tail(q \o s) = Tail(q) \o s
  BY <1>1 DEF Lane
<1> QED
  BY <1>2, <1>3, <1>4

\* The client applies a frame: it is at that frame or beyond, and behind the
\* old state only when a snapshot is older.
LEMMA Applied ==
  ASSUME RoomTypes, NEW c \in Clients, NEW f \in FrameRecord, Apply(c, f)
  PROVE  /\ last'[c] \in Nat /\ f.to \in Nat /\ f.from \in Nat
         /\ last'[c] = f.to \/ (f.type # "snapshot" /\ last'[c] = last[c])
         /\ f.to <= last'[c]
         /\ f.type # "snapshot" => last[c] <= last'[c]
         /\ f.type = "snapshot" => ~gap'[c]
         /\ gap'[c] => gap[c] \/ (f.type # "ack" /\ f.from > last[c] + 1 /\ Sound(c))
<1>0. last \in [Clients -> Nat] /\ gap \in [Clients -> BOOLEAN] /\ last[c] \in Nat
  BY DEF RoomTypes
<1>1. f.to \in Nat /\ f.from \in Nat
  BY FrameFields
<1>2. CASE f.type = "snapshot"
  BY <1>0, <1>1, <1>2 DEF Apply
<1>3. CASE f.type # "snapshot" /\ f.to <= last[c]
  BY <1>0, <1>1, <1>3 DEF Apply, client
<1>4. CASE f.type # "snapshot" /\ ~(f.to <= last[c])
  BY <1>0, <1>1, <1>4 DEF Apply
<1> QED
  BY <1>2, <1>3, <1>4

\* The write pump hands out a direct frame: a replayed event may leave a hole,
\* but its snapshot is still in the lane.
LEMMA DirectFrameWritten ==
  ASSUME RoomTypes, NEW c \in Clients, ClientOK(c), WriteCritical(c)
  PROVE  ClientOK(c)' /\ (conn[c].fresh => last[c] <= last'[c])
<1> DEFINE q == crit[c]
           f == Head(q)
<1>0. /\ q \in Lane /\ q # <<>> /\ last[c] \in Nat /\ Len(log) \in Nat /\ JoinLevel(c) \in Nat
      /\ Queue(c) \in Lane /\ Passed(c) \in Int
  BY ClientTypes DEF WriteCritical
<1>1. /\ conn' = conn /\ crit'[c] = Tail(q) /\ UNCHANGED <<log, flight, bcast, pend>>
      /\ UNCHANGED <<cursor, out, todo, sending, patch>> /\ Apply(c, f) /\ conn[c].open
  BY DEF WriteCritical, streamVars, RoomTypes
<1>2. /\ Len(q) \in Nat \ {0} /\ f = q[1] /\ f \in FrameRecord
      /\ Tail(q) \in Lane /\ Len(Tail(q)) = Len(q) - 1
      /\ \A i \in 1 .. Len(q) - 1 : Tail(q)[i] = q[i + 1]
  BY <1>0, LaneTail
<1>3. \A i \in 1 .. Len(q) - 1 : i + 1 \in 1 .. Len(q)
  BY <1>2
<1>4. 1 \in 1 .. Len(q)
  BY <1>2
<1>5. PhaseOK(c) /\ LanesOK(c) /\ SnapshotsAdvance(c) /\ NoHole(c) /\ HealedBySnapshot(c)
  BY DEF ClientOK
<1>6. \A i \in 1 .. Len(q) : q[i].to \in Nat /\ q[i].from \in Nat
  BY <1>0, LaneFrame
<1>7. /\ last'[c] \in Nat /\ f.to \in Nat /\ f.from \in Nat
      /\ last'[c] = f.to \/ (f.type # "snapshot" /\ last'[c] = last[c])
      /\ f.to <= last'[c]
      /\ f.type # "snapshot" => last[c] <= last'[c]
      /\ f.type = "snapshot" => ~gap'[c]
      /\ gap'[c] => gap[c] \/ (f.type # "ack" /\ f.from > last[c] + 1 /\ Sound(c))
  BY <1>1, <1>2, Applied
<1>8. InLog(f) /\ f.type # "patch"
  BY <1>2, <1>4, <1>5 DEF LanesOK
<1> HIDE DEF q, f
<1>9. JoinLevel(c)' = JoinLevel(c) /\ Queue(c)' = Queue(c) /\ Passed(c)' = Passed(c)
  BY <1>1 DEF JoinLevel, Queue, Passed
<1>10. PhaseOK(c)'
  <2>1. last'[c] <= Len(log)
    BY <1>0, <1>5, <1>7, <1>8 DEF PhaseOK, InLog
  <2> QED
    BY <1>1, <1>5, <2>1 DEF PhaseOK
<1>11. LanesOK(c)'
  <2>1. \A i \in 1 .. Len(Tail(q)) : InLog(Tail(q)[i]) /\ Tail(q)[i].type # "patch"
    BY <1>2, <1>3, <1>5 DEF LanesOK, q
  <2> QED
    BY <1>1, <1>5, <2>1 DEF LanesOK, InLog, Fresh
<1>12. conn[c].fresh => last[c] <= last'[c]
  <2>1. conn[c].fresh /\ f.type = "snapshot" => last[c] <= f.to
    BY <1>2, <1>4, <1>5 DEF SnapshotsAdvance, q
  <2> QED
    BY <1>7, <2>1
<1>13. SnapshotsAdvance(c)'
  <2> SUFFICES ASSUME conn[c].fresh
               PROVE  /\ \A i \in 1 .. Len(Tail(q)) : Tail(q)[i].type = "snapshot" =>
                           /\ last'[c] <= Tail(q)[i].to
                           /\ \A j \in 1 .. i : Tail(q)[j].to <= Tail(q)[i].to
                      /\ conn[c].pc \in {"init", "wait"} =>
                           /\ last'[c] <= JoinLevel(c)
                           /\ \A i \in 1 .. Len(Tail(q)) : Tail(q)[i].to <= JoinLevel(c)
                           /\ \A i \in 1 .. Len(bcast[c]) : bcast[c][i].to <= JoinLevel(c)
    BY <1>1, <1>9 DEF SnapshotsAdvance
  <2>1. ASSUME NEW i \in 1 .. Len(Tail(q)), Tail(q)[i].type = "snapshot"
        PROVE  last'[c] <= Tail(q)[i].to /\ \A j \in 1 .. i : Tail(q)[j].to <= Tail(q)[i].to
    <3>1. i \in 1 .. Len(q) - 1 /\ i + 1 \in 1 .. Len(q) /\ Tail(q)[i] = q[i + 1]
      BY <1>2, <1>3
    <3>2. last[c] <= q[i + 1].to /\ \A j \in 1 .. i + 1 : q[j].to <= q[i + 1].to
      BY <1>5, <2>1, <3>1 DEF SnapshotsAdvance, q
    <3>3. q[1].to <= q[i + 1].to
      BY <3>1, <3>2
    <3>4. \A j \in 1 .. i : j + 1 \in 1 .. i + 1 /\ Tail(q)[j] = q[j + 1]
      BY <1>2, <3>1
    <3> QED
      BY <1>2, <1>7, <3>1, <3>2, <3>3, <3>4
  <2>2. ASSUME conn[c].pc \in {"init", "wait"}
        PROVE  /\ last'[c] <= JoinLevel(c)
               /\ \A i \in 1 .. Len(Tail(q)) : Tail(q)[i].to <= JoinLevel(c)
               /\ \A i \in 1 .. Len(bcast[c]) : bcast[c][i].to <= JoinLevel(c)
    <3>1. /\ last[c] <= JoinLevel(c) /\ \A i \in 1 .. Len(q) : q[i].to <= JoinLevel(c)
          /\ \A i \in 1 .. Len(bcast[c]) : bcast[c][i].to <= JoinLevel(c)
      BY <1>5, <2>2 DEF SnapshotsAdvance, q
    <3> QED
      BY <1>2, <1>3, <1>4, <1>7, <3>1
  <2> QED
    BY <2>1, <2>2
<1>14. NoHole(c)'
  <2> SUFFICES ASSUME Sane(c)
               PROVE  /\ Unbroken(last'[c], Tail(q), JoinLevel(c), Queue(c))
                      /\ Meets(last'[c], Tail(q), JoinLevel(c), Queue(c), Passed(c))
    BY <1>1, <1>9 DEF NoHole, Sane
  <2>1. last[c] <= last'[c] /\ Head(q).to <= last'[c]
    BY <1>7, <1>12 DEF Sane, f
  <2>2. \A e \in Int : Covers(last[c], q, JoinLevel(c), e)
                         => Covers(last'[c], Tail(q), JoinLevel(c), e)
    BY <1>0, <1>7, <2>1, PriorityShrinks
  <2>3. /\ Unbroken(last[c], q, JoinLevel(c), Queue(c))
        /\ Meets(last[c], q, JoinLevel(c), Queue(c), Passed(c))
    BY <1>5 DEF NoHole, q
  <2> QED
    BY <1>0, <2>2, <2>3, CoverageGrows
<1>15. HealedBySnapshot(c)'
  <2>1. ASSUME NEW j \in 2 .. Len(q)
        PROVE  j - 1 \in 1 .. Len(Tail(q)) /\ Tail(q)[j - 1] = q[j]
    BY <1>2
  <2>2. ASSUME NEW i \in 1 .. Len(Tail(q)), Tail(q)[i].type = "event"
        PROVE  \E j \in i + 1 .. Len(Tail(q)) : Tail(q)[j].type = "snapshot"
    <3>1. i + 1 \in 1 .. Len(q) /\ q[i + 1].type = "event"
      BY <1>2, <1>3, <2>2
    <3>2. PICK j \in i + 1 + 1 .. Len(q) : q[j].type = "snapshot"
      BY <1>5, <3>1 DEF HealedBySnapshot, q
    <3>3. j \in 2 .. Len(q) /\ j - 1 \in i + 1 .. Len(Tail(q))
      BY <1>2
    <3> QED
      BY <2>1, <3>2, <3>3
  <2>3. ASSUME gap'[c], Sound(c)
        PROVE  \E j \in 1 .. Len(Tail(q)) : Tail(q)[j].type = "snapshot"
    <3>1. f.type # "snapshot"
      BY <1>7, <2>3
    <3>2. \E j \in 2 .. Len(q) : q[j].type = "snapshot"
      <4>1. CASE gap[c]
        <5>1. PICK j \in 1 .. Len(q) : q[j].type = "snapshot"
          BY <1>1, <1>5, <2>3, <4>1 DEF HealedBySnapshot, q
        <5>2. j # 1
          BY <1>2, <3>1, <5>1
        <5> QED
          BY <1>2, <5>1, <5>2
      <4>2. CASE f.type # "ack"
        <5>1. f.type = "event"
          BY <1>2, <1>8, <3>1, <4>2 DEF FrameRecord
        <5>2. \E j \in 1 + 1 .. Len(q) : q[j].type = "snapshot"
          BY <1>2, <1>4, <1>5, <5>1 DEF HealedBySnapshot, q
        <5> QED
          BY <5>2
      <4> QED
        BY <1>7, <2>3, <4>1, <4>2
    <3> QED
      BY <2>1, <3>2
  <2>4. Sound(c)' = Sound(c)
    BY <1>1 DEF Sound
  <2> QED
    BY <1>1, <2>2, <2>3, <2>4 DEF HealedBySnapshot
<1> QED
  BY <1>10, <1>11, <1>12, <1>13, <1>14, <1>15 DEF ClientOK

\* It hands out a broadcast frame, with no direct frame before it: nothing is
\* skipped, because what is in front of the frame was applied.
LEMMA BroadcastFrameWritten ==
  ASSUME RoomTypes, NEW c \in Clients, ClientOK(c), WriteBroadcast(c)
  PROVE  ClientOK(c)' /\ last[c] <= last'[c]
<1> DEFINE q == bcast[c]
           f == Head(q)
<1>0. /\ q \in Lane /\ q # <<>> /\ last[c] \in Nat /\ Len(log) \in Nat /\ JoinLevel(c) \in Nat
      /\ Queue(c) \in Lane /\ Passed(c) \in Int /\ pend[c] \in Lane /\ crit[c] = <<>>
      /\ crit[c] \in Lane
  BY ClientTypes DEF WriteBroadcast
<1>1. /\ conn' = conn /\ bcast'[c] = Tail(q) /\ UNCHANGED <<log, flight, crit, pend>>
      /\ UNCHANGED <<cursor, out, todo, sending, patch>> /\ Apply(c, f) /\ conn[c].open
  BY DEF WriteBroadcast, streamVars, RoomTypes
<1>2. /\ Len(q) \in Nat \ {0} /\ f = q[1] /\ f \in FrameRecord
      /\ Tail(q) \in Lane /\ Len(Tail(q)) = Len(q) - 1
      /\ \A i \in 1 .. Len(q) - 1 : Tail(q)[i] = q[i + 1]
  BY <1>0, LaneTail
<1>3. \A i \in 1 .. Len(q) - 1 : i + 1 \in 1 .. Len(q)
  BY <1>2
<1>4. 1 \in 1 .. Len(q) /\ Len(<<>>) = 0 /\ 1 .. 0 = {}
  BY <1>2
<1>5. PhaseOK(c) /\ LanesOK(c) /\ SnapshotsAdvance(c) /\ NoHole(c) /\ HealedBySnapshot(c)
  BY DEF ClientOK
<1>6. Queue(c) # <<>> /\ Head(Queue(c)) = f /\ Queue(c)' = Tail(Queue(c))
  <2>1. q \o pend[c] # <<>> /\ Head(q \o pend[c]) = f /\ Tail(q \o pend[c]) = Tail(q) \o pend[c]
    BY <1>0, QueueTail
  <2>2. Queue(c) = q \o pend[c] /\ Queue(c)' = Tail(q) \o pend[c]
    BY <1>1 DEF Queue
  <2> HIDE DEF q, f
  <2> QED
    BY <2>1, <2>2
<1>7. InLog(f) /\ Fresh(f)
  BY <1>2, <1>4, <1>5 DEF LanesOK
<1>8. /\ last'[c] \in Nat /\ f.to \in Nat /\ f.from \in Nat
      /\ last'[c] = f.to \/ last'[c] = last[c]
      /\ f.to <= last'[c] /\ last[c] <= last'[c]
      /\ gap'[c] => gap[c] \/ (f.from > last[c] + 1 /\ Sound(c))
  BY <1>1, <1>2, <1>7, Applied DEF Fresh
<1> HIDE DEF q, f
<1>9. JoinLevel(c)' = JoinLevel(c) /\ Passed(c)' = Passed(c)
  BY <1>1 DEF JoinLevel, Passed
<1>10. PhaseOK(c)'
  <2>1. last'[c] <= Len(log)
    BY <1>0, <1>5, <1>7, <1>8 DEF PhaseOK, InLog
  <2> QED
    BY <1>1, <1>5, <2>1 DEF PhaseOK
<1>11. LanesOK(c)'
  <2>1. \A i \in 1 .. Len(Tail(q)) : InLog(Tail(q)[i]) /\ Fresh(Tail(q)[i])
    BY <1>2, <1>3, <1>5 DEF LanesOK, q
  <2> QED
    BY <1>1, <1>5, <2>1 DEF LanesOK, InLog, Fresh
<1>12. SnapshotsAdvance(c)'
  <2>1. ASSUME conn[c].fresh, conn[c].pc \in {"init", "wait"}
        PROVE  /\ last'[c] <= JoinLevel(c)
               /\ \A i \in 1 .. Len(Tail(q)) : Tail(q)[i].to <= JoinLevel(c)
    <3>1. last[c] <= JoinLevel(c) /\ \A i \in 1 .. Len(q) : q[i].to <= JoinLevel(c)
      BY <1>5, <2>1 DEF SnapshotsAdvance, q
    <3> QED
      BY <1>2, <1>3, <1>4, <1>8, <3>1
  <2> QED
    BY <1>0, <1>1, <1>4, <1>9, <2>1 DEF SnapshotsAdvance
<1>13. NoHole(c)'
  <2> SUFFICES ASSUME Sane(c)
               PROVE  /\ Unbroken(last'[c], crit[c], JoinLevel(c), Tail(Queue(c)))
                      /\ Meets(last'[c], crit[c], JoinLevel(c), Tail(Queue(c)), Passed(c))
    BY <1>1, <1>6, <1>9 DEF NoHole, Sane
  <2>1. /\ Unbroken(last[c], crit[c], JoinLevel(c), Queue(c))
        /\ Meets(last[c], crit[c], JoinLevel(c), Queue(c), Passed(c))
    BY <1>5 DEF NoHole
  <2>2. last[c] <= last'[c] /\ Head(Queue(c)).to <= last'[c]
    BY <1>6, <1>8
  <2> QED
    BY <1>0, <1>6, <1>8, <2>1, <2>2, QueueShrinks
<1>14. HealedBySnapshot(c)'
  <2>1. ~(gap'[c] /\ Sound(c))
    <3>1. ASSUME gap[c], Sound(c) PROVE FALSE
      BY <1>0, <1>1, <1>4, <1>5, <3>1 DEF HealedBySnapshot
    <3>2. ASSUME f.from > last[c] + 1, Sound(c) PROVE FALSE
      <4>1. JoinLevel(c) = 0 /\ Sane(c)
        BY <1>1, <1>5, <3>2 DEF PhaseOK, JoinLevel, Sound, Sane
      <4>2. Unbroken(last[c], crit[c], JoinLevel(c), Queue(c))
        BY <1>5, <4>1 DEF NoHole
      <4>3. Len(Queue(c)) \in Nat \ {0} /\ Queue(c)[1] = f
        BY <1>0, <1>6, LaneTail
      <4>4. 1 \in 1 .. Len(Queue(c)) /\ 1 - 1 = 0
        BY <4>3
      <4>5. Covers(last[c], crit[c], JoinLevel(c), f.from - 1)
        BY <1>4, <4>2, <4>3, <4>4 DEF Unbroken
      <4>6. f.from - 1 <= last[c] \/ f.from - 1 <= 0
        BY <1>0, <1>4, <4>1, <4>5 DEF Covers, Reaches
      <4> QED
        BY <1>0, <1>8, <3>2, <4>6
    <3> QED
      BY <1>8, <3>1, <3>2
  <2>2. Sound(c)' = Sound(c)
    BY <1>1 DEF Sound
  <2> QED
    BY <1>0, <1>1, <1>4, <2>1, <2>2 DEF HealedBySnapshot
<1> QED
  BY <1>8, <1>10, <1>11, <1>12, <1>13, <1>14 DEF ClientOK

\* Someone else calls Snapshot.
LEMMA CallAside ==
  ASSUME RoomTypes, Pipeline, NEW callers, callers \subseteq Clients \cup {Gateway},
         CallSnapshot(callers), NEW c \in Clients, c \notin callers, ClientOK(c),
         conn'[c] = conn[c], log' = log
  PROVE  (c \in flight'.who <=> c \in flight.who) /\ JoinLevel(c)' = JoinLevel(c)
<1>1. c \in flight'.who <=> c \in flight.who
  BY CallTypes DEF Pipeline
<1>2. conn[c].pc = "wait" => flight.pc # "none"
  BY DEF ClientOK, PhaseOK, Pipeline
<1>3. flight.pc = "none" \/ (flight'.pc = flight.pc /\ flight'.seq = flight.seq)
  BY CallTypes
<1> QED
  BY <1>1, <1>2, <1>3 DEF JoinLevel

\* ROOM_JOIN: a snapshot read from now on has all that was queued before, and
\* the barrier holds back what comes after.
LEMMA Joined ==
  ASSUME RoomTypes, Pipeline, NEW c \in Clients, ClientOK(c), RoomJoin(c)
  PROVE  ClientOK(c)'
<1>0. /\ conn \in [Clients -> ConnRecord] /\ conn[c] \in ConnRecord /\ last[c] \in Nat
      /\ Len(log) \in Nat /\ crit[c] \in Lane /\ bcast[c] \in Lane
      /\ pend \in [Clients -> Lane] /\ flight.seq \in Nat /\ cursor \in Nat /\ cursor <= Len(log)
  BY SMTT(30) DEF RoomTypes, Lane, FlightRecord
<1>1. /\ UNCHANGED <<log, cursor, out, sending, patch, crit, bcast, last, gap>>
      /\ pend'[c] = <<>> /\ CallSnapshot({c}) /\ {c} \subseteq Clients \cup {Gateway}
  BY <1>0 DEF RoomJoin, client
<1>2. /\ conn'[c].pc = "wait" /\ conn'[c].open /\ conn'[c].member /\ conn'[c].joining
      /\ conn'[c].arg = last[c] /\ ~conn'[c].served /\ conn'[c].snap = conn[c].snap
      /\ conn'[c].fresh = (/\ flight'.pc = "read" => flight'.seq = Len(log)
                           /\ crit[c] = <<>> \/ conn[c].fresh)
  <2> DEFINE b == /\ flight'.pc = "read" => flight'.seq = Len(log)
                  /\ crit[c] = <<>> \/ conn[c].fresh
  <2>1. conn'[c] = [conn[c] EXCEPT !.pc = "wait", !.open = TRUE, !.member = TRUE, !.joining = TRUE,
                                   !.arg = last[c], !.served = FALSE, !.seededOver = FALSE,
                                   !.fresh = b]
    BY <1>0 DEF RoomJoin
  <2> HIDE DEF b
  <2>2. /\ conn'[c].pc = "wait" /\ conn'[c].open /\ conn'[c].member /\ conn'[c].joining
        /\ conn'[c].arg = last[c] /\ ~conn'[c].served /\ conn'[c].snap = conn[c].snap
        /\ conn'[c].fresh = b
    BY <1>0, <2>1 DEF ConnRecord
  <2> QED
    BY <2>2 DEF b
<1>3. c \in flight'.who
  BY <1>1, CallTypes
<1>4. PhaseOK(c) /\ LanesOK(c) /\ SnapshotsAdvance(c) /\ HealedBySnapshot(c)
  BY DEF ClientOK
<1>5. conn'[c].fresh => JoinLevel(c)' = Len(log)
  BY <1>1, <1>2 DEF JoinLevel
<1>6. PhaseOK(c)'
  BY <1>0, <1>1, <1>2, <1>3, <1>4 DEF PhaseOK, ConnRecord
<1>7. LanesOK(c)'
  <2>1. Len(<<>>) = 0 /\ 1 .. 0 = {}
    OBVIOUS
  <2> QED
    BY <1>1, <1>2, <1>4, <2>1 DEF LanesOK, InLog, Fresh
<1>8. SnapshotsAdvance(c)'
  <2> SUFFICES ASSUME conn'[c].fresh
               PROVE  /\ \A i \in 1 .. Len(crit[c]) : crit[c][i].type = "snapshot" =>
                           /\ last[c] <= crit[c][i].to
                           /\ \A j \in 1 .. i : crit[c][j].to <= crit[c][i].to
                      /\ last[c] <= Len(log)
                      /\ \A i \in 1 .. Len(crit[c]) : crit[c][i].to <= Len(log)
                      /\ \A i \in 1 .. Len(bcast[c]) : bcast[c][i].to <= Len(log)
    BY <1>1, <1>5 DEF SnapshotsAdvance
  <2>1. Len(<<>>) = 0 /\ 1 .. 0 = {}
    OBVIOUS
  <2>2. crit[c] = <<>> \/ conn[c].fresh
    BY <1>2
  <2> QED
    BY <1>4, <2>1, <2>2 DEF SnapshotsAdvance, PhaseOK, LanesOK, InLog
<1>9. NoHole(c)'
  <2> SUFFICES ASSUME conn'[c].fresh
               PROVE  /\ Unbroken(last[c], crit[c], Len(log), bcast[c])
                      /\ Meets(last[c], crit[c], Len(log), bcast[c], Passed(c)')
    <3>1. bcast[c] \o <<>> = bcast[c]
      BY <1>0, ConcatEmptySeq DEF Lane
    <3>2. Queue(c)' = bcast[c]
      BY <1>1, <3>1 DEF Queue
    <3> QED
      BY <1>1, <1>5, <3>2 DEF NoHole, Sane
  <2>1. Unbroken(last[c], crit[c], Len(log), bcast[c])
    <3>1. ASSUME NEW i \in 1 .. Len(bcast[c])
          PROVE  Covers(last[c], crit[c], Len(log), bcast[c][i].from - 1)
      <4>1. InLog(bcast[c][i]) /\ bcast[c][i].from \in Nat /\ bcast[c][i].to \in Nat
        BY <1>0, <1>4, LaneFrame DEF LanesOK
      <4> QED
        BY <1>0, <4>1 DEF InLog, Covers
    <3> QED
      BY <3>1 DEF Unbroken
  <2>2. Passed(c)' <= Len(log)
    <3>1. CASE out = <<>>
      <4>1. Passed(c)' = Passed(c)
        BY <1>1, <3>1 DEF Passed
      <4> QED
        BY <4>1, PassedInLog
    <3>2. CASE out # <<>>
      <4>1. /\ Fresh(out[1]) /\ out[1].to <= cursor /\ out[1].to \in Nat /\ out[1].from \in Nat
        BY <3>2, PassedInLog, LaneFrame DEF RoomTypes, Lane
      <4>2. out[1].to <= Len(log) /\ out[1].from - 1 <= Len(log)
        BY <1>0, <4>1 DEF Fresh
      <4> QED
        BY <1>1, <3>2, <4>2 DEF Passed
    <3> QED
      BY <3>1, <3>2
  <2> QED
    BY <2>1, <2>2 DEF Meets, Covers
<1>10. HealedBySnapshot(c)'
  BY <1>1, <1>2, <1>4 DEF HealedBySnapshot, Sound
<1> QED
  BY <1>6, <1>7, <1>8, <1>9, <1>10 DEF ClientOK

\* HGETALL fixes the level of the joins that wait for it.
LEMMA ReadMade ==
  ASSUME RoomTypes, RoomTypes', NEW c \in Clients, ClientOK(c), SnapshotRead
  PROVE  ClientOK(c)'
<1>1. /\ UNCHANGED <<log, streamVars, conn, lanes, client>> /\ flight.pc = "asked"
      /\ flight' = [flight EXCEPT !.pc = "read", !.seq = Len(log)]
  BY DEF SnapshotRead
<1>2. flight'.who = flight.who /\ flight'.pc = "read" /\ flight'.seq = Len(log)
  BY <1>1 DEF RoomTypes, FlightRecord
<1>3. JoinLevel(c)' = JoinLevel(c)
  BY <1>1, <1>2 DEF JoinLevel
<1>4. Passed(c)' = Passed(c) /\ Untouched(c) /\ log' = log
  BY <1>1 DEF Passed, Untouched, streamVars, lanes, client
<1>5. JoinLevel(c) <= JoinLevel(c)' /\ Len(log) <= Len(log')
  BY <1>3, <1>4, ClientTypes
<1> QED
  BY <1>2, <1>4, <1>5, Bystander

\* The Snapshot is answered.  A cursor seeded from it is covered by the joins
\* that get it, and by those that reach that far; the others are seeded over.
LEMMA Answered ==
  ASSUME RoomTypes, Pipeline, NEW c \in Clients, ClientOK(c), SnapshotDone
  PROVE  ClientOK(c)'
<1> DEFINE over == conn[c].seededOver \/ (Gateway \in flight.who /\ c \notin flight.who
                                          /\ ~Reached(c, flight.seq))
<1>0. /\ conn \in [Clients -> ConnRecord] /\ conn[c] \in ConnRecord /\ flight.seq \in Nat
      /\ last[c] \in Nat /\ crit[c] \in Lane /\ Queue(c) \in Lane /\ JoinLevel(c) \in Nat
      /\ Passed(c) \in Int /\ flight.seq <= Len(log)
  BY ClientTypes DEF RoomTypes, FlightRecord
<1>1. /\ UNCHANGED <<log, out, todo, sending, patch, lanes, client>> /\ flight.pc = "read"
      /\ flight' = NoFlight /\ cursor' = IF Gateway \in flight.who THEN flight.seq ELSE cursor
  BY DEF SnapshotDone
<1>2. conn'[c] = [conn[c] EXCEPT !.pc = IF c \in flight.who THEN "init" ELSE @,
                                 !.snap = IF c \in flight.who THEN flight.seq ELSE @,
                                 !.seededOver = over]
  BY DEF SnapshotDone
<1> HIDE DEF over
<1>3. /\ conn'[c].pc = IF c \in flight.who THEN "init" ELSE conn[c].pc
      /\ conn'[c].snap = IF c \in flight.who THEN flight.seq ELSE conn[c].snap
      /\ conn'[c].seededOver = over /\ conn'[c].open = conn[c].open
      /\ conn'[c].member = conn[c].member /\ conn'[c].joining = conn[c].joining
      /\ conn'[c].arg = conn[c].arg /\ conn'[c].served = conn[c].served
      /\ conn'[c].fresh = conn[c].fresh
  BY <1>0, <1>2 DEF ConnRecord
<1>4. PhaseOK(c) /\ LanesOK(c) /\ SnapshotsAdvance(c) /\ NoHole(c) /\ HealedBySnapshot(c)
  BY DEF ClientOK
<1>5. JoinLevel(c)' = JoinLevel(c)
  BY <1>1, <1>3, <1>4 DEF JoinLevel, PhaseOK
<1>6. PhaseOK(c)'
  <2>1. c \notin NoFlight.who
    BY NoFlightTypes
  <2> QED
    BY <1>0, <1>1, <1>3, <1>4, <2>1 DEF PhaseOK, client
<1>7. LanesOK(c)'
  BY <1>1, <1>3, <1>4 DEF LanesOK, InLog, Fresh, lanes
<1>8. SnapshotsAdvance(c)'
  <2>1. conn'[c].pc \in {"init", "wait"} => conn[c].pc \in {"init", "wait"}
    BY <1>3, <1>4 DEF PhaseOK
  <2> QED
    BY <1>1, <1>3, <1>4, <1>5, <2>1 DEF SnapshotsAdvance, lanes, client
<1>9. NoHole(c)'
  <2> SUFFICES ASSUME Sane(c)'
               PROVE  /\ Unbroken(last[c], crit[c], JoinLevel(c), Queue(c))
                      /\ Meets(last[c], crit[c], JoinLevel(c), Queue(c), Passed(c)')
    BY <1>1, <1>5 DEF NoHole, Queue, lanes, client
  <2>1. Sane(c) /\ ~over
    BY <1>3 DEF Sane, over
  <2>2. /\ Unbroken(last[c], crit[c], JoinLevel(c), Queue(c))
        /\ Meets(last[c], crit[c], JoinLevel(c), Queue(c), Passed(c))
    BY <1>4, <2>1 DEF NoHole
  <2>3. CASE Gateway \notin flight.who
    <3>1. Passed(c)' = Passed(c)
      BY <1>1, <2>3 DEF Passed
    <3> QED
      BY <2>2, <3>1
  <2>4. CASE Gateway \in flight.who
    <3>1. Passed(c)' = flight.seq
      BY <1>1, <2>4 DEF Passed, Pipeline
    <3>2. Covers(last[c], crit[c], JoinLevel(c), flight.seq)
      <4>1. CASE c \in flight.who
        <5>1. JoinLevel(c) = flight.seq
          BY <1>1, <1>4, <4>1 DEF JoinLevel, PhaseOK
        <5> QED
          BY <1>0, <5>1 DEF Covers
      <4>2. CASE c \notin flight.who
        <5>1. Reached(c, flight.seq)
          BY <2>1, <2>4, <4>2 DEF over
        <5>2. conn[c].snap \in Nat /\ \A i \in 1 .. Len(crit[c]) : crit[c][i].to \in Nat
          BY <1>0, LaneFrame DEF ConnRecord
        <5> QED
          BY <1>0, <5>1, <5>2 DEF Reached, Covers, Reaches, JoinLevel
      <4> QED
        BY <4>1, <4>2
    <3> QED
      BY <2>2, <3>1, <3>2 DEF Meets
  <2> QED
    BY <2>3, <2>4
<1>10. HealedBySnapshot(c)'
  BY <1>1, <1>3, <1>4 DEF HealedBySnapshot, Sound, over, lanes, client
<1> QED
  BY <1>6, <1>7, <1>8, <1>9, <1>10 DEF ClientOK

\* It fails: those who waited for it are not followed up.
LEMMA Unanswered ==
  ASSUME RoomTypes, Pipeline, NEW c \in Clients, ClientOK(c), SnapshotFails
  PROVE  ClientOK(c)'
<1>0. conn \in [Clients -> ConnRecord] /\ conn[c] \in ConnRecord /\ Len(log) \in Nat
  BY DEF RoomTypes
<1>1. UNCHANGED <<log, cursor, out, todo, sending, patch, lanes, client>> /\ flight' = NoFlight
  BY DEF SnapshotFails
<1>2. conn'[c] = [conn[c] EXCEPT !.pc = IF c \in flight.who THEN "splice" ELSE @,
                                 !.arg = IF c \in flight.who THEN 0 ELSE @,
                                 !.fresh = @ /\ c \notin flight.who]
  BY DEF SnapshotFails
<1>3. /\ conn'[c].pc = IF c \in flight.who THEN "splice" ELSE conn[c].pc
      /\ conn'[c].arg = IF c \in flight.who THEN 0 ELSE conn[c].arg
      /\ conn'[c].fresh = (conn[c].fresh /\ c \notin flight.who)
      /\ conn'[c].snap = conn[c].snap
      /\ conn'[c].seededOver = conn[c].seededOver /\ conn'[c].open = conn[c].open
      /\ conn'[c].member = conn[c].member /\ conn'[c].joining = conn[c].joining
      /\ conn'[c].served = conn[c].served
  BY <1>0, <1>2 DEF ConnRecord
<1>4. PhaseOK(c) /\ LanesOK(c) /\ SnapshotsAdvance(c) /\ NoHole(c) /\ HealedBySnapshot(c)
  BY DEF ClientOK
<1>5. PhaseOK(c)'
  <2>1. c \notin NoFlight.who
    BY NoFlightTypes
  <2>2. CASE c \in flight.who
    <3>1. /\ conn'[c].pc = "splice" /\ conn'[c].arg = 0 /\ ~conn'[c].fresh
          /\ conn[c].pc = "wait"
      BY <1>3, <1>4, <2>2 DEF PhaseOK
    <3> QED
      BY <1>0, <1>1, <1>3, <1>4, <2>1, <3>1 DEF PhaseOK, client
  <2>3. CASE c \notin flight.who
    <3>1. /\ conn'[c].pc = conn[c].pc /\ conn'[c].arg = conn[c].arg
          /\ conn'[c].fresh = conn[c].fresh
      BY <1>0, <1>3, <2>3 DEF ConnRecord
    <3> QED
      BY <1>1, <1>3, <1>4, <2>1, <2>3, <3>1 DEF PhaseOK, client
  <2> QED
    BY <2>2, <2>3
<1>6. LanesOK(c)'
  BY <1>1, <1>3, <1>4 DEF LanesOK, InLog, Fresh, lanes
<1>7. conn'[c].fresh => JoinLevel(c)' = JoinLevel(c) /\ Passed(c)' = Passed(c)
  BY <1>1, <1>3, <1>4 DEF JoinLevel, PhaseOK, Passed
<1>8. SnapshotsAdvance(c)'
  BY <1>1, <1>3, <1>4, <1>7 DEF SnapshotsAdvance, lanes, client
<1>9. NoHole(c)'
  BY <1>1, <1>3, <1>4, <1>7 DEF NoHole, Sane, Queue, lanes, client
<1>10. HealedBySnapshot(c)'
  BY <1>1, <1>3, <1>4 DEF HealedBySnapshot, Sound, lanes, client
<1> QED
  BY <1>5, <1>6, <1>8, <1>9, <1>10 DEF ClientOK

\* The frames that answer a ROOM_JOIN: events up to s, then the snapshot at s.
AnswersJoin(fs, s) ==
  /\ fs \in Lane /\ Len(fs) \in Nat \ {0} /\ Len(fs) \in 1 .. Len(fs)
  /\ \A i \in 1 .. Len(fs) :
       /\ fs[i].from <= fs[i].to /\ fs[i].to <= s
       /\ i # Len(fs) => fs[i].type = "event"
       /\ i = Len(fs) => fs[i].type = "snapshot" /\ fs[i].to = s

LEMMA InitFrames ==
  ASSUME NEW replay \in Lane, NEW s \in Nat, \A i \in 1 .. Len(replay) : Replayed(replay[i], s)
  PROVE  AnswersJoin(replay \o <<Frame("snapshot", 0, s)>>, s)
<1> DEFINE S == Frame("snapshot", 0, s)
           fs == Append(replay, S)
<1>1. S.type = "snapshot" /\ S.from = 0 /\ S.to = s /\ S \in FrameRecord
  BY InitTypes DEF Frame
<1>2. replay \o <<Frame("snapshot", 0, s)>> = fs
  BY DEF Lane
<1> HIDE DEF S
<1>3. /\ fs \in Lane /\ Len(replay) \in Nat /\ Len(fs) = Len(replay) + 1
      /\ \A i \in 1 .. Len(replay) : fs[i] = replay[i]
      /\ fs[Len(replay) + 1] = S
  BY <1>1, LaneAppend
<1> HIDE DEF fs
<1>4. Len(fs) \in Nat \ {0} /\ Len(fs) \in 1 .. Len(fs) /\ fs[Len(fs)] = S
  BY <1>3
<1>5. ASSUME NEW i \in 1 .. Len(fs)
      PROVE  /\ fs[i].from <= fs[i].to /\ fs[i].to <= s
             /\ i # Len(fs) => fs[i].type = "event"
             /\ i = Len(fs) => fs[i].type = "snapshot" /\ fs[i].to = s
  <2>1. CASE i = Len(fs)
    BY <1>1, <1>4, <2>1
  <2>2. CASE i # Len(fs)
    <3>1. i \in 1 .. Len(replay)
      BY <1>3, <2>2
    <3> QED
      BY <1>3, <2>2, <3>1 DEF Replayed
  <2> QED
    BY <2>1, <2>2
<1> QED
  BY <1>2, <1>3, <1>4, <1>5 DEF AnswersJoin

\* The priority lane of an open socket that is not closed grows.
LEMMA Pushed ==
  ASSUME RoomTypes, NEW c \in Clients, NEW fs \in Lane, NEW closed \in BOOLEAN, LanesOK(c),
         PushCritical(c, fs, closed)
  PROVE  /\ closed \/ ~conn[c].open => crit'[c] = <<>> /\ bcast'[c] = <<>> /\ pend'[c] = <<>>
         /\ ~closed /\ conn[c].open =>
              crit'[c] = crit[c] \o fs /\ bcast'[c] = bcast[c] /\ pend'[c] = pend[c]
<1>0. crit \in [Clients -> Lane] /\ bcast \in [Clients -> Lane] /\ pend \in [Clients -> Lane]
  BY DEF RoomTypes, Lane
<1>1. CASE closed
  BY <1>0, <1>1 DEF PushCritical, Drop
<1>2. CASE ~closed /\ ~conn[c].open
  BY <1>0, <1>2 DEF PushCritical, LanesOK
<1>3. CASE ~closed /\ conn[c].open
  BY <1>0, <1>3 DEF PushCritical
<1> QED
  BY <1>1, <1>2, <1>3

\* The snapshot takes over from the join what the client is owed.
LEMMA InitPushed ==
  ASSUME RoomTypes, NEW c \in Clients, ClientOK(c),
         NEW replay \in Lane, \A i \in 1 .. Len(replay) : Replayed(replay[i], conn[c].snap),
         PushInit(c, replay), UNCHANGED <<log, streamVars, flight, client>>
  PROVE  ClientOK(c)'
<1> DEFINE s == conn[c].snap
           fs == replay \o <<Frame("snapshot", 0, s)>>
           q == crit[c]
<1>1. PICK closed \in BOOLEAN :
        /\ PushCritical(c, fs, closed) /\ conn[c].pc = "init"
        /\ conn' = [conn EXCEPT ![c].pc = "splice", ![c].served = TRUE,
                                ![c].arg = 0, ![c].snap = 0, ![c].open = @ /\ ~closed]
  BY DEF PushInit
<1>2. /\ conn \in [Clients -> ConnRecord] /\ conn[c] \in ConnRecord /\ s \in Nat /\ q \in Lane
      /\ last[c] \in Nat /\ Queue(c) \in Lane /\ Passed(c) \in Int /\ Len(log) \in Nat
  BY ClientTypes DEF RoomTypes, ConnRecord
<1>3. /\ conn'[c].pc = "splice" /\ conn'[c].served /\ conn'[c].arg = 0 /\ conn'[c].snap = 0
      /\ conn'[c].open = (conn[c].open /\ ~closed) /\ conn'[c].member = conn[c].member
      /\ conn'[c].joining = conn[c].joining /\ conn'[c].fresh = conn[c].fresh
      /\ conn'[c].seededOver = conn[c].seededOver
  BY <1>1, <1>2 DEF ConnRecord
<1>4. PhaseOK(c) /\ LanesOK(c) /\ SnapshotsAdvance(c) /\ NoHole(c)
  BY DEF ClientOK
<1>4a. AnswersJoin(fs, s)
  BY <1>2, InitFrames
<1> HIDE DEF fs
<1>5. /\ fs \in Lane /\ Len(fs) \in Nat \ {0} /\ Len(fs) \in 1 .. Len(fs)
      /\ fs[Len(fs)].type = "snapshot" /\ fs[Len(fs)].to = s
      /\ \A i \in 1 .. Len(fs) :
           /\ fs[i].from <= fs[i].to /\ fs[i].to <= s
           /\ i # Len(fs) => fs[i].type = "event"
           /\ i = Len(fs) => fs[i].type = "snapshot" /\ fs[i].to = s
  BY <1>4a DEF AnswersJoin
<1>6. /\ closed \/ ~conn[c].open => crit'[c] = <<>> /\ bcast'[c] = <<>> /\ pend'[c] = <<>>
      /\ ~closed /\ conn[c].open =>
           crit'[c] = q \o fs /\ bcast'[c] = bcast[c] /\ pend'[c] = pend[c]
  BY <1>1, <1>4, <1>5, Pushed
<1>7. UNCHANGED <<log, flight, last, gap, cursor, out, todo, sending, patch>>
  BY DEF streamVars, client
<1>8. PhaseOK(c)'
  BY <1>1, <1>2, <1>3, <1>4, <1>7 DEF PhaseOK
<1>9. CASE closed \/ ~conn[c].open
  BY <1>3, <1>6, <1>8, <1>9, Closed
<1>10. CASE ~closed /\ conn[c].open
  <2>1. s <= Len(log) /\ JoinLevel(c) = s /\ JoinLevel(c)' = 0
    BY <1>1, <1>3, <1>4 DEF PhaseOK, JoinLevel
  <2>2. /\ q \o fs \in Lane /\ Len(q) \in Nat /\ Len(q \o fs) = Len(q) + Len(fs)
        /\ \A i \in 1 .. Len(q) : (q \o fs)[i] = q[i]
        /\ \A i \in 1 .. Len(fs) : (q \o fs)[Len(q) + i] = fs[i]
        /\ \A i \in 1 .. Len(q) + Len(fs) :
             i \in 1 .. Len(q) \/ \E h \in 1 .. Len(fs) : i = Len(q) + h
    BY <1>2, <1>5, LaneConcat
  <2>3. /\ \A i \in 1 .. Len(q) : q[i].to \in Nat /\ q[i].from \in Nat
        /\ \A i \in 1 .. Len(fs) : fs[i].to \in Nat /\ fs[i].from \in Nat
    BY <1>2, <1>5, LaneFrame
  <2>4. LanesOK(c)'
    <3>1. ASSUME NEW i \in 1 .. Len(q \o fs)
          PROVE  InLog((q \o fs)[i]) /\ (q \o fs)[i].type # "patch"
      <4>1. CASE i \in 1 .. Len(q)
        BY <1>4, <2>2, <4>1 DEF LanesOK, q
      <4>2. ASSUME NEW h \in 1 .. Len(fs), i = Len(q) + h
            PROVE  InLog((q \o fs)[i]) /\ (q \o fs)[i].type # "patch"
        <5>1. fs[h].from <= fs[h].to /\ fs[h].to <= s /\ fs[h].type # "patch"
          BY <1>5
        <5>2. fs[h].to <= Len(log)
          BY <1>2, <2>1, <2>3, <5>1
        <5> QED
          BY <2>2, <4>2, <5>1, <5>2 DEF InLog
      <4> QED
        BY <2>2, <4>1, <4>2
    <3> QED
      BY <1>3, <1>4, <1>6, <1>7, <1>10, <3>1, ZenonT(60) DEF LanesOK, InLog, Fresh
  <2>5. SnapshotsAdvance(c)'
    <3>1. ASSUME conn[c].fresh, NEW i \in 1 .. Len(q \o fs), (q \o fs)[i].type = "snapshot"
          PROVE  /\ last[c] <= (q \o fs)[i].to
                 /\ \A j \in 1 .. i : (q \o fs)[j].to <= (q \o fs)[i].to
      <4>0. last[c] <= s /\ \A j \in 1 .. Len(q) : q[j].to <= s
        BY <1>1, <1>4, <2>1, <3>1 DEF SnapshotsAdvance, q
      <4>1. CASE i \in 1 .. Len(q)
        <5>1. last[c] <= q[i].to /\ \A j \in 1 .. i : q[j].to <= q[i].to
          BY <1>4, <2>2, <3>1, <4>1 DEF SnapshotsAdvance, q
        <5>2. \A j \in 1 .. i : j \in 1 .. Len(q)
          BY <2>2, <4>1
        <5> QED
          BY <2>2, <4>1, <5>1, <5>2
      <4>2. ASSUME NEW h \in 1 .. Len(fs), i = Len(q) + h
            PROVE  /\ last[c] <= (q \o fs)[i].to
                   /\ \A j \in 1 .. i : (q \o fs)[j].to <= (q \o fs)[i].to
        <5>1. (q \o fs)[i] = fs[h] /\ fs[h].to = s
          BY <1>5, <2>2, <3>1, <4>2
        <5>2. ASSUME NEW j \in 1 .. i PROVE (q \o fs)[j].to <= s
          <6>1. CASE j \in 1 .. Len(q)
            BY <2>2, <4>0, <6>1
          <6>2. ASSUME NEW g \in 1 .. Len(fs), j = Len(q) + g PROVE (q \o fs)[j].to <= s
            BY <1>5, <2>2, <6>2
          <6>3. j \in 1 .. Len(q) + Len(fs)
            BY <2>2
          <6> QED
            BY <2>2, <6>1, <6>2, <6>3
        <5> QED
          BY <4>0, <5>1, <5>2
      <4> QED
        BY <2>2, <4>1, <4>2
    <3> QED
      BY <1>3, <1>6, <1>7, <1>10, <3>1 DEF SnapshotsAdvance
  <2>6. NoHole(c)'
    <3> SUFFICES ASSUME Sane(c)
                 PROVE  /\ Unbroken(last[c], q \o fs, 0, Queue(c))
                        /\ Meets(last[c], q \o fs, 0, Queue(c), Passed(c))
      BY <1>3, <1>6, <1>7, <1>10, <2>1 DEF NoHole, Sane, Queue, Passed
    <3>1. ASSUME NEW e \in Int, Covers(last[c], q, s, e)
          PROVE  Covers(last[c], q \o fs, 0, e)
      <4>1. e <= s => Reaches(fs, e)
        BY <1>5 DEF Reaches
      <4> QED
        BY <1>2, <1>5, <3>1, <4>1, ReachesConcat DEF Covers
    <3>2. /\ Unbroken(last[c], q, s, Queue(c))
          /\ Meets(last[c], q, s, Queue(c), Passed(c))
      BY <1>4, <2>1 DEF NoHole, q
    <3> HIDE DEF s
    <3> QED
      BY <1>2, <3>1, <3>2, CoverageGrows
  <2>7. HealedBySnapshot(c)'
    <3> DEFINE n == Len(q \o fs)
    <3>1. n \in 1 .. n /\ (q \o fs)[n].type = "snapshot" /\ n \in Nat
      BY <1>5, <2>2
    <3> HIDE DEF n
    <3>2. ASSUME NEW i \in 1 .. n, (q \o fs)[i].type = "event"
          PROVE  n \in i + 1 .. n
      <4>1. i # n
        BY <3>1, <3>2
      <4> QED
        BY <3>1, <4>1
    <3> QED
      BY <1>6, <1>10, <3>1, <3>2 DEF HealedBySnapshot, n
  <2> QED
    BY <1>8, <2>4, <2>5, <2>6, <2>7 DEF ClientOK
<1> QED
  BY <1>9, <1>10

\* With the catch-up, or without it when its read fails.
LEMMA JoinAnswered ==
  ASSUME RoomTypes, NEW c \in Clients, ClientOK(c)
  PROVE  JoinInit(c) \/ CatchupReadFails(c) => ClientOK(c)'
<1>1. conn[c].arg \in Nat /\ conn[c].snap \in Nat
  BY DEF RoomTypes, ConnRecord
<1>2. ASSUME JoinInit(c) PROVE ClientOK(c)'
  <2>1. /\ Catchup(conn[c].arg, conn[c].snap) \in Lane
        /\ \A i \in 1 .. Len(Catchup(conn[c].arg, conn[c].snap)) :
             Replayed(Catchup(conn[c].arg, conn[c].snap)[i], conn[c].snap)
    BY <1>1, ReplayTypes
  <2>2. PushInit(c, Catchup(conn[c].arg, conn[c].snap)) /\ UNCHANGED <<log, streamVars, flight, client>>
    BY <1>2 DEF JoinInit
  <2> QED
    BY <2>1, <2>2, InitPushed
<1>3. ASSUME CatchupReadFails(c) PROVE ClientOK(c)'
  <2>1. <<>> \in Lane /\ \A i \in 1 .. Len(<<>>) : Replayed(<<>>[i], conn[c].snap)
    BY DEF Lane
  <2>2. PushInit(c, <<>>) /\ UNCHANGED <<log, streamVars, flight, client>>
    BY <1>3 DEF CatchupReadFails
  <2> QED
    BY <2>1, <2>2, InitPushed
<1> QED
  BY <1>2, <1>3

\* The barrier comes down: what it held back follows the broadcast lane.
LEMMA WentLive ==
  ASSUME RoomTypes, NEW c \in Clients, ClientOK(c), SpliceAndGoLive(c)
  PROVE  ClientOK(c)'
<1> DEFINE fits == Len(bcast[c]) + Len(pend[c]) <= LaneCap
<1>0. /\ conn \in [Clients -> ConnRecord] /\ conn[c] \in ConnRecord
      /\ crit \in [Clients -> Lane] /\ bcast \in [Clients -> Lane] /\ pend \in [Clients -> Lane]
      /\ bcast[c] \in Lane /\ pend[c] \in Lane
  BY DEF RoomTypes, Lane
<1>1. /\ conn[c].pc = "splice" /\ UNCHANGED <<log, flight, last, gap>>
      /\ UNCHANGED <<cursor, out, todo, sending, patch>>
      /\ conn' = [conn EXCEPT ![c].pc = "idle", ![c].joining = FALSE, ![c].open = @ /\ fits]
      /\ fits => /\ bcast' = [bcast EXCEPT ![c] = @ \o pend[c]]
                 /\ pend'  = [pend EXCEPT ![c] = <<>>] /\ UNCHANGED crit
      /\ ~fits => Drop(c)
  BY DEF SpliceAndGoLive, streamVars, client
<1>2. /\ conn'[c].pc = "idle" /\ ~conn'[c].joining /\ conn'[c].open = (conn[c].open /\ fits)
      /\ conn'[c].served = conn[c].served /\ conn'[c].member = conn[c].member
      /\ conn'[c].fresh = conn[c].fresh /\ conn'[c].seededOver = conn[c].seededOver
      /\ conn'[c].arg = conn[c].arg /\ conn'[c].snap = conn[c].snap
  BY <1>0, <1>1 DEF ConnRecord
<1> HIDE DEF fits
<1>3. PhaseOK(c) /\ LanesOK(c) /\ SnapshotsAdvance(c) /\ NoHole(c) /\ HealedBySnapshot(c)
  BY DEF ClientOK
<1>4. PhaseOK(c)'
  BY <1>1, <1>2, <1>3 DEF PhaseOK
<1>5. bcast[c] \o <<>> = bcast[c] /\ \A q \in Lane : q \o <<>> = q
  BY <1>0, ConcatEmptySeq DEF Lane
<1>6. CASE ~(conn[c].open /\ fits)
  <2>1. crit'[c] = <<>> /\ bcast'[c] = <<>> /\ pend'[c] = <<>>
    <3>1. CASE ~fits
      BY <1>0, <1>1, <3>1 DEF Drop
    <3>2. CASE fits
      <4>1. crit[c] = <<>> /\ bcast[c] = <<>> /\ pend[c] = <<>>
        BY <1>3, <1>6, <3>2 DEF LanesOK
      <4> QED
        BY <1>0, <1>1, <1>5, <3>2, <4>1
    <3> QED
      BY <3>1, <3>2
  <2> QED
    BY <1>2, <1>4, <1>6, <2>1, Closed
<1>7. CASE conn[c].open /\ fits
  <2>1. crit'[c] = crit[c] /\ bcast'[c] = bcast[c] \o pend[c] /\ pend'[c] = <<>>
    BY <1>0, <1>1, <1>7
  <2>2. bcast[c] \o pend[c] \in Lane
    BY <1>0, LaneConcat
  <2>3. Queue(c)' = Queue(c)
    BY <1>5, <2>1, <2>2 DEF Queue
  <2>4. JoinLevel(c)' = 0 /\ JoinLevel(c) = 0 /\ Passed(c)' = Passed(c)
    BY <1>1, <1>2 DEF JoinLevel, Passed
  <2>5. LanesOK(c)'
    <3>1. ASSUME NEW i \in 1 .. Len(bcast[c] \o pend[c])
          PROVE  InLog((bcast[c] \o pend[c])[i]) /\ Fresh((bcast[c] \o pend[c])[i])
      <4>1. CASE i \in 1 .. Len(bcast[c])
        BY <1>0, <1>3, <4>1, LaneConcat DEF LanesOK
      <4>2. ASSUME NEW h \in 1 .. Len(pend[c]), i = Len(bcast[c]) + h
            PROVE  InLog((bcast[c] \o pend[c])[i]) /\ Fresh((bcast[c] \o pend[c])[i])
        <5>1. (bcast[c] \o pend[c])[i] = pend[c][h]
          BY <1>0, <4>2, LaneConcat
        <5> QED
          BY <1>3, <5>1 DEF LanesOK
      <4>3. i \in 1 .. Len(bcast[c]) + Len(pend[c])
        BY <1>0, LaneConcat
      <4>4. i \in 1 .. Len(bcast[c]) \/ \E h \in 1 .. Len(pend[c]) : i = Len(bcast[c]) + h
        BY <1>0, <4>3, LaneConcat
      <4> QED
        BY <4>1, <4>2, <4>4
    <3>2. Len(<<>>) = 0 /\ 1 .. 0 = {}
      OBVIOUS
    <3> QED
      <4>1. \A i \in 1 .. Len(crit[c]) : InLog(crit[c][i]) /\ crit[c][i].type # "patch"
        BY <1>3 DEF LanesOK
      <4>2. \A i \in 1 .. Len(crit'[c]) : InLog(crit[c][i])' /\ crit'[c][i].type # "patch"
        BY <1>1, <2>1, <4>1 DEF InLog
      <4>3. \A i \in 1 .. Len(bcast'[c]) : InLog(bcast[c][i])' /\ Fresh(bcast[c][i])'
        BY <1>1, <2>1, <3>1 DEF InLog, Fresh
      <4>4. \A i \in 1 .. Len(pend'[c]) : InLog(pend[c][i])' /\ Fresh(pend[c][i])'
        BY <2>1, <3>2
      <4> QED
        BY <1>2, <1>7, <2>1, <4>2, <4>3, <4>4 DEF LanesOK
  <2>6. SnapshotsAdvance(c)'
    BY <1>1, <1>2, <1>3, <2>1 DEF SnapshotsAdvance
  <2>7. NoHole(c)'
    BY <1>1, <1>2, <1>3, <1>7, <2>1, <2>3, <2>4 DEF NoHole, Sane
  <2>8. HealedBySnapshot(c)'
    BY <1>1, <1>2, <1>3, <1>7, <2>1 DEF HealedBySnapshot, Sound
  <2> QED
    BY <1>4, <2>5, <2>6, <2>7, <2>8 DEF ClientOK
<1> QED
  BY <1>6, <1>7

\* A bid of the socket is accepted.
LEMMA BidPlaced ==
  ASSUME RoomTypes, NEW c \in Clients, ClientOK(c), BidPlace(c)
  PROVE  ClientOK(c)'
<1>0. /\ conn \in [Clients -> ConnRecord] /\ conn[c] \in ConnRecord /\ conn[c].snap \in Nat
      /\ last[c] \in Nat /\ Len(log) \in Nat /\ crit[c] \in Lane /\ bcast[c] \in Lane
      /\ pend[c] \in Lane
  BY SMTT(30) DEF RoomTypes, Lane, ConnRecord
<1>1. /\ conn[c].pc = "idle" /\ conn' = [conn EXCEPT ![c].pc = "ack", ![c].arg = Len(log) + 1]
      /\ UNCHANGED <<cursor, out, todo, sending, patch, flight, crit, bcast, pend, last, gap>>
      /\ \E es \in BidAppends : Appended(es)
  BY DEF BidPlace, streamVars, lanes, client
<1>2. /\ conn'[c].pc = "ack" /\ conn'[c].arg = Len(log) + 1 /\ conn'[c].snap = conn[c].snap
      /\ conn'[c].open = conn[c].open /\ conn'[c].joining = conn[c].joining
      /\ conn'[c].served = conn[c].served /\ conn'[c].member = conn[c].member
      /\ conn'[c].fresh = conn[c].fresh /\ conn'[c].seededOver = conn[c].seededOver
  BY <1>0, <1>1 DEF ConnRecord
<1>3. Len(log') \in Nat /\ Len(log) < Len(log')
  BY <1>1, AppendTypes
<1>4. PhaseOK(c) /\ LanesOK(c) /\ SnapshotsAdvance(c) /\ NoHole(c) /\ HealedBySnapshot(c)
  BY DEF ClientOK
<1>5. PhaseOK(c)'
  BY <1>0, <1>1, <1>2, <1>3, <1>4 DEF PhaseOK
<1>6. LanesOK(c)'
  <2>1. ASSUME NEW q \in Lane, NEW i \in 1 .. Len(q), q[i].to <= Len(log)
        PROVE  q[i].to <= Len(log')
    BY <1>0, <1>3, <2>1, LaneFrame
  <2> QED
    BY <1>0, <1>1, <1>2, <1>4, <2>1 DEF LanesOK, InLog, Fresh
<1>7. JoinLevel(c)' = JoinLevel(c) /\ Passed(c)' = Passed(c)
  BY <1>1, <1>2 DEF JoinLevel, Passed
<1>8. SnapshotsAdvance(c)' /\ NoHole(c)' /\ HealedBySnapshot(c)'
  BY <1>1, <1>2, <1>4, <1>7 DEF SnapshotsAdvance, NoHole, HealedBySnapshot, Sane, Sound, Queue
<1> QED
  BY <1>5, <1>6, <1>8 DEF ClientOK

\* And acknowledged.
LEMMA AckPushed ==
  ASSUME RoomTypes, NEW c \in Clients, ClientOK(c), PushAck(c)
  PROVE  ClientOK(c)'
<1> DEFINE A == Frame("ack", conn[c].arg, conn[c].arg)
           q == crit[c]
<1>1. PICK closed \in BOOLEAN :
        /\ conn[c].pc = "ack" /\ PushCritical(c, <<A>>, closed)
        /\ conn' = [conn EXCEPT ![c].pc = "idle", ![c].arg = 0, ![c].open = @ /\ ~closed]
  BY DEF PushAck
<1>2. /\ conn \in [Clients -> ConnRecord] /\ conn[c] \in ConnRecord /\ q \in Lane
      /\ conn[c].arg \in Nat /\ last[c] \in Nat /\ Queue(c) \in Lane /\ Passed(c) \in Int
      /\ Len(log) \in Nat
  BY ClientTypes DEF RoomTypes, ConnRecord
<1>3. /\ conn'[c].pc = "idle" /\ conn'[c].arg = 0 /\ conn'[c].snap = conn[c].snap
      /\ conn'[c].open = (conn[c].open /\ ~closed) /\ conn'[c].member = conn[c].member
      /\ conn'[c].joining = conn[c].joining /\ conn'[c].fresh = conn[c].fresh
      /\ conn'[c].served = conn[c].served /\ conn'[c].seededOver = conn[c].seededOver
  BY <1>1, <1>2 DEF ConnRecord
<1>4. PhaseOK(c) /\ LanesOK(c) /\ SnapshotsAdvance(c) /\ NoHole(c) /\ HealedBySnapshot(c)
  BY DEF ClientOK
<1>5. /\ A \in FrameRecord /\ A.type = "ack" /\ A.from = conn[c].arg /\ A.to = conn[c].arg
      /\ <<A>> \in Lane
  BY <1>2 DEF Frame, FrameRecord, Lane
<1> HIDE DEF A
<1>6. /\ closed \/ ~conn[c].open => crit'[c] = <<>> /\ bcast'[c] = <<>> /\ pend'[c] = <<>>
      /\ ~closed /\ conn[c].open =>
           crit'[c] = q \o <<A>> /\ bcast'[c] = bcast[c] /\ pend'[c] = pend[c]
  BY <1>1, <1>4, <1>5, Pushed
<1>7. UNCHANGED <<log, flight, last, gap, cursor, out, todo, sending, patch>>
  BY DEF PushAck, streamVars, client
<1>8. PhaseOK(c)'
  BY <1>1, <1>2, <1>3, <1>4, <1>7 DEF PhaseOK
<1>9. CASE closed \/ ~conn[c].open
  BY <1>3, <1>6, <1>8, <1>9, Closed
<1>10. CASE ~closed /\ conn[c].open
  <2>1. JoinLevel(c) = 0 /\ JoinLevel(c)' = 0 /\ Passed(c)' = Passed(c)
    BY <1>1, <1>3, <1>7 DEF JoinLevel, Passed
  <2>2. q \o <<A>> = Append(q, A)
    BY <1>2 DEF Lane
  <2>3. /\ Append(q, A) \in Lane /\ Len(q) \in Nat /\ Len(Append(q, A)) = Len(q) + 1
        /\ \A i \in 1 .. Len(q) : Append(q, A)[i] = q[i]
        /\ Append(q, A)[Len(q) + 1] = A
    BY <1>2, <1>5, LaneAppend
  <2>4. crit'[c] = Append(q, A) /\ bcast'[c] = bcast[c] /\ pend'[c] = pend[c]
    BY <1>6, <1>10, <2>2
  <2>5. \A i \in 1 .. Len(q) + 1 : i \in 1 .. Len(q) \/ i = Len(q) + 1
    BY <2>3
  <2>6. LanesOK(c)'
    <3>1. InLog(A) /\ A.type # "patch"
      BY <1>2, <1>4, <1>5 DEF PhaseOK, InLog
    <3>2. \A i \in 1 .. Len(Append(q, A)) :
            InLog(Append(q, A)[i]) /\ Append(q, A)[i].type # "patch"
      BY <1>4, <2>3, <2>5, <3>1 DEF LanesOK, q
    <3> QED
      BY <1>3, <1>4, <1>7, <1>10, <2>4, <3>2, ZenonT(60) DEF LanesOK, InLog, Fresh
  <2>7. SnapshotsAdvance(c)'
    <3>1. ASSUME conn[c].fresh, NEW i \in 1 .. Len(Append(q, A)),
                 Append(q, A)[i].type = "snapshot"
          PROVE  /\ last[c] <= Append(q, A)[i].to
                 /\ \A j \in 1 .. i : Append(q, A)[j].to <= Append(q, A)[i].to
      <4>1. i \in 1 .. Len(q)
        BY <1>5, <2>3, <2>5, <3>1
      <4>2. \A j \in 1 .. i : j \in 1 .. Len(q)
        BY <2>3, <4>1
      <4>3. last[c] <= q[i].to /\ \A j \in 1 .. i : q[j].to <= q[i].to
        BY <1>4, <2>3, <3>1, <4>1 DEF SnapshotsAdvance, q
      <4> QED
        BY <2>3, <4>1, <4>2, <4>3
    <3> QED
      BY <1>3, <1>7, <2>4, <3>1 DEF SnapshotsAdvance
  <2>8. NoHole(c)'
    <3> SUFFICES ASSUME Sane(c)
                 PROVE  /\ Unbroken(last[c], q \o <<A>>, 0, Queue(c))
                        /\ Meets(last[c], q \o <<A>>, 0, Queue(c), Passed(c))
      BY <1>3, <1>6, <1>7, <1>10, <2>1 DEF NoHole, Sane, Queue
    <3>1. ASSUME NEW e \in Int, Covers(last[c], q, 0, e)
          PROVE  Covers(last[c], q \o <<A>>, 0, e)
      <4>1. Reaches(q, e) => Reaches(q \o <<A>>, e)
        BY <1>2, <1>5, ReachesConcat
      <4> QED
        BY <3>1, <4>1 DEF Covers
    <3>2. /\ Unbroken(last[c], q, 0, Queue(c))
          /\ Meets(last[c], q, 0, Queue(c), Passed(c))
      BY <1>4, <2>1 DEF NoHole, q
    <3> QED
      BY <1>2, <3>1, <3>2, CoverageGrows
  <2>9. HealedBySnapshot(c)'
    <3>1. ASSUME NEW i \in 1 .. Len(Append(q, A)), Append(q, A)[i].type = "event"
          PROVE  \E j \in i + 1 .. Len(Append(q, A)) : Append(q, A)[j].type = "snapshot"
      <4>1. i \in 1 .. Len(q) /\ q[i].type = "event"
        BY <1>5, <2>3, <2>5, <3>1
      <4>2. PICK j \in i + 1 .. Len(q) : q[j].type = "snapshot"
        BY <1>4, <4>1 DEF HealedBySnapshot, q
      <4>3. j \in 1 .. Len(q) /\ j \in i + 1 .. Len(q) + 1
        BY <2>3, <4>1, <4>2
      <4> QED
        BY <2>3, <4>2, <4>3
    <3>2. ASSUME gap[c], Sound(c)
          PROVE  \E j \in 1 .. Len(Append(q, A)) : Append(q, A)[j].type = "snapshot"
      <4>1. PICK j \in 1 .. Len(q) : q[j].type = "snapshot"
        BY <1>4, <1>10, <3>2 DEF HealedBySnapshot, q
      <4>2. j \in 1 .. Len(q) + 1
        BY <2>3, <4>1
      <4> QED
        BY <2>3, <4>1, <4>2
    <3>3. Sound(c)' = Sound(c)
      BY <1>3 DEF Sound
    <3> QED
      BY <1>7, <2>4, <3>1, <3>2, <3>3 DEF HealedBySnapshot
  <2> QED
    BY <1>8, <2>6, <2>7, <2>8, <2>9 DEF ClientOK
<1> QED
  BY <1>9, <1>10

\* The queue with a new frame, behind the barrier or on the broadcast lane.
LEMMA QueueAppend ==
  ASSUME NEW q \in Lane, NEW s \in Lane, NEW f \in FrameRecord
  PROVE  /\ q \o Append(s, f) = Append(q \o s, f)
         /\ s = <<>> => Append(q, f) \o s = Append(q \o s, f)
<1>1. q \o Append(s, f) = Append(q \o s, f)
  BY DEF Lane
<1>2. ASSUME s = <<>> PROVE Append(q, f) \o s = Append(q \o s, f)
  <2>1. Append(q, f) \in Lane
    BY LaneAppend
  <2>2. Append(q, f) \o <<>> = Append(q, f) /\ q \o <<>> = q
    BY <2>1, ConcatEmptySeq DEF Lane
  <2> QED
    BY <1>2, <2>2
<1> QED
  BY <1>1, <1>2

\* A broadcast frame is enqueued for an open socket that has room for it.
LEMMA Enqueued ==
  ASSUME RoomTypes, NEW c \in Clients, LanesOK(c), NEW f \in FrameRecord, EnqueueBroadcast(c, f)
  PROVE  \/ ~conn[c].open /\ UNCHANGED <<conn, lanes>>
         \/ /\ conn' = [conn EXCEPT ![c].open = FALSE]
            /\ crit'[c] = <<>> /\ bcast'[c] = <<>> /\ pend'[c] = <<>>
         \/ /\ conn[c].open /\ UNCHANGED <<conn, crit>> /\ Queue(c)' = Append(Queue(c), f)
            /\ \/ conn[c].joining /\ pend'[c] = Append(pend[c], f) /\ bcast'[c] = bcast[c]
               \/ /\ ~conn[c].joining
                  /\ bcast'[c] = Append(bcast[c], f) /\ pend'[c] = pend[c]
<1>0. /\ crit \in [Clients -> Lane] /\ bcast \in [Clients -> Lane] /\ pend \in [Clients -> Lane]
      /\ bcast[c] \in Lane /\ pend[c] \in Lane
  BY DEF RoomTypes, Lane
<1>1. CASE ~conn[c].open /\ UNCHANGED <<conn, lanes>>
  BY <1>1
<1>2. CASE conn' = [conn EXCEPT ![c].open = FALSE] /\ Drop(c)
  BY <1>0, <1>2 DEF Drop
<1>3. CASE /\ conn[c].open
           /\ pend'  = IF Held(c) THEN [pend EXCEPT ![c] = Append(@, f)] ELSE pend
           /\ bcast' = IF Held(c) THEN bcast ELSE [bcast EXCEPT ![c] = Append(@, f)]
           /\ UNCHANGED <<conn, crit>>
  <2>1. CASE conn[c].joining
    <3>1. pend'[c] = Append(pend[c], f) /\ bcast'[c] = bcast[c]
      BY <1>0, <1>3, <2>1 DEF Held
    <3>2. Queue(c)' = Append(Queue(c), f)
      BY <1>0, <3>1, QueueAppend DEF Queue
    <3> QED
      BY <1>3, <2>1, <3>1, <3>2
  <2>2. CASE ~conn[c].joining
    <3>1. bcast'[c] = Append(bcast[c], f) /\ pend'[c] = pend[c] /\ pend[c] = <<>>
      BY <1>0, <1>3, <2>2 DEF Held, LanesOK
    <3>2. Queue(c)' = Append(Queue(c), f)
      BY <1>0, <3>1, QueueAppend DEF Queue
    <3> QED
      BY <1>3, <2>2, <3>1, <3>2
  <2> QED
    BY <2>1, <2>2
<1> QED
  BY <1>1, <1>2, <1>3 DEF EnqueueBroadcast

\* The fan-out sends the frame it is at to c: it follows what c was sent before.
LEMMA Sent ==
  ASSUME RoomTypes, RoomTypes', Pipeline, NEW c \in Clients, ClientOK(c), TrySendPrepared(c),
         out # <<>>
  PROVE  ClientOK(c)'
<1> DEFINE f == Head(out)
           k == last[c]
           cr == crit[c]
           j == JoinLevel(c)
           q == Queue(c)
<1>0. /\ conn \in [Clients -> ConnRecord] /\ conn[c] \in ConnRecord /\ out \in Lane
      /\ k \in Nat /\ cr \in Lane /\ bcast[c] \in Lane /\ pend[c] \in Lane
      /\ q \in Lane /\ j \in Nat /\ Passed(c) \in Int
      /\ cursor \in Nat /\ Len(log) \in Nat /\ cursor <= Len(log)
  BY ClientTypes DEF RoomTypes, Lane
<1>1. /\ sending = c /\ EnqueueBroadcast(c, f)
      /\ UNCHANGED <<log, cursor, out, patch, flight, last, gap, todo>>
  BY DEF TrySendPrepared, client
<1>2. /\ f \in FrameRecord /\ f = out[1] /\ Fresh(f) /\ f.to <= cursor
      /\ f.from \in Nat /\ f.to \in Nat
  BY <1>0, LaneTail, PassedInLog, FrameFields
<1>3. Passed(c) = f.from - 1 /\ (Passed(c)' = f.from - 1 \/ Passed(c)' = f.to)
  BY <1>1, <1>2 DEF Passed
<1>4. InLog(f)
  BY <1>0, <1>2 DEF InLog, Fresh
<1> HIDE DEF f
<1>5. PhaseOK(c) /\ LanesOK(c) /\ SnapshotsAdvance(c) /\ NoHole(c) /\ HealedBySnapshot(c)
  BY DEF ClientOK
<1>6. CASE ~conn[c].open /\ UNCHANGED <<conn, lanes>>
  <2>1. Untouched(c) /\ ~Sane(c) /\ Len(log) <= Len(log')
    BY <1>0, <1>1, <1>6 DEF Untouched, Sane, lanes
  <2>2. JoinLevel(c) <= JoinLevel(c)'
    BY <1>0, <1>1, <1>6 DEF JoinLevel
  <2> QED
    BY <1>1, <2>1, <2>2, Bystander
<1>7. CASE /\ conn' = [conn EXCEPT ![c].open = FALSE]
           /\ crit'[c] = <<>> /\ bcast'[c] = <<>> /\ pend'[c] = <<>>
  <2>1. /\ ~conn'[c].open /\ conn'[c].pc = conn[c].pc /\ conn'[c].joining = conn[c].joining
        /\ conn'[c].served = conn[c].served /\ conn'[c].member = conn[c].member
        /\ conn'[c].fresh = conn[c].fresh /\ conn'[c].arg = conn[c].arg
        /\ conn'[c].snap = conn[c].snap
    BY <1>0, <1>7 DEF ConnRecord
  <2>2. PhaseOK(c)'
    BY <1>1, <1>5, <2>1 DEF PhaseOK
  <2>3. conn[c].fresh /\ conn[c].pc \in {"init", "wait"} => last[c] <= JoinLevel(c)
    BY <1>5 DEF SnapshotsAdvance
  <2>4. JoinLevel(c)' = JoinLevel(c)
    BY <1>1, <2>1 DEF JoinLevel
  <2> QED
    BY <1>1, <1>7, <2>1, <2>2, <2>3, <2>4, Closed
<1>8. ASSUME conn[c].open, UNCHANGED <<conn, crit>>, Queue(c)' = Append(Queue(c), f),
             \/ conn[c].joining /\ pend'[c] = Append(pend[c], f) /\ bcast'[c] = bcast[c]
             \/ /\ ~conn[c].joining
                /\ bcast'[c] = Append(bcast[c], f) /\ pend'[c] = pend[c]
      PROVE  ClientOK(c)'
  <2>1. JoinLevel(c)' = JoinLevel(c)
    BY <1>1, <1>8 DEF JoinLevel
  <2>2. PhaseOK(c)'
    BY <1>1, <1>5, <1>8 DEF PhaseOK
  <2>3. LanesOK(c)'
    <3>1. ASSUME NEW s \in Lane, \A i \in 1 .. Len(s) : InLog(s[i]) /\ Fresh(s[i])
          PROVE  \A i \in 1 .. Len(Append(s, f)) :
                   InLog(Append(s, f)[i]) /\ Fresh(Append(s, f)[i])
      <4>1. /\ Len(s) \in Nat /\ Len(Append(s, f)) = Len(s) + 1
            /\ \A i \in 1 .. Len(s) : Append(s, f)[i] = s[i]
            /\ Append(s, f)[Len(s) + 1] = f
        BY <1>2, LaneAppend
      <4>2. \A i \in 1 .. Len(s) + 1 : i \in 1 .. Len(s) \/ i = Len(s) + 1
        BY <4>1
      <4> QED
        BY <1>2, <1>4, <3>1, <4>1, <4>2
    <3>2. /\ \A i \in 1 .. Len(bcast'[c]) : InLog(bcast'[c][i]) /\ Fresh(bcast'[c][i])
          /\ \A i \in 1 .. Len(pend'[c]) : InLog(pend'[c][i]) /\ Fresh(pend'[c][i])
      <4>1. /\ \A i \in 1 .. Len(bcast[c]) : InLog(bcast[c][i]) /\ Fresh(bcast[c][i])
            /\ \A i \in 1 .. Len(pend[c]) : InLog(pend[c][i]) /\ Fresh(pend[c][i])
        BY <1>5 DEF LanesOK
      <4> QED
        BY <1>0, <1>8, <3>1, <4>1
    <3>3. ~conn[c].joining => pend'[c] = <<>>
      BY <1>5, <1>8 DEF LanesOK
    <3> QED
      BY <1>1, <1>5, <1>8, <3>2, <3>3 DEF LanesOK, InLog, Fresh
  <2>4. SnapshotsAdvance(c)'
    <3>1. conn[c].pc \in {"init", "wait"} => bcast'[c] = bcast[c]
      BY <1>5, <1>8 DEF PhaseOK
    <3> QED
      BY <1>1, <1>5, <1>8, <2>1, <3>1 DEF SnapshotsAdvance
  <2>5. NoHole(c)'
    <3> SUFFICES ASSUME Sane(c)
                 PROVE  Unbroken(k, cr, j, Append(q, f)) /\ Meets(k, cr, j, Append(q, f), Passed(c)')
      BY <1>1, <1>8, <2>1 DEF NoHole, Sane
    <3>1. Unbroken(k, cr, j, q) /\ Meets(k, cr, j, q, f.from - 1)
      BY <1>3, <1>5 DEF NoHole
    <3> HIDE DEF k, cr, j, q
    <3>2. Unbroken(k, cr, j, Append(q, f)) /\ Meets(k, cr, j, Append(q, f), f.to)
      BY <1>0, <1>2, <3>1, QueueGrows
    <3>3. Passed(c)' \in Int /\ Passed(c)' <= f.to
      BY <1>2, <1>3 DEF Fresh
    <3>4. Append(q, f) \in Lane
      BY <1>0, <1>2, LaneAppend
    <3> QED
      BY <1>0, <1>2, <3>2, <3>3, <3>4, MeetsLess
  <2>6. HealedBySnapshot(c)'
    BY <1>1, <1>5, <1>8 DEF HealedBySnapshot, Sound
  <2> QED
    BY <2>2, <2>3, <2>4, <2>5, <2>6 DEF ClientOK
<1> QED
  BY <1>1, <1>2, <1>5, <1>6, <1>7, <1>8, Enqueued

\* The goroutine moves an event from the Stream to the patch, from there to the
\* broadcast, on to the next frame: for a member nothing has passed yet.
LEMMA PassedKept ==
  ASSUME RoomTypes, Pipeline, DeliveryAssumption, NEW c \in Clients, c \in Members
  PROVE  /\ \A others \in 0 .. MinViewers : Fanout(others) => Passed(c)' = Passed(c)
         /\ FlushAll => Passed(c)' = Passed(c)
         /\ BroadcastDone => Passed(c)' = Passed(c)
         /\ \A d \in Clients : EpochMatches(d) => Passed(c)' = Passed(c)
<1>0. /\ cursor \in Nat /\ out \in Lane /\ patch.from \in Nat /\ c # NoOne /\ Len(<<>>) = 0
  BY DEF RoomTypes, Lane, DeliveryAssumption
<1>1. ASSUME NEW others \in 0 .. MinViewers, Fanout(others)
      PROVE  Passed(c)' = Passed(c)
  <2>1. out = <<>> /\ cursor' = cursor + 1
    BY <1>1 DEF Fanout, Waiting
  <2>2. CASE /\ patch' = [from |-> IF patch = NoPatch THEN cursor + 1 ELSE patch.from,
                          to |-> cursor + 1]
             /\ UNCHANGED <<out, todo>>
    <3>1. patch' # NoPatch
      BY <1>0, <2>2 DEF NoPatch
    <3> QED
      BY <1>0, <2>1, <2>2, <3>1 DEF Passed
  <2>3. CASE out' = EventFrames(cursor + 1) /\ todo' = Members /\ patch' = NoPatch
    <3>1. Len(out') > 0 /\ out'[1].from - 1 = Passed(c)
      <4>1. cursor + 1 \in Nat
        BY <1>0
      <4>2. CASE patch = NoPatch
        <5>1. Len(out') = 1 /\ out'[1] = Frame("event", cursor + 1, cursor + 1)
          BY <2>3, <4>1, <4>2, BroadcastTypes
        <5>2. Passed(c) = cursor
          BY <2>1, <4>2 DEF Passed
        <5> QED
          BY <1>0, <5>1, <5>2 DEF Frame
      <4>3. CASE patch # NoPatch
        <5>1. Len(out') = 2 /\ out'[1] = Frame("patch", patch.from, patch.to)
          BY <2>3, <4>1, <4>3, BroadcastTypes
        <5>2. Passed(c) = patch.from - 1
          BY <2>1, <4>3 DEF Passed
        <5> QED
          BY <5>1, <5>2 DEF Frame
      <4> QED
        BY <4>2, <4>3
    <3>2. out' # <<>>
      BY <1>0, <3>1
    <3> QED
      BY <2>3, <3>1, <3>2 DEF Passed
  <2> QED
    BY <1>1, <2>2, <2>3 DEF Fanout
<1>2. ASSUME FlushAll PROVE Passed(c)' = Passed(c)
  <2>1. /\ patch # NoPatch /\ out = <<>> /\ out' = PatchFrames /\ todo' = Members
    BY <1>2 DEF FlushAll, Waiting
  <2>2. Len(out') > 0 /\ out'[1].from - 1 = Passed(c)
    <3>1. Len(out') = 1 /\ out'[1] = Frame("patch", patch.from, patch.to)
      BY <1>0, <2>1, BroadcastTypes
    <3>2. Passed(c) = patch.from - 1
      BY <2>1 DEF Passed
    <3> QED
      BY <3>1, <3>2 DEF Frame
  <2>3. out' # <<>>
    BY <1>0, <2>2
  <2> QED
    BY <2>1, <2>2, <2>3 DEF Passed
<1>3. ASSUME BroadcastDone PROVE Passed(c)' = Passed(c)
  <2>1. /\ out # <<>> /\ sending = NoOne /\ todo = {} /\ out' = Tail(out)
        /\ todo' = IF Tail(out) = <<>> THEN {} ELSE Members
        /\ UNCHANGED <<cursor, sending, patch>>
    BY <1>3 DEF BroadcastDone
  <2>2. /\ patch = NoPatch /\ Len(out) \in {1, 2} /\ out[Len(out)].to = cursor
        /\ Len(out) = 2 => out[2].from = out[1].to + 1
    BY <2>1 DEF Pipeline
  <2>3. Passed(c) = out[1].to
    BY <1>0, <2>1 DEF Passed
  <2>4. /\ Tail(out) \in Lane /\ Len(Tail(out)) = Len(out) - 1
        /\ \A i \in 1 .. Len(out) - 1 : Tail(out)[i] = out[i + 1]
    BY <1>0, <2>1, LaneTail
  <2>5. CASE Len(out) = 1
    <3>1. out' = <<>>
      BY <2>1, <2>4, <2>5, EmptySeq DEF Lane
    <3> QED
      BY <2>1, <2>2, <2>3, <2>5, <3>1 DEF Passed
  <2>6. CASE Len(out) = 2
    <3>1. 1 \in 1 .. Len(out) - 1 /\ 1 + 1 = 2 /\ 1 \in 1 .. Len(out)
      BY <2>6
    <3>2. out'[1] = out[2] /\ out' # <<>> /\ out[1].to \in Nat
      <4>1. out'[1] = out[2]
        BY <2>1, <2>4, <3>1
      <4>2. out' # <<>>
        <5>1. Len(Tail(out)) > 0
          BY <2>4, <2>6
        <5>2. ASSUME NEW q, Len(q) > 0 PROVE q # <<>>
          <6>1. CASE q = <<>>
            BY <5>2, <6>1
          <6> QED
            BY <6>1
        <5>3. Tail(out) # <<>>
          BY <5>1, <5>2, Zenon
        <5> QED
          BY <2>1, <5>3
      <4>3. out[1].to \in Nat
        BY <1>0, <3>1, LaneFrame
      <4> QED
        BY <4>1, <4>2, <4>3
    <3>3. out'[1].from - 1 = out[1].to
      BY <2>2, <2>6, <3>2
    <3> QED
      BY <2>1, <2>3, <3>2, <3>3 DEF Passed
  <2> QED
    BY <2>2, <2>5, <2>6
<1>4. ASSUME NEW d \in Clients, EpochMatches(d)
      PROVE  Passed(c)' = Passed(c)
  <2>1. /\ sending = NoOne /\ sending' = d /\ d \in todo /\ todo' = todo \ {d}
        /\ UNCHANGED <<cursor, out, patch>>
    BY <1>4 DEF EpochMatches
  <2>2. (c \in todo \/ sending = c) <=> (c \in todo' \/ sending' = c)
    BY <1>0, <2>1
  <2> QED
    BY <2>1, <2>2 DEF Passed
<1> QED
  BY <1>1, <1>2, <1>3, <1>4

\* So no client is owed more than before.
LEMMA GoroutineAside ==
  ASSUME RoomTypes, RoomTypes', Pipeline, DeliveryAssumption, NEW c \in Clients, ClientOK(c),
         Wake \/ FlushAll \/ BroadcastDone \/ \E d \in Clients : EpochMatches(d)
  PROVE  ClientOK(c)'
<1>0. Len(log) \in Nat /\ JoinLevel(c) \in Nat /\ conn[c].fresh \in BOOLEAN
  BY ClientTypes DEF RoomTypes, ConnRecord
<1>1. Sane(c) => c \in Members
  BY DEF Sane, Members, ClientOK, PhaseOK
<1>2. ASSUME NEW others \in 0 .. MinViewers, SeedCursor(others)
      PROVE  ClientOK(c)'
  <2>1. /\ CallSnapshot({Gateway}) /\ {Gateway} \subseteq Clients \cup {Gateway}
        /\ c \notin {Gateway}
        /\ UNCHANGED <<log, cursor, out, todo, sending, patch, conn, lanes, client>>
    BY <1>2 DEF SeedCursor, DeliveryAssumption
  <2>2. (c \in flight'.who <=> c \in flight.who) /\ JoinLevel(c)' = JoinLevel(c)
    BY <2>1, CallAside
  <2>3. Untouched(c) /\ Passed(c)' = Passed(c)
    BY <2>1 DEF Untouched, Passed, lanes, client
  <2> QED
    BY <1>0, <2>1, <2>2, <2>3, Bystander
<1>3. ASSUME UNCHANGED <<log, flight, conn, lanes, client>>, Sane(c) => Passed(c)' = Passed(c)
      PROVE  ClientOK(c)'
  <2>1. Untouched(c) /\ JoinLevel(c)' = JoinLevel(c)
    BY <1>3 DEF Untouched, JoinLevel, lanes, client
  <2> QED
    BY <1>0, <1>3, <2>1, Bystander
<1>4. ASSUME NEW others \in 0 .. MinViewers, Fanout(others)
      PROVE  ClientOK(c)'
  <2>1. UNCHANGED <<log, flight, conn, lanes, client>>
    BY <1>4 DEF Fanout
  <2> QED
    BY <1>1, <1>3, <1>4, <2>1, PassedKept
<1>5. CASE FlushAll
  <2>1. UNCHANGED <<log, flight, conn, lanes, client>>
    BY <1>5 DEF FlushAll
  <2> QED
    BY <1>1, <1>3, <1>5, <2>1, PassedKept
<1>6. CASE BroadcastDone
  <2>1. UNCHANGED <<log, flight, conn, lanes, client>>
    BY <1>6 DEF BroadcastDone
  <2> QED
    BY <1>1, <1>3, <1>6, <2>1, PassedKept
<1>7. ASSUME NEW d \in Clients, EpochMatches(d)
      PROVE  ClientOK(c)'
  <2>1. UNCHANGED <<log, flight, conn, lanes, client>>
    BY <1>7 DEF EpochMatches
  <2> QED
    BY <1>1, <1>3, <1>7, <2>1, PassedKept
<1> QED
  BY <1>2, <1>4, <1>5, <1>6, <1>7 DEF Wake

-----------------------------------------------------------------------------
(***************************************************************************)
(* The invariant, step by step.                                            *)
(***************************************************************************)

\* The steps of one client's socket.
SocketStep(c) ==
  \/ SocketLost(c) \/ Teardown(c) \/ WritePump(c) \/ RoomJoin(c) \/ JoinInit(c)
  \/ CatchupReadFails(c) \/ SpliceAndGoLive(c) \/ BidPlace(c) \/ PushAck(c)
  \/ TrySendPrepared(c)

\* The goroutine's and the Snapshot's.
SharedStep ==
  \/ ScriptElsewhere \/ Wake \/ FlushAll \/ BroadcastDone
  \/ \E c \in Clients : EpochMatches(c)
  \/ SnapshotRead \/ SnapshotDone \/ SnapshotFails

LEMMA StepCases ==
  ASSUME DeliveryNext
  PROVE  SharedStep \/ \E c \in Clients : SocketStep(c)
BY DEF DeliveryNext, SharedStep, SocketStep, Subscriber, Snapshot, Handler

\* The step of one client is not the step of another.
LEMMA OthersUntouched ==
  ASSUME RoomTypes, RoomTypes', Pipeline, DeliveryAssumption,
         NEW c \in Clients, SocketStep(c), NEW d \in Clients, d # c, ClientOK(d)
  PROVE  ClientOK(d)'
<1>0. /\ conn \in [Clients -> ConnRecord] /\ last \in [Clients -> Nat]
      /\ gap \in [Clients -> BOOLEAN] /\ crit \in [Clients -> Lane]
      /\ bcast \in [Clients -> Lane] /\ pend \in [Clients -> Lane] /\ Len(log) \in Nat
      /\ d # NoOne /\ JoinLevel(d) \in Nat
  BY ClientTypes DEF RoomTypes, Lane, DeliveryAssumption
<1>1. Untouched(d)
  <2>1. ASSUME Drop(c)
        PROVE  crit'[d] = crit[d] /\ bcast'[d] = bcast[d] /\ pend'[d] = pend[d]
    BY <1>0, <2>1 DEF Drop
  <2>2. ASSUME NEW fs, NEW closed, PushCritical(c, fs, closed)
        PROVE  crit'[d] = crit[d] /\ bcast'[d] = bcast[d] /\ pend'[d] = pend[d]
    BY <1>0, <2>1, <2>2 DEF PushCritical
  <2>3. ASSUME NEW f, Apply(c, f)
        PROVE  last'[d] = last[d] /\ gap'[d] = gap[d]
    BY <1>0, <2>3 DEF Apply, client
  <2>4. CASE SocketLost(c)
    BY <1>0, <2>1, <2>4 DEF SocketLost, Untouched, client
  <2>5. CASE Teardown(c)
    BY <1>0, <2>5 DEF Teardown, Untouched, lanes, client
  <2>6. CASE WriteCritical(c)
    BY <1>0, <2>3, <2>6 DEF WriteCritical, Untouched
  <2>7. CASE WriteBroadcast(c)
    BY <1>0, <2>3, <2>7 DEF WriteBroadcast, Untouched
  <2>8. CASE RoomJoin(c)
    BY <1>0, <2>8 DEF RoomJoin, Untouched, client
  <2>9. ASSUME NEW replay, PushInit(c, replay), UNCHANGED client
        PROVE  Untouched(d)
    BY <1>0, <2>2, <2>9 DEF PushInit, Untouched, client
  <2>10. CASE JoinInit(c) \/ CatchupReadFails(c)
    BY <2>9, <2>10 DEF JoinInit, CatchupReadFails
  <2>11. CASE SpliceAndGoLive(c)
    BY <1>0, <2>1, <2>11 DEF SpliceAndGoLive, Untouched, client
  <2>12. CASE BidPlace(c)
    BY <1>0, <2>12 DEF BidPlace, Untouched, lanes, client
  <2>13. CASE PushAck(c)
    BY <1>0, <2>2, <2>13 DEF PushAck, Untouched, client
  <2>14. CASE TrySendPrepared(c)
    BY <1>0, <2>1, <2>14 DEF TrySendPrepared, EnqueueBroadcast, Untouched, lanes, client
  <2> QED
    BY <2>4, <2>5, <2>6, <2>7, <2>8, <2>10, <2>11, <2>12, <2>13, <2>14 DEF SocketStep, WritePump
<1>2. CASE RoomJoin(c)
  <2>1. /\ CallSnapshot({c}) /\ {c} \subseteq Clients \cup {Gateway} /\ d \notin {c}
        /\ UNCHANGED <<log, cursor, out, sending, patch>> /\ (d \in todo' <=> d \in todo)
    BY <1>2 DEF RoomJoin
  <2>2. (d \in flight'.who <=> d \in flight.who) /\ JoinLevel(d)' = JoinLevel(d)
    BY <1>1, <2>1, CallAside DEF Untouched
  <2>3. Passed(d)' = Passed(d)
    BY <2>1, PassedAlone
  <2> QED
    BY <1>0, <1>1, <2>1, <2>2, <2>3, Bystander
<1>3. CASE TrySendPrepared(c)
  <2>1. /\ sending = c /\ sending' = NoOne
        /\ UNCHANGED <<log, cursor, out, todo, patch, flight>>
    BY <1>3 DEF TrySendPrepared
  <2>2. Passed(d)' = Passed(d) /\ JoinLevel(d)' = JoinLevel(d)
    BY <1>0, <1>1, <2>1 DEF Passed, JoinLevel, Untouched
  <2> QED
    BY <1>0, <1>1, <2>1, <2>2, Bystander
<1>4. CASE /\ UNCHANGED <<flight, cursor, out, patch, sending>> /\ (d \in todo' <=> d \in todo)
           /\ Len(log) <= Len(log')
  BY <1>1, <1>4, Elsewhere
<1>5. CASE BidPlace(c)
  <2>1. \E es \in BidAppends \cup {<<"SOLD">>} : Appended(es)
    BY <1>5 DEF BidPlace
  <2>2. Len(log) <= Len(log')
    BY <2>1, AppendTypes
  <2> QED
    BY <1>4, <1>5, <2>2 DEF BidPlace, streamVars
<1>6. CASE SocketLost(c) \/ Teardown(c) \/ WritePump(c) \/ SpliceAndGoLive(c) \/ PushAck(c)
           \/ JoinInit(c) \/ CatchupReadFails(c)
  <2>1. UNCHANGED <<flight, cursor, out, patch, sending, log>> /\ (d \in todo' <=> d \in todo)
    BY <1>6 DEF SocketLost, Teardown, WritePump, WriteCritical, WriteBroadcast,
                SpliceAndGoLive, PushAck, JoinInit, CatchupReadFails, streamVars
  <2> QED
    BY <1>0, <1>4, <2>1
<1> QED
  BY <1>2, <1>3, <1>5, <1>6 DEF SocketStep

LEMMA TypesStep ==
  ASSUME RoomTypes, Pipeline, DeliveryAssumption, [DeliveryNext]_dvars
  PROVE  RoomTypes'
<1>1. ASSUME NEW c \in Clients, SocketStep(c) PROVE RoomTypes'
  <2>1. CASE TrySendPrepared(c)
    BY <2>1, PipelineGoroutine, SocketTypes
  <2>2. CASE SocketLost(c) \/ Teardown(c) \/ WritePump(c) \/ RoomJoin(c)
    BY <2>2, SocketTypes
  <2>3. CASE \/ JoinInit(c) \/ CatchupReadFails(c) \/ SpliceAndGoLive(c)
             \/ BidPlace(c) \/ PushAck(c)
    BY <2>3, HandlerTypes
  <2> QED
    BY <1>1, <2>1, <2>2, <2>3 DEF SocketStep
<1>2. CASE SharedStep
  BY <1>2, StreamTypes, SnapshotTypes DEF SharedStep
<1>3. CASE UNCHANGED dvars
  BY <1>3, StreamTypes
<1> QED
  BY <1>1, <1>2, <1>3, StepCases

LEMMA PipelineStep ==
  ASSUME RoomTypes, Pipeline, DeliveryAssumption, [DeliveryNext]_dvars
  PROVE  Pipeline'
<1>1. ASSUME NEW c \in Clients, SocketStep(c) PROVE Pipeline'
  <2>1. CASE TrySendPrepared(c)
    BY <2>1, PipelineGoroutine
  <2>2. CASE Teardown(c) \/ RoomJoin(c)
    BY <2>2, PipelineSnapshot
  <2>3. CASE \/ SocketLost(c) \/ WritePump(c) \/ JoinInit(c) \/ CatchupReadFails(c)
             \/ SpliceAndGoLive(c) \/ BidPlace(c) \/ PushAck(c)
    <3>1. UNCHANGED FanoutVars
      BY <2>3 DEF SocketLost, WritePump, WriteCritical, WriteBroadcast, JoinInit,
                  CatchupReadFails, SpliceAndGoLive, BidPlace, PushAck, streamVars, FanoutVars
    <3> QED
      BY <3>1, PipelineAlone
  <2> QED
    BY <1>1, <2>1, <2>2, <2>3 DEF SocketStep
<1>2. CASE ScriptElsewhere \/ UNCHANGED dvars
  <2>1. UNCHANGED FanoutVars
    BY <1>2 DEF ScriptElsewhere, streamVars, FanoutVars, dvars
  <2> QED
    BY <2>1, PipelineAlone
<1>3. CASE \/ Wake \/ FlushAll \/ BroadcastDone \/ \E c \in Clients : EpochMatches(c)
  BY <1>3, PipelineGoroutine
<1>4. CASE SnapshotRead \/ SnapshotDone \/ SnapshotFails
  BY <1>4, PipelineSnapshot
<1> QED
  BY <1>1, <1>2, <1>3, <1>4, StepCases DEF SharedStep

LEMMA ClientStep ==
  ASSUME RoomTypes, RoomTypes', Pipeline, DeliveryAssumption, [DeliveryNext]_dvars,
         \A c \in Clients : ClientOK(c)
  PROVE  \A c \in Clients : ClientOK(c)'
<1> SUFFICES ASSUME NEW c \in Clients PROVE ClientOK(c)'
  OBVIOUS
<1>0. ClientOK(c) /\ Len(log) \in Nat
  BY DEF RoomTypes
<1>1. CASE SocketStep(c)
  BY <1>0, <1>1, LostAndTornDown, DirectFrameWritten, BroadcastFrameWritten, Joined, JoinAnswered,
     WentLive, BidPlaced, AckPushed, Sent, PipelineGoroutine DEF SocketStep, WritePump
<1>2. ASSUME NEW d \in Clients, d # c, SocketStep(d) PROVE ClientOK(c)'
  BY <1>0, <1>2, OthersUntouched
<1>3. CASE ScriptElsewhere \/ UNCHANGED dvars
  <2>1. Len(log) <= Len(log')
    BY <1>0, <1>3, AppendTypes DEF ScriptElsewhere, dvars
  <2>2. Untouched(c) /\ UNCHANGED <<flight, cursor, out, patch, sending, todo>>
    BY <1>3 DEF ScriptElsewhere, dvars, streamVars, lanes, client, Untouched
  <2> QED
    BY <1>0, <2>1, <2>2, Elsewhere
<1>4. CASE \/ Wake \/ FlushAll \/ BroadcastDone \/ \E d \in Clients : EpochMatches(d)
  BY <1>0, <1>4, GoroutineAside
<1>5. CASE SnapshotRead \/ SnapshotDone \/ SnapshotFails
  BY <1>0, <1>5, ReadMade, Answered, Unanswered
<1> QED
  BY <1>1, <1>2, <1>3, <1>4, <1>5, StepCases DEF SharedStep

LEMMA RoomInvInit ==
  ASSUME DeliveryInit, DeliveryAssumption
  PROVE  RoomInv
<1>0. <<>> \in Lane /\ Len(<<>>) = 0 /\ 1 .. 0 = {} /\ \A T : <<>> \in Seq(T)
  BY DEF Lane
<1>1. RoomTypes
  <2>1. Offline \in ConnRecord
    BY DEF Offline, ConnRecord
  <2>2. conn \in [Clients -> ConnRecord]
    BY <2>1 DEF DeliveryInit
  <2>3. LaneTypes
    BY <1>0 DEF DeliveryInit, LaneTypes
  <2>4. last \in [Clients -> Nat] /\ gap \in [Clients -> BOOLEAN] /\ affinity \in BOOLEAN
    BY DEF DeliveryInit, DeliveryAssumption
  <2>5. flight \in FlightRecord /\ flight.seq <= Len(log)
    BY <1>0, NoFlightTypes DEF DeliveryInit
  <2>6. patch \in [from : Nat, to : Nat]
    BY DEF DeliveryInit, NoPatch
  <2>7. log \in Seq({"BID", "CAP_BID", "EXTENDED", "SOLD"}) /\ cursor \in Nat
        /\ cursor <= Len(log)
    BY <1>0 DEF DeliveryInit
  <2>8. out \in Seq(FrameRecord) /\ todo \subseteq Clients /\ sending \in Clients \cup {NoOne}
    BY <1>0 DEF DeliveryInit
  <2>9. seeded \in BOOLEAN /\ seeding \in BOOLEAN
    BY DEF DeliveryInit
  <2> QED
    BY <2>2, <2>3, <2>4, <2>5, <2>6, <2>7, <2>8, <2>9 DEF RoomTypes, LaneTypes, Lane
<1>2. Pipeline
  BY NoFlightTypes DEF DeliveryInit, Pipeline
<1>3. ASSUME NEW c \in Clients PROVE ClientOK(c)
  <2>1. /\ conn[c] = Offline /\ crit[c] = <<>> /\ bcast[c] = <<>> /\ pend[c] = <<>>
        /\ last[c] = 0 /\ ~gap[c] /\ flight = NoFlight /\ Len(log) = 0
    BY <1>0 DEF DeliveryInit
  <2>2. PhaseOK(c) /\ LanesOK(c)
    BY <1>0, <2>1, NoFlightTypes DEF PhaseOK, LanesOK, Offline
  <2>3. SnapshotsAdvance(c) /\ NoHole(c) /\ HealedBySnapshot(c)
    BY <1>0, <2>1 DEF SnapshotsAdvance, NoHole, HealedBySnapshot, Sane, Offline
  <2> QED
    BY <2>2, <2>3 DEF ClientOK
<1> QED
  BY <1>1, <1>2, <1>3 DEF RoomInv

\* The invariant holds of every behaviour of the room.
LEMMA RoomInvariant ==
  DeliverySpec => []RoomInv
<1>1. DeliveryInit => RoomInv
  BY RoomInvInit, DeliveryAssumption
<1>2. RoomInv /\ [DeliveryNext]_dvars => RoomInv'
  BY TypesStep, PipelineStep, ClientStep, DeliveryAssumption DEF RoomInv
<1> QED
  BY <1>1, <1>2, PTL DEF DeliverySpec

-----------------------------------------------------------------------------
(***************************************************************************)
(* What the clients are shown.                                             *)
(***************************************************************************)

\* The join barrier and the order of the lanes: no snapshot ever takes a client
\* whose join read the state after it became a member back to an older seq
\* (spliceAndGoLive, writePump, handleWS).
THEOREM SnapshotsNeverRegress ==
  DeliverySpec => NeverRegresses
<1>1. ASSUME RoomInv, [DeliveryNext]_dvars, NEW c \in Clients, conn[c].fresh
      PROVE  last'[c] >= last[c]
  <2>0. RoomTypes /\ RoomTypes' /\ ClientOK(c) /\ last[c] \in Nat /\ last'[c] \in Nat
    BY <1>1, TypesStep, DeliveryAssumption DEF RoomInv, RoomTypes
  <2>1. CASE WritePump(c)
    BY <1>1, <2>0, <2>1, DirectFrameWritten, BroadcastFrameWritten DEF WritePump
  <2>2. ASSUME NEW d \in Clients, WritePump(d), d # c PROVE last'[c] = last[c]
    BY <2>0, <2>2 DEF WritePump, WriteCritical, WriteBroadcast, Apply, client, RoomTypes
  <2>3. CASE last' = last
    BY <2>0, <2>3
  <2>4. ASSUME NEW d \in Clients, SocketStep(d), ~WritePump(d) PROVE last' = last
    BY <2>4 DEF SocketStep, SocketLost, Teardown, RoomJoin, JoinInit, CatchupReadFails,
                SpliceAndGoLive, BidPlace, PushAck, TrySendPrepared, client
  <2>5. SharedStep \/ UNCHANGED dvars => last' = last
    BY DEF SharedStep, ScriptElsewhere, Wake, SeedCursor, Fanout, FlushAll, BroadcastDone,
           EpochMatches, SnapshotRead, SnapshotDone, SnapshotFails, client, dvars
  <2> QED
    BY <1>1, <2>0, <2>1, <2>2, <2>3, <2>4, <2>5, StepCases
<1>2. RoomInv /\ [DeliveryNext]_dvars =>
        [\A c \in Clients : conn[c].fresh => last'[c] >= last[c]]_dvars
  BY <1>1
<1> QED
  BY <1>2, RoomInvariant, PTL DEF DeliverySpec, NeverRegresses

\* No broadcast frame, single event or coalesced patch, makes a client whose
\* join was sound jump over an event (enqueueBroadcast, offer, flushAid).
THEOREM NoGapIsShown ==
  DeliverySpec => []NoGap
<1>1. RoomInv => NoGap
  <2> SUFFICES ASSUME RoomInv, NEW c \in Clients, conn[c].open, Sound(c), crit[c] = <<>>, gap[c]
               PROVE  FALSE
    BY DEF NoGap
  <2>1. \E j \in 1 .. Len(crit[c]) : crit[c][j].type = "snapshot"
    BY DEF RoomInv, ClientOK, HealedBySnapshot
  <2> QED
    BY <2>1
<1> QED
  BY <1>1, RoomInvariant, PTL

\* Never a silent loss: when the gateway is quiet, an open socket with a sound
\* join has shown its client the newest event or holds a frame that reaches it
\* (enqueueBroadcast on a full lane, spliceAndGoLive, gatewayHostsRoom).
THEOREM NothingIsLostSilently ==
  DeliverySpec => []NoSilentLoss
<1>1. RoomInv => NoSilentLoss
  <2> SUFFICES ASSUME RoomInv, NEW c \in Clients, Settled(c), Sound(c)
               PROVE  Synced(c)
    BY DEF NoSilentLoss
  <2>1. /\ RoomTypes /\ PhaseOK(c) /\ LanesOK(c) /\ NoHole(c)
    BY DEF RoomInv, ClientOK
  <2>2. /\ crit[c] \in Lane /\ bcast[c] \in Lane /\ last[c] \in Nat /\ Len(log) \in Nat
        /\ last[c] <= Len(log)
    BY <2>1, ClientTypes DEF PhaseOK
  <2>3. Sane(c) /\ JoinLevel(c) = 0 /\ Passed(c) = Len(log) /\ pend[c] = <<>>
    BY <2>1 DEF Settled, Quiet, Waiting, Sound, Sane, JoinLevel, Passed, PhaseOK, LanesOK
  <2>4. Queue(c) = bcast[c]
    BY <2>2, <2>3, ConcatEmptySeq DEF Queue, Lane
  <2>5. Meets(last[c], crit[c], 0, bcast[c], Len(log))
    BY <2>1, <2>3, <2>4 DEF NoHole
  <2>6. CASE Len(log) <= last[c] \/ Len(log) <= 0
    BY <2>2, <2>6 DEF Synced
  <2>7. CASE Reaches(crit[c], Len(log))
    <3>1. PICK i \in 1 .. Len(crit[c]) : Len(log) <= crit[c][i].to
      BY <2>7 DEF Reaches
    <3>2. crit[c][i].to <= Len(log) /\ crit[c][i].to \in Nat
      BY <2>1, <2>2, LaneFrame DEF LanesOK, InLog
    <3>3. crit[c][i].to = Len(log)
      BY <2>2, <3>1, <3>2
    <3> QED
      BY <3>3 DEF Synced
  <2>8. CASE Reaches(bcast[c], Len(log))
    <3>1. PICK i \in 1 .. Len(bcast[c]) : Len(log) <= bcast[c][i].to
      BY <2>8 DEF Reaches
    <3>2. bcast[c][i].to <= Len(log) /\ bcast[c][i].to \in Nat
      BY <2>1, <2>2, LaneFrame DEF LanesOK, InLog
    <3>3. bcast[c][i].to = Len(log)
      BY <2>2, <3>1, <3>2
    <3> QED
      BY <3>3 DEF Synced
  <2> QED
    BY <2>5, <2>6, <2>7, <2>8 DEF Meets, Covers
<1> QED
  BY <1>1, RoomInvariant, PTL
=============================================================================
