------------------------------ MODULE LineProofs ------------------------------
(***************************************************************************)
(* The ring of EventRing is the lossy line of LossyTrace: the published    *)
(* slots of a queue always lie one after the other from the reader's       *)
(* cursor to where its producer publishes next (LineInv), across           *)
(* wrap-around of both cursors, so an event is dropped only when every     *)
(* slot is published, and records leave in the order in which they were    *)
(* published.  As in EventRingProofs, no signal handler makes a hooked     *)
(* call (MaxNest = 0).                                                     *)
(***************************************************************************)
EXTENDS EventRingProofs, SequenceTheorems

-----------------------------------------------------------------------------
(* Slots around a ring.                                                    *)

LEMMA FromSlot ==
  ASSUME NEW r \in Slots, NEW n \in 0 .. QueueSize
  PROVE  From(r, n) \in Slots /\ From(r, 0) = r /\ From(r, QueueSize) = r
  BY SizeAssumption DEF From, Slots

(* Going round the ring meets no slot twice, ...                           *)
LEMMA FromOnce ==
  ASSUME NEW r \in Slots, NEW m \in 0 .. QueueSize - 1, NEW n \in 0 .. QueueSize - 1,
         From(r, m) = From(r, n)
  PROVE  m = n
  BY SizeAssumption DEF From, Slots

(* ... and every slot once.                                                *)
LEMMA FromAll ==
  ASSUME NEW r \in Slots, NEW s \in Slots
  PROVE  \E m \in 0 .. QueueSize - 1 : From(r, m) = s
<1>. DEFINE m == IF s >= r THEN s - r ELSE s - r + QueueSize
<1>1. m \in 0 .. QueueSize - 1 /\ From(r, m) = s
  BY SizeAssumption DEF From, Slots
<1>. QED  BY <1>1

LEMMA FromNext ==
  ASSUME NEW r \in Slots, NEW n \in 0 .. QueueSize - 1
  PROVE  After(From(r, n)) = From(r, n + 1) /\ From(After(r), n) = From(r, n + 1)
  BY SizeAssumption DEF From, After, Slots

(* A published stretch has one length, and Unreleased is it.               *)
LEMMA UnreleasedIs ==
  ASSUME NEW flags, NEW r \in Slots, NEW n \in 0 .. QueueSize, PublishedFrom(flags, r, n)
  PROVE  Unreleased(flags, r) = n
<1>. DEFINE P(k) == /\ \A m \in 0 .. k - 1 : flags[From(r, m)]
                    /\ k < QueueSize => ~flags[From(r, k)]
<1>1. P(n)
  BY SizeAssumption DEF PublishedFrom
<1>2. ASSUME NEW k \in 0 .. QueueSize, P(k) PROVE k = n
  <2>1. CASE k < n
    BY <1>2, <2>1, SizeAssumption DEF PublishedFrom
  <2>2. CASE n < k
    <3>1. n \in 0 .. k - 1 /\ n \in 0 .. QueueSize - 1
      BY <2>2, SizeAssumption
    <3>. QED  BY <1>2, <3>1 DEF PublishedFrom
  <2>. QED  BY <2>1, <2>2
<1>3. Unreleased(flags, r) = CHOOSE k \in 0 .. QueueSize : P(k)
  BY DEF Unreleased
<1>. HIDE DEF P
<1>. QED  BY <1>1, <1>2, <1>3

(* Publishing the slot behind the stretch, releasing the one at its head.  *)
LEMMA PublishOne ==
  ASSUME NEW flags \in [Slots -> BOOLEAN], NEW r \in Slots, NEW n \in 0 .. QueueSize - 1,
         PublishedFrom(flags, r, n)
  PROVE  PublishedFrom([flags EXCEPT ![From(r, n)] = TRUE], r, n + 1)
<1>. DEFINE g == [flags EXCEPT ![From(r, n)] = TRUE]
<1>. SUFFICES ASSUME NEW m \in 0 .. QueueSize - 1
              PROVE  g[From(r, m)] <=> m < n + 1
  BY DEF PublishedFrom
<1>1. From(r, m) \in Slots /\ From(r, n) \in Slots
  BY FromSlot, SizeAssumption
<1>2. flags[From(r, m)] <=> m < n
  BY DEF PublishedFrom
<1>3. CASE m = n
  BY <1>1, <1>3
<1>4. CASE m # n
  <2>1. From(r, m) # From(r, n)
    BY <1>4, FromOnce
  <2>2. g[From(r, m)] = flags[From(r, m)]
    BY <1>1, <2>1
  <2>3. m < n + 1 <=> m < n
    BY <1>4, SizeAssumption
  <2>. QED  BY <1>2, <2>2, <2>3
<1>. QED  BY <1>3, <1>4

LEMMA ReleaseOne ==
  ASSUME NEW flags \in [Slots -> BOOLEAN], NEW r \in Slots, NEW n \in 1 .. QueueSize,
         PublishedFrom(flags, r, n)
  PROVE  PublishedFrom([flags EXCEPT ![r] = FALSE], After(r), n - 1)
<1>. DEFINE g == [flags EXCEPT ![r] = FALSE]
<1>. SUFFICES ASSUME NEW m \in 0 .. QueueSize - 1
              PROVE  g[From(After(r), m)] <=> m < n - 1
  BY DEF PublishedFrom
<1>1. From(After(r), m) = From(r, m + 1) /\ From(r, 0) = r
  BY FromNext, FromSlot, SizeAssumption
<1>2. CASE m = QueueSize - 1
  <2>1. From(r, m + 1) = r
    BY <1>2, FromSlot, SizeAssumption
  <2>. QED  BY <1>1, <1>2, <2>1, SizeAssumption
<1>3. CASE m # QueueSize - 1
  <2>1. m + 1 \in 0 .. QueueSize - 1 /\ m + 1 # 0
    BY <1>3, SizeAssumption
  <2>2. From(r, m + 1) # r /\ From(r, m + 1) \in Slots
    <3>1. 0 \in 0 .. QueueSize - 1
      BY SizeAssumption
    <3>. QED  BY <1>1, <2>1, <3>1, FromOnce, FromSlot, SizeAssumption
  <2>3. g[From(r, m + 1)] <=> m + 1 < n
    BY <2>1, <2>2 DEF PublishedFrom
  <2>. QED  BY <1>1, <2>1, <2>3
<1>. QED  BY <1>2, <1>3

-----------------------------------------------------------------------------
(* What the slots of a stretch hold.                                       *)

LEMMA ContentsSeq ==
  ASSUME NEW recs \in [Slots -> Records], NEW r \in Slots,
         NEW n \in 0 .. QueueSize, NEW e \in {0, 1}, e <= n
  PROVE  /\ Contents(recs, r, n, e) \in Seq(Records)
         /\ Len(Contents(recs, r, n, e)) = n - e
         /\ \A k \in 1 .. n - e : Contents(recs, r, n, e)[k] = recs[From(r, k + e - 1)]
<1>1. n - e \in Nat
  OBVIOUS
<1>2. \A k \in 1 .. n - e : recs[From(r, k + e - 1)] \in Records
  <2>. SUFFICES ASSUME NEW k \in 1 .. n - e PROVE recs[From(r, k + e - 1)] \in Records
    OBVIOUS
  <2>1. k + e - 1 \in 0 .. QueueSize
    BY SizeAssumption
  <2>. QED  BY <2>1, FromSlot
<1>. QED  BY <1>1, <1>2 DEF Contents

(* They are the same if the slots are.                                     *)
LEMMA ContentsSame ==
  ASSUME NEW recs, NEW other, NEW r, NEW n \in 0 .. QueueSize, NEW e \in {0, 1}, e <= n,
         \A m \in 0 .. n - 1 : recs[From(r, m)] = other[From(r, m)]
  PROVE  Contents(recs, r, n, e) = Contents(other, r, n, e)
<1>1. \A k \in 1 .. n - e : k + e - 1 \in 0 .. n - 1
  OBVIOUS
<1>. QED  BY <1>1 DEF Contents

LEMMA ContentsAccept ==
  ASSUME NEW recs \in [Slots -> Records], NEW r \in Slots,
         NEW n \in 0 .. QueueSize - 1, NEW e \in {0, 1}, e <= n
  PROVE  Contents(recs, r, n + 1, e) = Append(Contents(recs, r, n, e), recs[From(r, n)])
<1>. DEFINE a == Contents(recs, r, n, e)
            b == Contents(recs, r, n + 1, e)
            x == recs[From(r, n)]
<1>. n \in 0 .. QueueSize /\ n + 1 \in 0 .. QueueSize /\ e <= n + 1
  BY SizeAssumption
<1>1. /\ a \in Seq(Records) /\ Len(a) = n - e
      /\ \A k \in 1 .. n - e : a[k] = recs[From(r, k + e - 1)]
  BY ContentsSeq
<1>2. /\ b \in Seq(Records) /\ Len(b) = n + 1 - e
      /\ \A k \in 1 .. n + 1 - e : b[k] = recs[From(r, k + e - 1)]
  <2>1. ASSUME NEW p \in 0 .. QueueSize, e <= p
        PROVE  /\ Contents(recs, r, p, e) \in Seq(Records)
               /\ Len(Contents(recs, r, p, e)) = p - e
               /\ \A k \in 1 .. p - e :
                    Contents(recs, r, p, e)[k] = recs[From(r, k + e - 1)]
    BY <2>1, ContentsSeq
  <2>. QED  BY <2>1
<1>3. x \in Records
  BY FromSlot, SizeAssumption
<1>. HIDE DEF a, b
<1>4. /\ Append(a, x) \in Seq(Records) /\ Len(Append(a, x)) = n + 1 - e
      /\ \A k \in 1 .. n - e : Append(a, x)[k] = a[k]
      /\ Append(a, x)[n + 1 - e] = x
  BY <1>1, <1>3
<1>5. \A k \in 1 .. n + 1 - e : b[k] = Append(a, x)[k]
  <2>. SUFFICES ASSUME NEW k \in 1 .. n + 1 - e PROVE b[k] = Append(a, x)[k]
    OBVIOUS
  <2>1. CASE k = n + 1 - e
    <3>1. k + e - 1 = n
      BY <2>1
    <3>. QED  BY <1>2, <1>4, <2>1, <3>1
  <2>2. CASE k # n + 1 - e
    <3>1. k \in 1 .. n - e
      BY <2>2
    <3>. QED  BY <1>1, <1>2, <1>4, <3>1
  <2>. QED  BY <2>1, <2>2
<1>6. b = Append(a, x)
  BY <1>2, <1>4, <1>5, SeqEqual
<1>. QED  BY <1>6 DEF a, b

(* The first record is written ...                                         *)
LEMMA ContentsWrite ==
  ASSUME NEW recs \in [Slots -> Records], NEW r \in Slots, NEW n \in 1 .. QueueSize
  PROVE  /\ Contents(recs, r, n, 0) # <<>>
         /\ Contents(recs, r, n, 0)[1] = recs[r]
         /\ Contents(recs, r, n, 1) =
              SubSeq(Contents(recs, r, n, 0), 2, Len(Contents(recs, r, n, 0)))
<1>. DEFINE a == Contents(recs, r, n, 0)
            b == Contents(recs, r, n, 1)
<1>. n \in 0 .. QueueSize /\ 0 <= n /\ 1 <= n /\ 0 \in {0, 1} /\ 1 \in {0, 1}
  BY SizeAssumption
<1>1. /\ a \in Seq(Records) /\ Len(a) = n
      /\ \A k \in 1 .. n : a[k] = recs[From(r, k - 1)]
  <2>1. /\ a \in Seq(Records) /\ Len(a) = n - 0
        /\ \A k \in 1 .. n - 0 : a[k] = recs[From(r, k + 0 - 1)]
    BY ContentsSeq
  <2>. QED  BY <2>1
<1>2. /\ b \in Seq(Records) /\ Len(b) = n - 1
      /\ \A k \in 1 .. n - 1 : b[k] = recs[From(r, k)]
  <2>1. /\ b \in Seq(Records) /\ Len(b) = n - 1
        /\ \A k \in 1 .. n - 1 : b[k] = recs[From(r, k + 1 - 1)]
    BY ContentsSeq
  <2>. QED  BY <2>1
<1>. HIDE DEF a, b
<1>3. a # <<>> /\ a[1] = recs[r]
  <2>1. a[1] = recs[From(r, 0)]
    BY <1>1
  <2>. QED  BY <1>1, <2>1, FromSlot, SizeAssumption
<1>4. /\ SubSeq(a, 2, n) \in Seq(Records) /\ Len(SubSeq(a, 2, n)) = n - 1
      /\ \A k \in 1 .. n - 1 : SubSeq(a, 2, n)[k] = a[k + 1]
  BY <1>1
<1>5. \A k \in 1 .. n - 1 : b[k] = SubSeq(a, 2, n)[k]
  <2>. SUFFICES ASSUME NEW k \in 1 .. n - 1 PROVE b[k] = SubSeq(a, 2, n)[k]
    OBVIOUS
  <2>1. k + 1 \in 1 .. n /\ (k + 1) - 1 = k
    OBVIOUS
  <2>. QED  BY <1>1, <1>2, <1>4, <2>1
<1>6. b = SubSeq(a, 2, n)
  BY <1>2, <1>4, <1>5, SeqEqual
<1>. QED  BY <1>1, <1>3, <1>6 DEF a, b

(* ... and then its slot released.                                         *)
LEMMA ContentsRelease ==
  ASSUME NEW recs \in [Slots -> Records], NEW r \in Slots, NEW n \in 1 .. QueueSize
  PROVE  Contents(recs, After(r), n - 1, 0) = Contents(recs, r, n, 1)
<1>1. \A k \in 1 .. n - 1 : From(After(r), k - 1) = From(r, k)
  <2>. SUFFICES ASSUME NEW k \in 1 .. n - 1 PROVE From(After(r), k - 1) = From(r, k)
    OBVIOUS
  <2>1. k - 1 \in 0 .. QueueSize - 1 /\ (k - 1) + 1 = k
    BY SizeAssumption
  <2>. QED  BY <2>1, FromNext
<1>2. \A k \in 1 .. n - 1 : k + 0 - 1 = k - 1 /\ k + 1 - 1 = k
  OBVIOUS
<1>3. (n - 1) - 0 = n - 1
  OBVIOUS
<1>. QED  BY <1>1, <1>2, <1>3 DEF Contents

-----------------------------------------------------------------------------
(* The stretch of a queue.                                                 *)

LEMMA LineTypes ==
  ASSUME LineInv
  PROVE  /\ RingInv /\ Carried /\ TypeOK
         /\ \A q \in Queues : InLine(q) /\ /\ ready[q] \in [Slots -> BOOLEAN]
                                           /\ slots[q] \in [Slots -> Records]
                                           /\ read_heads[q] \in Slots
                                           /\ write_head[q] \in Slots
         /\ ready \in [Queues -> [Slots -> BOOLEAN]]
         /\ slots \in [Queues -> [Slots -> Records]]
         /\ read_heads \in [Queues -> Slots]
  BY DEF LineInv, RingInv, TypeOK

(* The slot the reader is at is the first of its stretch.                  *)
LEMMA HeadPublished ==
  ASSUME RingInv, rd.pc \in Reading, NEW n \in 0 .. QueueSize,
         PublishedFrom(ready[rd.i], read_heads[rd.i], n)
  PROVE  n \in 1 .. QueueSize /\ n >= 1
<1>1. read_heads[rd.i] \in Slots /\ ready[rd.i][read_heads[rd.i]]
  BY ReaderInside, ReaderTypes DEF ReaderOwnsSlot, ReadSlot
<1>2. From(read_heads[rd.i], 0) = read_heads[rd.i] /\ 0 \in 0 .. QueueSize - 1
  BY <1>1, FromSlot, SizeAssumption
<1>. QED  BY <1>1, <1>2, SizeAssumption DEF PublishedFrom

LEMMA Stretch ==
  ASSUME LineInv, NEW q \in Queues
  PROVE  \E n \in 0 .. QueueSize :
           /\ PublishedFrom(ready[q], read_heads[q], n)
           /\ EndsAt(q, From(read_heads[q], n))
           /\ Unreleased(ready[q], read_heads[q]) = n
           /\ Emitted(q) \in {0, 1} /\ Emitted(q) <= n
<1>1. PICK n \in 0 .. QueueSize :
        PublishedFrom(ready[q], read_heads[q], n) /\ EndsAt(q, From(read_heads[q], n))
  BY LineTypes DEF InLine
<1>2. read_heads[q] \in Slots
  BY LineTypes
<1>3. Unreleased(ready[q], read_heads[q]) = n
  BY <1>1, <1>2, UnreleasedIs
<1>4. Emitted(q) = 1 => n >= 1
  <2>. SUFFICES ASSUME Emitted(q) = 1 PROVE n >= 1
    OBVIOUS
  <2>1. rd.i = q /\ rd.pc \in Reading
    BY DEF Emitted, Reading
  <2>. QED  BY <1>1, <2>1, LineTypes, HeadPublished
<1>5. Emitted(q) \in {0, 1}
  BY DEF Emitted
<1>. QED  BY <1>1, <1>3, <1>4, <1>5, SizeAssumption

(* A published slot of a stretch is a published slot.                      *)
LEMMA StretchReady ==
  ASSUME LineInv, NEW q \in Queues, NEW n \in 0 .. QueueSize,
         PublishedFrom(ready[q], read_heads[q], n), NEW m \in 0 .. n - 1
  PROVE  From(read_heads[q], m) \in Slots /\ ready[q][From(read_heads[q], m)]
<1>1. m \in 0 .. QueueSize - 1 /\ m < n /\ m \in 0 .. QueueSize
  BY SizeAssumption
<1>. QED  BY <1>1, LineTypes, FromSlot DEF PublishedFrom

(* Where t stands to the end of its stretch after its step: dying, or at   *)
(* the cursor it loaded.                                                   *)
StaysInLine(t) ==
  \/ frame'[t].pc \in {"flush", "poll"}
  \/ /\ frame[t].pc \notin {"publish", "flush", "poll"} /\ frame'[t].pc # "publish"
     /\ frame'[t].pc \in {"check"} \cup Filling =>
          /\ Held(t)' = Held(t)
          /\ \/ frame'[t].w = write_head[Held(t)]
             \/ frame[t].pc \in {"check"} \cup Filling /\ frame'[t].w = frame[t].w

LEMMA EndKept ==
  ASSUME NEW t \in Tasks, Moves(t), StaysInLine(t), write_head' = write_head,
         \A p \in Queues : p >= active_queues' => p >= active_queues,
         \A u \in Tasks : u # t => tls'[u] = tls[u],
         Held(t)' \in Queues => Held(t)' = Held(t) \/ Held(t)' >= active_queues,
         NEW q \in Queues, NEW s, EndsAt(q, s)
  PROVE  EndsAt(q, s)'
<1>1. q >= active_queues' => write_head'[q] = s
  BY DEF EndsAt
<1>2. ASSUME NEW u \in Tasks, Held(u)' = q
      PROVE  \/ frame'[u].pc \in {"flush", "poll"}
             \/ frame'[u].pc = "publish" /\ frame'[u].w = s /\ write_head'[q] = After(s)
             \/ /\ frame'[u].pc # "publish" /\ write_head'[q] = s
                /\ frame'[u].pc \in {"check"} \cup Filling => frame'[u].w = s
  <2>1. CASE u # t
    <3>1. frame'[u] = frame[u] /\ Held(u) = q
      BY <1>2, <2>1 DEF Moves, Held
    <3>. QED  BY <3>1 DEF EndsAt
  <2>2. CASE u = t
    <3>1. CASE frame'[t].pc \in {"flush", "poll"}
      BY <2>2, <3>1
    <3>2. CASE frame'[t].pc \notin {"flush", "poll"}
      <4>1. /\ frame[t].pc \notin {"publish", "flush", "poll"} /\ frame'[t].pc # "publish"
            /\ frame'[t].pc \in {"check"} \cup Filling =>
                 /\ Held(t) = q
                 /\ \/ frame'[t].w = write_head[q]
                    \/ frame[t].pc \in {"check"} \cup Filling /\ frame'[t].w = frame[t].w
        BY <1>2, <2>2, <3>2 DEF StaysInLine
      <4>2. Held(t) = q \/ q >= active_queues
        BY <1>2, <2>2
      <4>3. /\ write_head[q] = s
            /\ Held(t) = q /\ frame[t].pc \in {"check"} \cup Filling => frame[t].w = s
        BY <4>1, <4>2 DEF EndsAt
      <4>. QED  BY <2>2, <4>1, <4>3
    <3>. QED  BY <3>1, <3>2
  <2>. QED  BY <2>1, <2>2
<1>. QED  BY <1>1, <1>2 DEF EndsAt

LEMMA InLineKept ==
  ASSUME NEW q \in Queues, InLine(q), ready'[q] = ready[q], read_heads'[q] = read_heads[q],
         \A s : EndsAt(q, s) => EndsAt(q, s)'
  PROVE  InLine(q)'
<1>1. PICK n \in 0 .. QueueSize :
        PublishedFrom(ready[q], read_heads[q], n) /\ EndsAt(q, From(read_heads[q], n))
  BY DEF InLine
<1>2. PICK s : s = From(read_heads[q], n)
  OBVIOUS
<1>3. EndsAt(q, s)'
  BY <1>1, <1>2
<1>4. PublishedFrom(ready'[q], read_heads'[q], n) /\ From(read_heads'[q], n) = s
  BY <1>1, <1>2
<1>. QED  BY <1>3, <1>4 DEF InLine, EndsAt

(* The line is the same if what is published is.                           *)
LEMMA WaitingKept ==
  ASSUME LineInv, UNCHANGED <<ready, read_heads>>,
         \A q \in Queues, s \in Slots : ready[q][s] => slots'[q][s] = slots[q][s],
         \A q \in Queues : Emitted(q)' = Emitted(q)
  PROVE  Waiting' = Waiting
<1>1. ASSUME NEW q \in Queues
      PROVE  Contents(slots'[q], read_heads[q], Unreleased(ready[q], read_heads[q]), Emitted(q))
             = Contents(slots[q], read_heads[q], Unreleased(ready[q], read_heads[q]), Emitted(q))
  <2>1. PICK n \in 0 .. QueueSize :
           /\ PublishedFrom(ready[q], read_heads[q], n)
           /\ Unreleased(ready[q], read_heads[q]) = n
           /\ Emitted(q) \in {0, 1} /\ Emitted(q) <= n
    BY Stretch
  <2>2. \A m \in 0 .. n - 1 :
          slots'[q][From(read_heads[q], m)] = slots[q][From(read_heads[q], m)]
    BY <2>1, StretchReady
  <2>. QED  BY <2>1, <2>2, ContentsSame
<1>. QED  BY <1>1 DEF Waiting

LEMMA CarriedKept ==
  ASSUME LineInv, UNCHANGED <<rd, read_heads>>,
         \A q \in Queues, s \in Slots : ready[q][s] => slots'[q][s] = slots[q][s]
  PROVE  Carried'
<1>. SUFFICES ASSUME rd.pc \in {"guard", "write", "writing"}
              PROVE  rd.rec = slots'[rd.i][read_heads[rd.i]]
  BY DEF Carried, ReadSlot
<1>1. rd.i \in Queues /\ ReadSlot \in Slots /\ ready[rd.i][ReadSlot]
  BY LineTypes, ReaderInside, ReaderTypes DEF Reading, ReaderOwnsSlot
<1>. QED  BY <1>1, LineTypes DEF Carried, ReadSlot


(* A step of t that neither publishes nor releases leaves the line alone.  *)
LEMMA TaskStep ==
  ASSUME LineInv, RingInv', NEW t \in Tasks, Moves(t), StaysInLine(t),
         UNCHANGED <<ready, write_head, read_heads, rd, out>>,
         \A q \in Queues, s \in Slots : ready[q][s] => slots'[q][s] = slots[q][s],
         \A p \in Queues : p >= active_queues' => p >= active_queues,
         \A u \in Tasks : u # t => tls'[u] = tls[u],
         Held(t)' \in Queues => Held(t)' = Held(t) \/ Held(t)' >= active_queues
  PROVE  LineInv' /\ UNCHANGED <<Waiting, out>>
<1>1. ASSUME NEW q \in Queues PROVE InLine(q)'
  <2>1. InLine(q)
    BY LineTypes
  <2>2. \A s : EndsAt(q, s) => EndsAt(q, s)'
    BY EndKept
  <2>. QED  BY <2>1, <2>2, InLineKept
<1>2. Carried'
  BY CarriedKept
<1>3. Waiting' = Waiting
  <2>1. \A q \in Queues : Emitted(q)' = Emitted(q)
    BY DEF Emitted
  <2>. QED  BY <2>1, WaitingKept
<1>. QED  BY <1>1, <1>2, <1>3 DEF LineInv

(* ... and above all if it touches no ring.                                *)
LEMMA QuietLine ==
  ASSUME LineInv, RingInv', NEW t \in Tasks, Moves(t), StaysInLine(t),
         UNCHANGED <<ringVars, readerVars>>, frame'[t].pc # "bind"
  PROVE  LineInv' /\ UNCHANGED <<Waiting, out>>
<1>1. Held(t)' = tls[t]
  BY DEF Held, ringVars
<1>2. Held(t)' = Held(t) \/ Held(t)' = NoQueue
  <2>1. frame[t].pc = "bind" => tls[t] = NoQueue
    BY LineTypes, TaskInv DEF OwnQueue
  <2>. QED  BY <1>1, <2>1 DEF Held
<1>3. NoQueue \notin Queues
  BY SizeAssumption DEF NoQueue, Queues
<1>. QED  BY <1>2, <1>3, TaskStep DEF ringVars, readerVars

(* t goes to an activation that has loaded no cursor.                      *)
LEMMA AwayLine ==
  ASSUME LineInv, RingInv', NEW t \in Tasks, Moves(t),
         UNCHANGED <<ringVars, readerVars>>,
         \/ frame'[t].pc \in {"flush", "poll"}
         \/ /\ frame[t].pc \notin {"publish", "flush", "poll"}
            /\ frame'[t].pc \in {"app", "fork", "enter", "claim", "cas", "load", "forward"}
  PROVE  LineInv' /\ UNCHANGED <<Waiting, out>>
<1>1. StaysInLine(t) /\ frame'[t].pc # "bind"
  BY DEF StaysInLine, Filling
<1>. QED  BY <1>1, QuietLine

LEMMA LeaveLine ==
  ASSUME LineInv, RingInv', NEW t \in Tasks,
         SkipTrace(t) \/ NoQueueLeft(t) \/ DropFull(t)
  PROVE  LineInv' /\ UNCHANGED <<Waiting, out>>
<1>1. /\ frame[t].pc \in {"enter", "claim", "check"} /\ Leave(t)
      /\ UNCHANGED <<ringVars, readerVars>>
  BY DEF SkipTrace, NoQueueLeft, DropFull, At
<1>2. Moves(t) /\ frame'[t].pc = "forward"
  BY <1>1, LineTypes, TaskInv, LeaveMoves
<1>. QED  BY <1>1, <1>2, AwayLine

LEMMA ClaimLine ==
  ASSUME LineInv, RingInv', NEW t \in Tasks,
         GetQueue(t) \/ LoadActive(t) \/ ClaimFails(t)
  PROVE  LineInv' /\ UNCHANGED <<Waiting, out>>
<1>1. /\ frame[t].pc \in {"enter", "claim", "cas"} /\ UNCHANGED <<ringVars, readerVars>>
  BY DEF GetQueue, LoadActive, ClaimFails, At
<1>2. /\ frame \in [Tasks -> Frames] /\ frame[t] \in Frames
      /\ tls[t] \in 0 .. MaxThreads /\ active_queues \in 0 .. MaxThreads
  BY LineTypes, TaskInv, ReaderTypes
<1>3. Moves(t) /\ frame'[t].pc \in {"claim", "cas", "load"}
  <2>1. CASE GetQueue(t)
    <3>. DEFINE pc == IF tls[t] = NoQueue THEN "claim" ELSE "load"
    <3>1. pc \in FramePCs /\ pc \in {"claim", "cas", "load"}
      BY DEF FramePCs
    <3>2. frame' = [frame EXCEPT ![t].q = tls[t], ![t].pc = pc]
      BY <2>1 DEF GetQueue
    <3>. HIDE DEF pc
    <3>. QED  BY <1>2, <3>1, <3>2, QueueMoves
  <2>2. CASE LoadActive(t)
    BY <1>2, <2>2, QueueMoves DEF LoadActive, FramePCs
  <2>3. CASE ClaimFails(t)
    BY <1>2, <2>3, GotoMoves DEF ClaimFails, FramePCs, MovesTo
  <2>. QED  BY <2>1, <2>2, <2>3
<1>. QED  BY <1>1, <1>3, AwayLine

(* The queue claimed is one nobody has pushed to: its cursor stands at the *)
(* end of its stretch.                                                     *)
LEMMA ClaimQueueLine ==
  ASSUME LineInv, RingInv', NEW t \in Tasks, ClaimQueue(t)
  PROVE  LineInv' /\ UNCHANGED <<Waiting, out>>
<1>1. /\ frame[t].pc = "cas" /\ active_queues = frame[t].q
      /\ active_queues' = active_queues + 1
      /\ UNCHANGED <<ready, slots, write_head, tls, readerVars, procVars, saved>>
  BY DEF ClaimQueue, At
<1>2. MovesTo(t, "bind")
  BY LineTypes, TaskInv, GotoMoves DEF ClaimQueue, FramePCs
<1>3. active_queues \in 0 .. MaxThreads
  BY LineTypes, ReaderTypes
<1>4. StaysInLine(t)
  BY <1>1, <1>2 DEF StaysInLine, MovesTo, Filling
<1>5. Held(t)' = active_queues
  BY <1>1, <1>2 DEF Held, MovesTo
<1>6. \A p \in Queues : p >= active_queues' => p >= active_queues
  BY <1>1, <1>3, SizeAssumption DEF Queues
<1>7. active_queues >= active_queues
  BY <1>3
<1>. QED  BY <1>1, <1>2, <1>4, <1>5, <1>6, <1>7, TaskStep DEF MovesTo, readerVars

(* The key comes to hold the queue that was claimed, or none.              *)
LEMMA KeyLine ==
  ASSUME LineInv, RingInv', NEW t \in Tasks, BindQueue(t) \/ ReplaceThread(t)
  PROVE  LineInv' /\ UNCHANGED <<Waiting, out>>
<1>1. CASE BindQueue(t)
  <2>1. /\ frame[t].pc = "bind" /\ tls' = [tls EXCEPT ![t] = frame[t].q]
        /\ UNCHANGED <<ready, slots, write_head, active_queues, readerVars, procVars, saved>>
    BY <1>1 DEF BindQueue, At
  <2>2. MovesTo(t, "load")
    BY <1>1, LineTypes, TaskInv, GotoMoves DEF BindQueue, FramePCs
  <2>3. StaysInLine(t)
    BY <2>1, <2>2 DEF StaysInLine, MovesTo, Filling
  <2>4. Held(t)' = Held(t) /\ \A u \in Tasks : u # t => tls'[u] = tls[u]
    BY <2>1, <2>2, LineTypes, TaskInv DEF Held, MovesTo
  <2>. QED  BY <2>1, <2>2, <2>3, <2>4, TaskStep DEF MovesTo, readerVars
<1>2. CASE ReplaceThread(t)
  <2>1. /\ frame[t].pc = "app" /\ frame' = frame
        /\ tls' = [tls EXCEPT ![t] = NoQueue]
        /\ UNCHANGED <<ready, slots, write_head, active_queues, readerVars, procVars>>
    BY <1>2 DEF ReplaceThread, At
  <2>2. Moves(t) /\ StaysInLine(t)
    BY <2>1, LineTypes, TaskInv DEF Moves, StaysInLine, Filling
  <2>3. Held(t)' = NoQueue /\ \A u \in Tasks : u # t => tls'[u] = tls[u]
    BY <2>1, LineTypes, TaskInv DEF Held
  <2>4. NoQueue \notin Queues
    BY SizeAssumption DEF NoQueue, Queues
  <2>. QED  BY <2>1, <2>2, <2>3, <2>4, TaskStep DEF readerVars
<1>. QED  BY <1>1, <1>2

LEMMA LoadHeadLine ==
  ASSUME LineInv, RingInv', NEW t \in Tasks, LoadHead(t) \/ SlotFree(t)
  PROVE  LineInv' /\ UNCHANGED <<Waiting, out>>
<1>1. /\ frame[t].pc \in {"load", "check"} /\ UNCHANGED <<ringVars, readerVars>>
  BY DEF LoadHead, SlotFree, At
<1>2. frame[t].q = tls[t] /\ frame[t].q \in Queues /\ Held(t) = frame[t].q
  BY <1>1, LineTypes, TaskInv, PusherOwns DEF OwnQueue, Pushing
<1>3. Moves(t) /\ StaysInLine(t) /\ frame'[t].pc # "bind"
  <2>1. CASE LoadHead(t)
    <3>1. write_head[frame[t].q] \in Slots
      BY <1>2, LineTypes
    <3>2. /\ Moves(t) /\ frame'[t].pc = "check"
          /\ frame'[t].w = write_head[frame[t].q]
      BY <2>1, <3>1, LineTypes, TaskInv, HeadMoves DEF LoadHead, FramePCs
    <3>3. frame[t].pc = "load" /\ Held(t)' = Held(t)
      BY <1>1, <2>1, <3>2 DEF LoadHead, At, Held, ringVars
    <3>. QED  BY <1>2, <3>2, <3>3 DEF StaysInLine
  <2>2. CASE SlotFree(t)
    <3>1. MovesTo(t, "fill") /\ frame[t].pc = "check"
      BY <2>2, LineTypes, TaskInv, GotoMoves DEF SlotFree, FramePCs, At
    <3>2. Held(t)' = Held(t)
      BY <1>1, <3>1 DEF Held, ringVars, MovesTo
    <3>. QED  BY <3>1, <3>2 DEF StaysInLine, MovesTo
  <2>. QED  BY <2>1, <2>2
<1>. QED  BY <1>1, <1>3, QuietLine

(* The slot being filled is not published.                                 *)
LEMMA FillLine ==
  ASSUME LineInv, RingInv', NEW t \in Tasks, FillHead(t) \/ FillStrings(t)
  PROVE  LineInv' /\ UNCHANGED <<Waiting, out>>
<1>1. /\ frame[t].pc \in {"fill", "strings"}
      /\ UNCHANGED <<ready, write_head, active_queues, tls, readerVars, procVars, saved>>
  BY DEF FillHead, FillStrings, At
<1>2. PICK pc \in {"strings", "advance"} : MovesTo(t, pc)
  BY LineTypes, TaskInv, GotoMoves DEF FillHead, FillStrings, FramePCs
<1>3. frame[t].q \in Queues /\ frame[t].w \in Slots /\ ~ready[frame[t].q][frame[t].w]
  BY <1>1, LineTypes, TaskInv, PusherOwns DEF OwnSlot, Pushing, Filling
<1>4. \A q \in Queues, s \in Slots :
        q # frame[t].q \/ s # frame[t].w => slots'[q][s] = slots[q][s]
  <2>1. CASE FillHead(t)
    BY <1>3, <2>1, LineTypes DEF FillHead, Records
  <2>2. CASE FillStrings(t)
    BY <1>3, <2>2, LineTypes DEF FillStrings, Records
  <2>. QED  BY <2>1, <2>2
<1>5. Held(t)' = Held(t)
  BY <1>1, <1>2 DEF Held, MovesTo
<1>6. StaysInLine(t)
  BY <1>1, <1>2, <1>5 DEF StaysInLine, MovesTo, Filling
<1>7. \A q \in Queues, s \in Slots : ready[q][s] => slots'[q][s] = slots[q][s]
  BY <1>3, <1>4
<1>. QED  BY <1>1, <1>2, <1>5, <1>6, <1>7, TaskStep DEF MovesTo, readerVars


(* The producer's cursor moves on, and the slot behind it is the next to   *)
(* be published.                                                           *)
LEMMA EndOther ==
  ASSUME NEW t \in Tasks, Moves(t), UNCHANGED <<active_queues, tls>>,
         NEW q \in Queues, Held(t)' # q, write_head'[q] = write_head[q],
         NEW s, EndsAt(q, s)
  PROVE  EndsAt(q, s)'
<1>1. \A u \in Tasks : u # t => frame'[u] = frame[u] /\ Held(u)' = Held(u)
  BY DEF Moves, Held
<1>. QED  BY <1>1 DEF EndsAt

LEMMA AdvanceLine ==
  ASSUME LineInv, RingInv', NEW t \in Tasks, Advance(t)
  PROVE  LineInv' /\ UNCHANGED <<Waiting, out>>
<1>. PICK q \in Queues, w \in Slots : q = frame[t].q /\ w = frame[t].w
  BY LineTypes, PusherOwns DEF Advance, At, Pushing
<1>1. /\ frame[t].pc = "advance"
      /\ write_head' = [write_head EXCEPT ![q] = After(w)]
      /\ UNCHANGED <<ready, slots, active_queues, tls, readerVars, procVars, saved>>
  BY DEF Advance, At
<1>2. MovesTo(t, "publish")
  BY LineTypes, TaskInv, GotoMoves DEF Advance, FramePCs
<1>3. Held(t) = q
  BY <1>1, LineTypes, PusherOwns DEF Pushing
<1>4. /\ write_head'[q] = After(w)
      /\ \A p \in Queues : p # q => write_head'[p] = write_head[p]
  <2>1. write_head \in [Queues -> Slots]
    BY LineTypes DEF TypeOK
  <2>. QED  BY <1>1, <1>3, <2>1
<1>5. Held(t)' = q /\ frame'[t].pc = "publish" /\ frame'[t].w = w
  BY <1>1, <1>2, <1>3 DEF Held, MovesTo
<1>6. ASSUME NEW s, EndsAt(q, s) PROVE EndsAt(q, s)'
  <2>1. q < active_queues /\ \A u \in Tasks \ {t} : Held(u) # q
    <3>1. q # NoQueue
      BY <1>3, SizeAssumption DEF Queues, NoQueue
    <3>. QED  BY <1>3, <3>1, LineTypes DEF RingInv, QueueExclusive
  <2>2. w = s
    BY <1>1, <1>3, <1>6 DEF EndsAt, Filling
  <2>3. \A u \in Tasks : u # t => Held(u)' # q
    BY <1>1, <1>2, <2>1 DEF Held, MovesTo, Moves
  <2>4. ~(q >= active_queues)
    BY <1>3, <2>1, LineTypes, ReaderTypes, SizeAssumption DEF Queues
  <2>. QED  BY <1>1, <1>4, <1>5, <2>2, <2>3, <2>4 DEF EndsAt
<1>7. ASSUME NEW p \in Queues PROVE InLine(p)'
  <2>1. InLine(p)
    BY LineTypes
  <2>2. \A s : EndsAt(p, s) => EndsAt(p, s)'
    BY <1>1, <1>2, <1>4, <1>5, <1>6, EndOther DEF MovesTo
  <2>. QED  BY <1>1, <2>1, <2>2, InLineKept DEF readerVars
<1>8. Carried' /\ Waiting' = Waiting /\ out' = out
  <2>1. \A p \in Queues : Emitted(p)' = Emitted(p)
    BY <1>1 DEF Emitted, readerVars
  <2>2. \A p \in Queues, s \in Slots : slots'[p][s] = slots[p][s]
    BY <1>1
  <2>. QED  BY <1>1, <2>1, <2>2, CarriedKept, WaitingKept DEF readerVars
<1>. QED  BY <1>7, <1>8 DEF LineInv

(* Publishing accepts the record into the line of its queue.               *)
LEMMA PublishLine ==
  ASSUME LineInv, RingInv', NEW t \in Tasks, Publish(t)
  PROVE  LineInv' /\ \E q \in Queues : \E e \in Records : Line!Accept(q, e)
<1>. PICK q \in Queues, w \in Slots : q = frame[t].q /\ w = frame[t].w
  BY LineTypes, PusherOwns DEF Publish, At, Pushing
<1>. PICK r \in Slots : r = read_heads[q]
  BY LineTypes
<1>1. /\ frame[t].pc = "publish"
      /\ ready' = [ready EXCEPT ![q][w] = TRUE]
      /\ UNCHANGED <<slots, write_head, active_queues, tls, readerVars, procVars, saved>>
  BY DEF Publish, At
<1>2. Moves(t) /\ frame'[t].pc = "forward"
  BY LineTypes, TaskInv, LeaveMoves DEF Publish
<1>3. Held(t) = q /\ ~ready[q][w]
  BY <1>1, LineTypes, PusherOwns, TaskInv DEF Pushing, OwnSlot, Filling
<1>4. q < active_queues /\ \A u \in Tasks \ {t} : Held(u) # q
  <2>1. q # NoQueue
    BY <1>3, SizeAssumption DEF Queues, NoQueue
  <2>. QED  BY <1>3, <2>1, LineTypes DEF RingInv, QueueExclusive
<1>5. PICK n \in 0 .. QueueSize :
        /\ PublishedFrom(ready[q], r, n) /\ EndsAt(q, From(r, n))
        /\ Unreleased(ready[q], r) = n
        /\ Emitted(q) \in {0, 1} /\ Emitted(q) <= n
  BY <1>3, Stretch
<1>6. w = From(r, n) /\ write_head[q] = After(w)
  BY <1>1, <1>3, <1>5 DEF EndsAt
<1>7. n \in 0 .. QueueSize - 1
  <2>. SUFFICES ASSUME n = QueueSize PROVE FALSE
    BY SizeAssumption
  <2>1. w = r /\ From(r, 0) = r /\ 0 \in 0 .. QueueSize - 1
    BY <1>3, <1>6, FromSlot, SizeAssumption
  <2>. QED  BY <1>3, <1>5, <2>1, SizeAssumption DEF PublishedFrom
<1>8. /\ ready'[q] = [ready[q] EXCEPT ![w] = TRUE]
      /\ \A p \in Queues : p # q => ready'[p] = ready[p]
  BY <1>1, <1>3, LineTypes
<1>9. n + 1 \in 0 .. QueueSize /\ PublishedFrom(ready'[q], r, n + 1)
  <2>1. ready[q] \in [Slots -> BOOLEAN]
    BY <1>3, LineTypes
  <2>. QED  BY <1>3, <1>5, <1>6, <1>7, <1>8, <2>1, PublishOne, SizeAssumption
<1>10. Held(t)' = q
  BY <1>1, <1>2, <1>3 DEF Held
<1>11. InLine(q)'
  <2>1. From(r, n + 1) = After(w)
    BY <1>3, <1>6, <1>7, FromNext
  <2>2. \A u \in Tasks : u # t => Held(u)' # q
    BY <1>1, <1>2, <1>4 DEF Held, Moves
  <2>3. EndsAt(q, After(w))'
    BY <1>1, <1>2, <1>6, <2>2 DEF EndsAt, Filling
  <2>4. read_heads'[q] = r
    BY <1>1 DEF readerVars
  <2>. QED  BY <1>9, <2>1, <2>3, <2>4 DEF InLine, EndsAt
<1>12. ASSUME NEW p \in Queues, p # q PROVE InLine(p)'
  <2>1. InLine(p)
    BY LineTypes
  <2>2. \A s : EndsAt(p, s) => EndsAt(p, s)'
    BY <1>1, <1>2, <1>10, <1>12, EndOther
  <2>. QED  BY <1>1, <1>8, <1>12, <2>1, <2>2, InLineKept DEF readerVars
<1>13. Carried'
  <2>1. \A p \in Queues, s \in Slots : slots'[p][s] = slots[p][s]
    BY <1>1
  <2>. QED  BY <1>1, <2>1, CarriedKept DEF readerVars
<1>14. \A p \in Queues : p # q => Waiting'[p] = Waiting[p]
  BY <1>1, <1>8 DEF Waiting, Emitted, readerVars
<1>15. Waiting'[q] = Append(Waiting[q], slots[q][w])
  <2>1. slots[q] \in [Slots -> Records]
    BY <1>3, LineTypes
  <2>2. Unreleased(ready'[q], r) = n + 1
    BY <1>3, <1>9, UnreleasedIs
  <2>3. /\ slots'[q] = slots[q] /\ read_heads'[q] = r /\ read_heads[q] = r
        /\ Emitted(q)' = Emitted(q)
    BY <1>1 DEF Emitted, readerVars
  <2>4. /\ Waiting'[q] = Contents(slots[q], r, n + 1, Emitted(q))
        /\ Waiting[q] = Contents(slots[q], r, n, Emitted(q))
    BY <1>3, <1>5, <2>2, <2>3 DEF Waiting
  <2>6. PICK e \in {0, 1} : e = Emitted(q) /\ e <= n
    BY <1>5
  <2>7. Contents(slots[q], r, n + 1, e) = Append(Contents(slots[q], r, n, e), slots[q][From(r, n)])
    BY <1>7, <2>1, <2>6, ContentsAccept, ZenonT(60)
  <2>. QED  BY <1>6, <2>4, <2>6, <2>7
<1>16. Len(Waiting[q]) < QueueSize
  <2>1. slots[q] \in [Slots -> Records]
    BY <1>3, LineTypes
  <2>2. Waiting[q] = Contents(slots[q], r, n, Emitted(q))
    BY <1>3, <1>5 DEF Waiting
  <2>3. PICK e \in {0, 1} : e = Emitted(q) /\ e <= n
    BY <1>5
  <2>4. n \in 0 .. QueueSize
    BY <1>7, SizeAssumption
  <2>5. Len(Contents(slots[q], r, n, e)) = n - e
    BY <2>1, <2>3, <2>4, ContentsSeq, ZenonT(60)
  <2>. QED  BY <1>7, <2>2, <2>3, <2>4, <2>5, SizeAssumption
<1>17. Line!Accept(q, slots[q][w])
  <2>1. Waiting' = [Waiting EXCEPT ![q] = Append(@, slots[q][w])]
    BY <1>3, <1>14, <1>15 DEF Waiting
  <2>. QED  BY <1>1, <1>16, <2>1 DEF Line!Accept, readerVars
<1>18. slots[q][w] \in Records
  BY <1>3, LineTypes
<1>. QED  BY <1>3, <1>11, <1>12, <1>13, <1>17, <1>18 DEF LineInv


-----------------------------------------------------------------------------
(* Calls, forks, the way out.                                              *)

LEMMA ApplicationLine ==
  ASSUME LineInv, RingInv', NEW t \in Tasks, NEW k \in Calls, NEW p \in Payload,
         Call(t, k, p)
  PROVE  LineInv' /\ UNCHANGED <<Waiting, out>>
<1>. DEFINE pc == IF k = "fork" THEN "fork" ELSE "enter"
<1>1. /\ frame[t].pc = "app" /\ frame' = [frame EXCEPT ![t] = Activation(pc, k, p)]
      /\ UNCHANGED <<ringVars, readerVars>>
  BY DEF Call, At, Begin
<1>2. pc \in {"fork", "enter"} /\ pc \in FramePCs /\ k \in Kinds /\ p \in Events
  BY ModeAssumption DEF FramePCs, Events
<1>. HIDE DEF pc
<1>3. Moves(t) /\ frame'[t].pc = pc
  BY <1>1, <1>2, LineTypes, TaskInv, ActivationMoves
<1>. QED  BY <1>1, <1>2, <1>3, AwayLine

LEMMA ReturnLine ==
  ASSUME LineInv, RingInv', NEW t \in Tasks,
         Return(t) \/ ForkFails(t) \/ ForkChild(t) \/ ForkParent(t) \/ RunAtExit(t)
  PROVE  LineInv' /\ UNCHANGED <<Waiting, out>>
<1>1. /\ frame[t].pc \in {"forward", "fork"} /\ UNCHANGED <<ringVars, readerVars>>
      /\ frame' = [frame EXCEPT ![t] = Rest] \/ Goto(t, "enter") \/ Goto(t, "flush")
  BY DEF Return, ForkFails, ForkChild, ForkParent, RunAtExit, At
<1>2. Moves(t) /\ frame'[t].pc \in {"app", "enter", "flush"}
  BY <1>1, LineTypes, TaskInv, RestMoves, GotoMoves DEF FramePCs, MovesTo
<1>. QED  BY <1>1, <1>2, AwayLine

LEMMA DyingLine ==
  ASSUME LineInv, RingInv', NEW t \in Tasks, FlushStep(t) \/ Terminate(t)
  PROVE  LineInv' /\ UNCHANGED <<Waiting, out>>
<1>1. UNCHANGED <<ringVars, readerVars>>
  BY DEF FlushStep, FlushInChild, RequestDrain, Poll, Die, Terminate
<1>2. frame \in [Tasks -> Frames]
  BY LineTypes, TaskInv
<1>3. Moves(t) /\ frame'[t].pc \in {"flush", "poll"}
  <2>1. CASE RequestDrain(t)
    BY <1>2, <2>1, GotoMoves DEF RequestDrain, FramePCs, MovesTo
  <2>2. CASE Poll(t)
    <3>1. frame[t].polls + 1 \in 0 .. MaxWait
      BY <2>2, LineTypes, TaskInv, FrameFields, SizeAssumption DEF Poll
    <3>2. frame[t].pc = "poll" /\ frame' = [frame EXCEPT ![t].polls = @ + 1]
      BY <2>2 DEF Poll, At
    <3>. QED  BY <1>2, <3>1, <3>2 DEF Moves, Frames
  <2>3. CASE FlushInChild(t) \/ Die(t)
    BY <1>2, <2>3 DEF FlushInChild, Die, At, Moves
  <2>4. CASE Terminate(t)
    BY <1>2, <2>4, ActivationMoves DEF Terminate, FramePCs, Kinds, Events
  <2>. QED  BY <2>1, <2>2, <2>3, <2>4 DEF FlushStep
<1>. QED  BY <1>1, <1>3, AwayLine

(* Nothing of the ring, the reader or the activations changes.             *)
LEMMA SameLine ==
  ASSUME LineInv, RingInv', UNCHANGED <<ringVars, readerVars, frame>>
  PROVE  LineInv' /\ UNCHANGED <<Waiting, out>>
<1>1. \A q \in Queues : InLine(q)'
  BY LineTypes DEF InLine, EndsAt, Held, ringVars, readerVars
<1>2. Carried'
  BY LineTypes DEF Carried, ReadSlot, ringVars, readerVars
<1>3. Waiting' = Waiting /\ out' = out
  BY DEF Waiting, Emitted, ringVars, readerVars
<1>. QED  BY <1>1, <1>2, <1>3 DEF LineInv

-----------------------------------------------------------------------------
(* The reader.                                                             *)

LEMMA ReaderLine ==
  ASSUME LineInv, RingInv', UNCHANGED <<ringVars, read_heads>>,
         Moves(Reader), frame[Reader].pc \in {"app", "forward"},
         frame'[Reader].pc \in {"app", "enter"},
         Carried'
  PROVE  LineInv'
<1>1. Reader \in Tasks /\ StaysInLine(Reader)
  BY DEF Tasks, StaysInLine, Filling
<1>2. Held(Reader)' = Held(Reader)
  BY DEF Held, ringVars
<1>3. ASSUME NEW q \in Queues PROVE InLine(q)'
  <2>1. InLine(q)
    BY LineTypes
  <2>2. \A s : EndsAt(q, s) => EndsAt(q, s)'
    BY <1>1, <1>2, EndKept DEF ringVars
  <2>. QED  BY <2>1, <2>2, InLineKept DEF ringVars
<1>. QED  BY <1>3 DEF LineInv

(* It looks for a record, formats it and raises or lowers its guard.       *)
LEMMA LookLine ==
  ASSUME LineInv, RingInv',
         \/ StartPass \/ TakeSlot \/ NextQueue \/ EndPass \/ Format \/ SetGuard
         \/ CallWrite \/ ClearGuard \/ Sleep \/ Finish
  PROVE  LineInv' /\ UNCHANGED <<Waiting, out>>
<1>1. /\ frame[Reader].pc = "app" /\ UNCHANGED <<ringVars, read_heads, out>>
      /\ frame' = frame \/ frame' = [frame EXCEPT ![Reader] = Begin("write", NoEvent)]
  BY DEF StartPass, TakeSlot, NextQueue, EndPass, Format, SetGuard, CallWrite,
         ClearGuard, Sleep, Finish, ReaderAt
<1>2. rd \in ReaderStates /\ frame \in [Tasks -> Frames] /\ Reader \in Tasks
  BY LineTypes, ReaderTypes
<1>3. Moves(Reader) /\ frame'[Reader].pc \in {"app", "enter"}
  <2>1. CASE frame' = frame
    BY <1>1, <1>2, <2>1 DEF Moves
  <2>2. CASE frame' = [frame EXCEPT ![Reader] = Begin("write", NoEvent)]
    <3>1. frame' = [frame EXCEPT ![Reader] = Activation("enter", "write", NoEvent)]
      BY <2>2 DEF Begin
    <3>2. "enter" \in FramePCs /\ "write" \in Kinds /\ NoEvent \in Events
      BY DEF FramePCs, Kinds, Events
    <3>. QED  BY <1>2, <3>1, <3>2, ActivationMoves, ZenonT(60)
  <2>. QED  BY <1>1, <2>1, <2>2
<1>4. /\ rd'.pc \in {"unguard", "release"} <=> rd.pc \in {"unguard", "release"}
      /\ rd'.pc \in {"unguard", "release"} => rd'.i = rd.i
  BY <1>2 DEF StartPass, TakeSlot, NextQueue, EndPass, Format, SetGuard, CallWrite,
              ClearGuard, Sleep, Finish, ReaderAt, ReaderStates
<1>5. Carried'
  <2>. SUFFICES ASSUME rd'.pc \in {"guard", "write", "writing"}
                PROVE  rd'.rec = slots[rd'.i][read_heads[rd'.i]]
    BY <1>1 DEF Carried, ReadSlot, ringVars
  <2>1. CASE Format
    BY <1>2, <2>1 DEF Format, ReadSlot, ReaderStates
  <2>2. CASE SetGuard \/ CallWrite
    <3>1. /\ rd.pc \in {"guard", "write", "writing"}
          /\ rd'.rec = rd.rec /\ rd'.i = rd.i
      BY <1>2, <2>2 DEF SetGuard, CallWrite, ReaderAt, ReaderStates
    <3>. QED  BY <3>1, LineTypes DEF Carried, ReadSlot
  <2>3. CASE StartPass \/ TakeSlot \/ NextQueue \/ EndPass \/ ClearGuard \/ Sleep \/ Finish
    BY <1>2, <2>3 DEF StartPass, TakeSlot, NextQueue, EndPass, ClearGuard, Sleep,
                      Finish, ReaderAt, ReaderStates
  <2>. QED  BY <2>1, <2>2, <2>3
<1>6. Waiting' = Waiting
  <2>1. \A q \in Queues : Emitted(q)' = Emitted(q)
    BY <1>4 DEF Emitted
  <2>. QED  BY <1>1, <2>1 DEF Waiting, ringVars
<1>. QED  BY <1>1, <1>3, <1>5, <1>6, ReaderLine

(* Writing takes the first record of the line.                             *)
LEMMA EmitLine ==
  ASSUME LineInv, RingInv', Emit
  PROVE  LineInv' /\ \E q \in Queues : Line!Write(q)
<1>1. /\ frame[Reader].pc = "forward" /\ frame[Reader].kind = "write"
      /\ out' = [q |-> rd.i, rec |-> rd.rec] /\ rd' = [rd EXCEPT !.pc = "unguard"]
      /\ frame' = [frame EXCEPT ![Reader] = Rest]
      /\ UNCHANGED <<ringVars, read_heads>>
  BY DEF Emit, At
<1>2. /\ rd \in ReaderStates /\ frame \in [Tasks -> Frames] /\ Reader \in Tasks
      /\ rd.pc = "writing" /\ rd.pc \in Reading
  BY <1>1, LineTypes, ReaderTypes DEF ReaderGuarded, Reading
<1>3. Moves(Reader) /\ frame'[Reader].pc = "app"
  BY <1>1, <1>2, RestMoves
<1>4. rd'.pc = "unguard" /\ rd'.i = rd.i
  BY <1>1, <1>2 DEF ReaderStates
<1>5. LineInv'
  <2>1. Carried'
    BY <1>4 DEF Carried
  <2>. QED  BY <1>1, <1>3, <2>1, ReaderLine
<1>6. PICK q \in Queues : q = rd.i
  BY <1>2, LineTypes, ReaderInside
<1>7. PICK r \in Slots : r = read_heads[q]
  BY LineTypes
<1>8. PICK n \in 0 .. QueueSize :
        PublishedFrom(ready[q], r, n) /\ Unreleased(ready[q], r) = n
  BY <1>7, Stretch
<1>9. n \in 1 .. QueueSize
  BY <1>2, <1>6, <1>7, <1>8, LineTypes, HeadPublished
<1>10. slots[q] \in [Slots -> Records] /\ rd.rec = slots[q][r]
  BY <1>2, <1>6, <1>7, LineTypes DEF Carried, ReadSlot
<1>11. Emitted(q) = 0 /\ Emitted(q)' = 1
  BY <1>2, <1>4, <1>6 DEF Emitted
<1>12. /\ Waiting[q] = Contents(slots[q], r, n, 0)
       /\ Waiting'[q] = Contents(slots[q], r, n, 1)
  BY <1>1, <1>7, <1>8, <1>11 DEF Waiting, ringVars
<1>13. /\ Waiting[q] # <<>> /\ Waiting[q][1] = rd.rec
       /\ Waiting'[q] = SubSeq(Waiting[q], 2, Len(Waiting[q]))
  BY <1>9, <1>10, <1>12, ContentsWrite
<1>14. \A p \in Queues : p # q => Waiting'[p] = Waiting[p]
  <2>1. \A p \in Queues : p # q => Emitted(p)' = Emitted(p)
    BY <1>4, <1>6 DEF Emitted
  <2>. QED  BY <1>1, <2>1 DEF Waiting, ringVars
<1>15. Waiting' = [Waiting EXCEPT ![q] = SubSeq(@, 2, Len(@))]
  BY <1>13, <1>14 DEF Waiting
<1>16. Line!Write(q)
  BY <1>1, <1>6, <1>13, <1>15 DEF Line!Write
<1>. QED  BY <1>5, <1>16

(* Releasing its slot afterwards changes nothing in the line.              *)
LEMMA ReleaseLine ==
  ASSUME LineInv, RingInv', Release
  PROVE  LineInv' /\ UNCHANGED <<Waiting, out>>
<1>1. /\ rd.pc = "release" /\ rd.pc \in Reading
      /\ ready' = [ready EXCEPT ![rd.i][ReadSlot] = FALSE]
      /\ read_heads' = [read_heads EXCEPT ![rd.i] = After(ReadSlot)]
      /\ rd' = [rd EXCEPT !.pc = "scan", !.n = @ + 1]
      /\ UNCHANGED <<slots, write_head, active_queues, tls, frame, out>>
  BY DEF Release, ReaderAt, Reading
<1>2. PICK q \in Queues : q = rd.i
  BY <1>1, LineTypes, ReaderInside
<1>3. PICK r \in Slots : r = read_heads[q]
  BY LineTypes
<1>4. rd'.pc = "scan"
  BY <1>1, LineTypes, ReaderTypes DEF ReaderStates
<1>5. PICK n \in 0 .. QueueSize :
        /\ PublishedFrom(ready[q], r, n) /\ EndsAt(q, From(r, n))
        /\ Unreleased(ready[q], r) = n
  BY <1>3, Stretch
<1>6. n \in 1 .. QueueSize /\ n - 1 \in 0 .. QueueSize - 1 /\ n - 1 \in 0 .. QueueSize
  <2>1. n \in 1 .. QueueSize
    BY <1>1, <1>2, <1>3, <1>5, LineTypes, HeadPublished
  <2>. QED  BY <2>1, SizeAssumption
<1>7. /\ ready'[q] = [ready[q] EXCEPT ![r] = FALSE]
      /\ read_heads'[q] = After(r)
      /\ \A p \in Queues : p # q => ready'[p] = ready[p] /\ read_heads'[p] = read_heads[p]
  BY <1>1, <1>2, <1>3, LineTypes DEF ReadSlot
<1>8. PublishedFrom(ready'[q], After(r), n - 1)
  <2>1. ready[q] \in [Slots -> BOOLEAN]
    BY LineTypes
  <2>. QED  BY <1>5, <1>6, <1>7, <2>1, ReleaseOne
<1>9. \A p \in Queues : \A s : EndsAt(p, s) => EndsAt(p, s)'
  BY <1>1 DEF EndsAt, Held
<1>10. InLine(q)'
  <2>1. From(After(r), n - 1) = From(r, n)
    BY <1>6, FromNext
  <2>2. PICK s : s = From(r, n)
    OBVIOUS
  <2>3. EndsAt(q, s)'
    BY <1>5, <1>9, <2>2
  <2>. QED  BY <1>6, <1>7, <1>8, <2>1, <2>2, <2>3 DEF InLine, EndsAt
<1>11. ASSUME NEW p \in Queues, p # q PROVE InLine(p)'
  BY <1>7, <1>9, <1>11, LineTypes, InLineKept
<1>12. Carried'
  BY <1>4 DEF Carried
<1>13. Waiting' = Waiting
  <2>1. ASSUME NEW p \in Queues, p # q PROVE Waiting'[p] = Waiting[p]
    <3>1. Emitted(p)' = Emitted(p)
      BY <1>2, <1>4, <2>1 DEF Emitted
    <3>2. ready'[p] = ready[p] /\ read_heads'[p] = read_heads[p] /\ slots' = slots
      BY <1>1, <1>7, <2>1
    <3>. QED  BY <3>1, <3>2 DEF Waiting
  <2>2. Waiting'[q] = Waiting[q]
    <3>1. Emitted(q) = 1 /\ Emitted(q)' = 0
      BY <1>1, <1>2, <1>4 DEF Emitted
    <3>2. Unreleased(ready'[q], After(r)) = n - 1
      <4>1. After(r) \in Slots
        BY SizeAssumption DEF After, Slots
      <4>. QED  BY <1>6, <1>8, <4>1, UnreleasedIs
    <3>3. /\ Waiting[q] = Contents(slots[q], r, n, 1)
          /\ Waiting'[q] = Contents(slots[q], After(r), n - 1, 0)
      BY <1>1, <1>3, <1>5, <1>7, <3>1, <3>2 DEF Waiting
    <3>4. slots[q] \in [Slots -> Records]
      BY LineTypes
    <3>. QED  BY <1>6, <3>3, <3>4, ContentsRelease
  <2>. QED  BY <2>1, <2>2 DEF Waiting
<1>. QED  BY <1>1, <1>10, <1>11, <1>12, <1>13 DEF LineInv


-----------------------------------------------------------------------------

LEMMA LineInit ==
  ASSUME Init
  PROVE  LineInv /\ Line!Init
<1>1. RingInv
  BY InitInv
<1>2. ASSUME NEW q \in Queues
      PROVE  /\ PublishedFrom(ready[q], read_heads[q], 0)
             /\ read_heads[q] = 0 /\ write_head[q] = 0
  <2>1. \A m \in 0 .. QueueSize - 1 : From(0, m) \in Slots
    <3>1. 0 \in Slots
      BY SizeAssumption DEF Slots
    <3>2. \A m \in 0 .. QueueSize - 1 : m \in 0 .. QueueSize
      BY SizeAssumption
    <3>. QED  BY <3>1, <3>2, FromSlot
  <2>2. \A m \in 0 .. QueueSize - 1 : ~(m < 0)
    BY SizeAssumption
  <2>. QED  BY <2>1, <2>2 DEF Init, PublishedFrom
<1>3. \A t \in Tasks : frame[t].pc = "app" /\ Held(t) \notin Queues
  BY SizeAssumption DEF Init, Rest, Activation, Held, NoQueue, Queues
<1>4. 0 \in 0 .. QueueSize /\ From(0, 0) = 0
  BY SizeAssumption DEF From
<1>5. ASSUME NEW q \in Queues PROVE InLine(q)
  <2>1. EndsAt(q, 0)
    BY <1>2, <1>3 DEF EndsAt
  <2>. QED  BY <1>2, <1>4, <2>1 DEF InLine
<1>6. rd.pc = "pass" /\ out = [q |-> NoQueue, rec |-> Blank]
  BY DEF Init
<1>7. ASSUME NEW q \in Queues PROVE Waiting[q] = <<>>
  <2>1. read_heads[q] \in Slots
    BY <1>2, SizeAssumption DEF Slots
  <2>2. Unreleased(ready[q], read_heads[q]) = 0
    BY <1>2, <1>4, <2>1, UnreleasedIs
  <2>3. Emitted(q) = 0
    BY <1>6 DEF Emitted
  <2>4. Waiting[q] = Contents(slots[q], read_heads[q], 0, 0)
    BY <2>2, <2>3 DEF Waiting
  <2>. QED  BY <2>4 DEF Contents
<1>8. Line!Init
  <2>1. Waiting = [q \in Queues |-> <<>>]
    BY <1>7 DEF Waiting
  <2>. QED  BY <1>6, <2>1 DEF Line!Init
<1>. QED  BY <1>1, <1>5, <1>6, <1>8 DEF LineInv, Carried

LEMMA LineNext ==
  ASSUME MaxNest = 0, LineInv, [Next]_vars
  PROVE  LineInv' /\ [Line!Next]_<<Waiting, out>>
<1>1. RingInv'
  BY LineTypes, NextInv
<1>2. ASSUME NEW t \in Tasks, Publish(t) PROVE LineInv' /\ Line!Next
  BY <1>1, <1>2, PublishLine DEF Line!Next
<1>3. ASSUME NEW t \in Tasks, Produce(t), ~Publish(t)
      PROVE  LineInv' /\ UNCHANGED <<Waiting, out>>
  BY <1>1, <1>3, LeaveLine, ClaimLine, ClaimQueueLine, KeyLine, LoadHeadLine,
     FillLine, AdvanceLine
  DEF Produce
<1>4. ASSUME NEW t \in Tasks, HandlerStep(t) \/ FlushStep(t) \/ Environment(t), ~Produce(t)
      PROVE  LineInv' /\ UNCHANGED <<Waiting, out>>
  <2>1. ASSUME ReplaceImage(t) PROVE UNCHANGED <<ringVars, readerVars, frame>>
    BY <2>1 DEF ReplaceImage
  <2>. QED  BY <1>1, <1>4, <2>1, LineTypes, NoNesting, ApplicationLine, ReturnLine,
               DyingLine, KeyLine, SameLine
            DEF HandlerStep, Environment
<1>5. CASE Emit
  BY <1>1, <1>5, EmitLine DEF Line!Next
<1>6. ASSUME ReaderStep, ~Emit PROVE LineInv' /\ UNCHANGED <<Waiting, out>>
  BY <1>1, <1>6, LookLine, ReleaseLine DEF ReaderStep
<1>7. CASE UNCHANGED vars
  BY <1>1, <1>7, SameLine DEF vars
<1>. QED  BY <1>2, <1>3, <1>4, <1>5, <1>6, <1>7 DEF Next, Dead, HandlerStep

(* Every queue's published slots lie in one stretch from the reader's      *)
(* cursor to the producer's (lib.rs:274-338, 417-450).                     *)
THEOREM LineInvariant ==
  ASSUME MaxNest = 0
  PROVE  Spec => []LineInv
<1>1. Init => LineInv
  BY LineInit
<1>2. LineInv /\ [Next]_vars => LineInv'
  BY LineNext
<1>. QED  BY <1>1, <1>2, PTL DEF Spec

(* An event is dropped for a full queue only when every slot of the queue  *)
(* is waiting for the reader (lib.rs:418-424).                             *)
THEOREM DropsOnlyWhenFull ==
  ASSUME MaxNest = 0
  PROVE  Spec => DropOnlyWhenFull
<1>1. ASSUME LineInv, NEW t \in Tasks, DropFull(t), NEW s \in Slots
      PROVE  ready[frame[t].q][s]
  <2>1. frame[t].pc = "check" /\ ready[frame[t].q][frame[t].w]
    BY <1>1 DEF DropFull, At
  <2>2. PICK q \in Queues : q = frame[t].q /\ Held(t) = q
    BY <1>1, <2>1, LineTypes, PusherOwns DEF Pushing
  <2>3. PICK r \in Slots : r = read_heads[q]
    BY <1>1, LineTypes
  <2>4. PICK n \in 0 .. QueueSize : PublishedFrom(ready[q], r, n) /\ EndsAt(q, From(r, n))
    BY <1>1, <2>3, Stretch
  <2>5. ready[q][From(r, n)]
    BY <2>1, <2>2, <2>4 DEF EndsAt
  <2>6. n = QueueSize
    BY <2>4, <2>5, SizeAssumption DEF PublishedFrom
  <2>7. PICK m \in 0 .. QueueSize - 1 : From(r, m) = s
    BY FromAll
  <2>. QED  BY <2>2, <2>4, <2>6, <2>7, SizeAssumption DEF PublishedFrom
<1>2. LineInv => \A t \in Tasks : DropFull(t) => \A s \in Slots : ready[frame[t].q][s]
  BY <1>1
<1>. QED  BY <1>2, LineInvariant, PTL DEF DropOnlyWhenFull

(* The pipeline implements the lossy line, step by step: what a queue has  *)
(* published and the reader has not yet written is the abstract line, in   *)
(* order (lib.rs:274-338, 417-450).                                        *)
THEOREM LossyTraceImplemented ==
  ASSUME MaxNest = 0
  PROVE  Spec => ImplementsLossyTrace
<1>1. Init => Line!Init
  BY LineInit
<1>2. LineInv /\ [Next]_vars => [Line!Next]_<<Waiting, out>>
  BY LineNext
<1>. QED  BY <1>1, <1>2, LineInvariant, PTL DEF Spec, ImplementsLossyTrace, Line!Spec
=============================================================================
