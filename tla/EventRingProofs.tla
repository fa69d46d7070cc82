--------------------------- MODULE EventRingProofs ---------------------------
(***************************************************************************)
(* What EventRing guarantees for every number of threads, queues, slots,   *)
(* batch and payloads, as long as no signal handler of the application     *)
(* makes a hooked call (MaxNest = 0).  RingInv is inductive: the steps of  *)
(* one task are shown to keep it, lemma by lemma, and the safety           *)
(* properties of the pipeline follow from it.                              *)
(***************************************************************************)
EXTENDS EventRing, TLAPS

(* The fields of an activation have their types.                           *)
LEMMA FrameFields ==
  ASSUME NEW f \in Frames
  PROVE  /\ f.pc \in FramePCs /\ f.kind \in Kinds /\ f.ev \in Events
         /\ f.q \in 0 .. MaxThreads /\ f.w \in Slots /\ f.polls \in 0 .. MaxWait
  BY DEF Frames

(* A fresh activation is one.                                              *)
LEMMA ActivationType ==
  ASSUME NEW pc \in FramePCs, NEW k \in Kinds, NEW e \in Events
  PROVE  /\ Activation(pc, k, e) \in Frames
         /\ Activation(pc, k, e).pc = pc
         /\ Activation(pc, k, e).kind = k
  BY SizeAssumption DEF Activation, Frames, NoQueue, Slots

(* Only the activation of t changes, and it stays an activation.           *)
Moves(t) ==
  /\ frame' \in [Tasks -> Frames]
  /\ \A u \in Tasks : u # t => frame'[u] = frame[u]

(* The same call goes on at pc.                                            *)
MovesTo(t, pc) ==
  /\ Moves(t)
  /\ frame'[t].pc = pc
  /\ frame'[t].kind = frame[t].kind
  /\ frame'[t].ev = frame[t].ev
  /\ frame'[t].q = frame[t].q
  /\ frame'[t].w = frame[t].w

LEMMA GotoMoves ==
  ASSUME frame \in [Tasks -> Frames], NEW t \in Tasks, NEW pc \in FramePCs, Goto(t, pc)
  PROVE  MovesTo(t, pc)
  BY DEF Goto, Frames, MovesTo, Moves

LEMMA QueueMoves ==
  ASSUME frame \in [Tasks -> Frames], NEW t \in Tasks,
         NEW q \in 0 .. MaxThreads, NEW pc \in FramePCs,
         frame' = [frame EXCEPT ![t].q = q, ![t].pc = pc]
  PROVE  /\ Moves(t) /\ frame'[t].q = q /\ frame'[t].pc = pc
         /\ frame'[t].kind = frame[t].kind
  BY DEF Moves, Frames

LEMMA HeadMoves ==
  ASSUME frame \in [Tasks -> Frames], NEW t \in Tasks, NEW w \in Slots, NEW pc \in FramePCs,
         frame' = [frame EXCEPT ![t].w = w, ![t].pc = pc]
  PROVE  /\ Moves(t) /\ frame'[t].w = w /\ frame'[t].pc = pc
         /\ frame'[t].q = frame[t].q /\ frame'[t].kind = frame[t].kind
  BY DEF Moves, Frames

LEMMA ActivationMoves ==
  ASSUME frame \in [Tasks -> Frames], NEW t \in Tasks,
         NEW pc \in FramePCs, NEW k \in Kinds, NEW e \in Events,
         frame' = [frame EXCEPT ![t] = Activation(pc, k, e)]
  PROVE  Moves(t) /\ frame'[t].pc = pc /\ frame'[t].kind = k
  BY ActivationType DEF Moves

LEMMA LeaveMoves ==
  ASSUME frame \in [Tasks -> Frames], NEW t \in Tasks, Leave(t)
  PROVE  Moves(t) /\ frame'[t].pc = "forward" /\ frame'[t].kind = frame[t].kind
<1>1. frame[t].kind \in Kinds
  BY FrameFields
<1>. QED  BY <1>1, ActivationMoves DEF Leave, FramePCs, Events

-----------------------------------------------------------------------------
(* A step of t that changes no ring, no reader variable and no saved       *)
(* activation keeps RingInv if t's new activation fits the ring.           *)
LEMMA QuietStep ==
  ASSUME RingInv, NEW t \in Tasks, Moves(t),
         UNCHANGED <<ringVars, readerVars, saved>>,
         shutdown' \in BOOLEAN, reader_done' \in BOOLEAN, live' \subseteq Tasks,
         child' \in BOOLEAN, proc' \in {"alive", "dead"},
         OwnQueue(t)', OwnSlot(t)',
         Held(t)' \in {Held(t), NoQueue},
         t = Reader => ReaderGuarded'
  PROVE  RingInv'
<1>1. TypeOK'
  <2>. TypeOK
    BY DEF RingInv
  <2>. QED  BY DEF TypeOK, Moves, ringVars, readerVars
<1>2. (saved = [u \in Tasks |-> <<>>])'
  BY DEF RingInv
<1>3. \A u \in Tasks : OwnQueue(u)' /\ OwnSlot(u)'
  <2>1. \A u \in Tasks : OwnQueue(u) /\ OwnSlot(u)
    BY DEF RingInv
  <2>. QED  BY <2>1 DEF OwnQueue, OwnSlot, Moves, ringVars
<1>4. QueueExclusive'
  <2>1. QueueExclusive
    BY DEF RingInv
  <2>2. \A u \in Tasks : u # t => Held(u)' = Held(u)
    BY DEF Held, Moves, ringVars
  <2>3. active_queues' = active_queues
    BY DEF ringVars
  <2>. QED  BY <2>1, <2>2, <2>3 DEF QueueExclusive
<1>5. PublishedWhole' /\ WholeRecords'
  BY DEF RingInv, PublishedWhole, WholeRecords, ringVars, readerVars
<1>6. ReaderOwnsSlot'
  BY DEF RingInv, ReaderOwnsSlot, ReadSlot, ringVars, readerVars
<1>7. ReaderGuarded'
  <2>1. CASE t = Reader
    BY <2>1
  <2>2. CASE t # Reader
    <3>1. frame'[Reader] = frame[Reader]
      BY <2>2 DEF Moves, Tasks
    <3>. QED  BY <3>1 DEF RingInv, ReaderGuarded, readerVars
  <2>. QED  BY <2>1, <2>2
<1>. QED  BY <1>1, <1>2, <1>3, <1>4, <1>5, <1>6, <1>7 DEF RingInv

(* The parts of RingInv that speak of one task.                            *)
LEMMA TaskInv ==
  ASSUME RingInv, NEW t \in Tasks
  PROVE  /\ frame \in [Tasks -> Frames] /\ frame[t] \in Frames
         /\ OwnQueue(t) /\ OwnSlot(t) /\ saved[t] = <<>>
         /\ tls \in [Tasks -> 0 .. MaxThreads]
         /\ shutdown \in BOOLEAN /\ reader_done \in BOOLEAN /\ live \subseteq Tasks
         /\ child \in BOOLEAN /\ proc \in {"alive", "dead"}
  BY DEF RingInv, TypeOK

(* The reader is never inside push_binary_event.                           *)
LEMMA ReaderNeverPushes ==
  ASSUME RingInv
  PROVE  frame[Reader].pc \notin {"fork", "claim", "cas", "bind"} \cup Pushing
  BY DEF RingInv, ReaderGuarded, Pushing

(* The filter, the guard, and the drop of an event.                        *)
LEMMA SkipTraceInv ==
  ASSUME RingInv, NEW t \in Tasks, SkipTrace(t)
  PROVE  RingInv'
<1>1. frame[t].pc = "enter" /\ Moves(t) /\ frame'[t].pc = "forward"
      /\ frame'[t].kind = frame[t].kind
  BY TaskInv, LeaveMoves DEF SkipTrace, At
<1>2. OwnQueue(t)' /\ OwnSlot(t)'
  BY <1>1 DEF OwnQueue, OwnSlot, Pushing, Filling
<1>3. Held(t)' = Held(t)
  BY <1>1 DEF Held, SkipTrace, ringVars
<1>4. t = Reader => ReaderGuarded'
  BY <1>1 DEF RingInv, ReaderGuarded, SkipTrace, readerVars
<1>. QED  BY <1>1, <1>2, <1>3, <1>4, QuietStep, TaskInv DEF SkipTrace, procVars

LEMMA DropInv ==
  ASSUME RingInv, NEW t \in Tasks, NoQueueLeft(t) \/ DropFull(t)
  PROVE  RingInv'
<1>1. /\ frame[t].pc \in {"claim", "check"} /\ Leave(t)
      /\ UNCHANGED <<ringVars, readerVars, procVars, saved>>
  BY DEF NoQueueLeft, DropFull, At
<1>2. Moves(t) /\ frame'[t].pc = "forward"
  BY <1>1, TaskInv, LeaveMoves
<1>3. OwnQueue(t)' /\ OwnSlot(t)'
  BY <1>2 DEF OwnQueue, OwnSlot, Pushing, Filling
<1>4. Held(t)' = Held(t)
  BY <1>1, <1>2 DEF Held, ringVars
<1>5. t # Reader
  BY <1>1, ReaderNeverPushes DEF Pushing
<1>. QED  BY <1>1, <1>2, <1>3, <1>4, <1>5, QuietStep, TaskInv DEF procVars

LEMMA GetQueueInv ==
  ASSUME RingInv, NEW t \in Tasks, GetQueue(t)
  PROVE  RingInv'
<1>1. frame[t].pc = "enter" /\ Logs(frame[t].kind)
      /\ UNCHANGED <<ringVars, readerVars, procVars, saved>>
  BY DEF GetQueue, At
<1>2. /\ Moves(t) /\ frame'[t].q = tls[t]
      /\ frame'[t].pc = IF tls[t] = NoQueue THEN "claim" ELSE "load"
  <2>. DEFINE pc == IF tls[t] = NoQueue THEN "claim" ELSE "load"
  <2>1. pc \in FramePCs /\ tls[t] \in 0 .. MaxThreads
    BY TaskInv DEF FramePCs
  <2>2. frame' = [frame EXCEPT ![t].q = tls[t], ![t].pc = pc]
    BY DEF GetQueue
  <2>. HIDE DEF pc
  <2>3. Moves(t) /\ frame'[t].q = tls[t] /\ frame'[t].pc = pc
    BY <2>1, <2>2, TaskInv, QueueMoves, ZenonT(60)
  <2>. QED  BY <2>3 DEF pc
<1>3. OwnQueue(t)' /\ OwnSlot(t)'
  BY <1>1, <1>2 DEF OwnQueue, OwnSlot, Pushing, Filling, ringVars
<1>4. Held(t)' = Held(t)
  BY <1>1, <1>2 DEF Held, ringVars
<1>5. t # Reader
  BY <1>1 DEF RingInv, ReaderGuarded, Logs
<1>. QED  BY <1>1, <1>2, <1>3, <1>4, <1>5, QuietStep, TaskInv DEF procVars

LEMMA LoadActiveInv ==
  ASSUME RingInv, NEW t \in Tasks, LoadActive(t)
  PROVE  RingInv'
<1>1. frame[t].pc = "claim" /\ active_queues < MaxThreads
      /\ UNCHANGED <<ringVars, readerVars, procVars, saved>>
  BY DEF LoadActive, At
<1>2. active_queues \in 0 .. MaxThreads
  BY DEF RingInv, TypeOK
<1>3. Moves(t) /\ frame'[t].q = active_queues /\ frame'[t].pc = "cas"
  <2>1. frame' = [frame EXCEPT ![t].q = active_queues, ![t].pc = "cas"] /\ "cas" \in FramePCs
    BY DEF LoadActive, FramePCs
  <2>. QED  BY <1>2, <2>1, TaskInv, QueueMoves, ZenonT(60)
<1>4. OwnQueue(t)' /\ OwnSlot(t)'
  BY <1>1, <1>2, <1>3, TaskInv, SizeAssumption
  DEF OwnQueue, OwnSlot, Pushing, Filling, ringVars, NoQueue
<1>5. Held(t)' = Held(t)
  BY <1>1, <1>3 DEF Held, ringVars
<1>6. t # Reader
  BY <1>1, ReaderNeverPushes
<1>. QED  BY <1>1, <1>3, <1>4, <1>5, <1>6, QuietStep, TaskInv DEF procVars

LEMMA ClaimFailsInv ==
  ASSUME RingInv, NEW t \in Tasks, ClaimFails(t)
  PROVE  RingInv'
<1>1. frame[t].pc = "cas" /\ UNCHANGED <<ringVars, readerVars, procVars, saved>>
  BY DEF ClaimFails, At
<1>2. MovesTo(t, "claim")
  BY TaskInv, GotoMoves DEF ClaimFails, FramePCs
<1>3. OwnQueue(t)' /\ OwnSlot(t)'
  BY <1>1, <1>2, TaskInv DEF OwnQueue, OwnSlot, Pushing, Filling, ringVars, MovesTo
<1>4. Held(t)' = Held(t)
  BY <1>1, <1>2 DEF Held, ringVars, MovesTo
<1>5. t # Reader
  BY <1>1, ReaderNeverPushes
<1>. QED  BY <1>1, <1>2, <1>3, <1>4, <1>5, QuietStep, TaskInv DEF procVars, MovesTo

LEMMA LoadHeadInv ==
  ASSUME RingInv, NEW t \in Tasks, LoadHead(t)
  PROVE  RingInv'
<1>1. frame[t].pc = "load" /\ UNCHANGED <<ringVars, readerVars, procVars, saved>>
  BY DEF LoadHead, At
<1>2. frame[t].q = tls[t] /\ tls[t] # NoQueue
  BY <1>1, TaskInv DEF OwnQueue, Pushing
<1>3. write_head[frame[t].q] \in Slots
  BY <1>2, SizeAssumption DEF RingInv, TypeOK, Queues, NoQueue
<1>4. Moves(t) /\ frame'[t].q = frame[t].q /\ frame'[t].pc = "check"
  <2>1. frame \in [Tasks -> Frames]
    BY TaskInv
  <2>. QED  BY <1>3, <2>1, HeadMoves, ZenonT(60) DEF LoadHead, FramePCs
<1>5. OwnQueue(t)' /\ OwnSlot(t)'
  BY <1>1, <1>2, <1>4 DEF OwnQueue, OwnSlot, Pushing, Filling, ringVars
<1>6. Held(t)' = Held(t)
  BY <1>1, <1>4 DEF Held, ringVars
<1>7. t # Reader
  BY <1>1, ReaderNeverPushes DEF Pushing
<1>. QED  BY <1>1, <1>4, <1>5, <1>6, <1>7, QuietStep, TaskInv DEF procVars

LEMMA SlotFreeInv ==
  ASSUME RingInv, NEW t \in Tasks, SlotFree(t)
  PROVE  RingInv'
<1>1. /\ frame[t].pc = "check" /\ ~ready[frame[t].q][frame[t].w]
      /\ UNCHANGED <<ringVars, readerVars, procVars, saved>>
  BY DEF SlotFree, At
<1>2. MovesTo(t, "fill")
  BY TaskInv, GotoMoves DEF SlotFree, FramePCs
<1>3. OwnQueue(t)' /\ OwnSlot(t)'
  BY <1>1, <1>2, TaskInv DEF OwnQueue, OwnSlot, Pushing, Filling, ringVars, MovesTo
<1>4. Held(t)' = Held(t)
  BY <1>1, <1>2 DEF Held, ringVars, MovesTo
<1>5. t # Reader
  BY <1>1, ReaderNeverPushes DEF Pushing
<1>. QED  BY <1>1, <1>2, <1>3, <1>4, <1>5, QuietStep, TaskInv DEF procVars, MovesTo

-----------------------------------------------------------------------------
(* The steps that change a ring.  A pushing task owns the queue it pushes  *)
(* to, so no other task is at the slot it touches.                         *)
LEMMA PusherOwns ==
  ASSUME RingInv, NEW t \in Tasks, frame[t].pc \in Pushing
  PROVE  /\ frame[t].q \in Queues /\ frame[t].w \in Slots /\ frame[t].ev \in Events
         /\ Held(t) = frame[t].q
         /\ t # Reader
         /\ \A u \in Tasks : u # t /\ frame[u].pc \in Pushing => frame[u].q # frame[t].q
<1>1. \A u \in Tasks : frame[u].pc \in Pushing =>
        Held(u) = frame[u].q /\ frame[u].q = tls[u] /\ tls[u] # NoQueue
  BY TaskInv DEF OwnQueue, Held, Pushing
<1>2. frame[t].q \in Queues
  BY <1>1, TaskInv, SizeAssumption DEF Queues, NoQueue
<1>3. \A u \in Tasks : u # t /\ frame[u].pc \in Pushing => frame[u].q # frame[t].q
  BY <1>1 DEF RingInv, QueueExclusive
<1>4. t # Reader
  BY ReaderNeverPushes
<1>. QED  BY <1>1, <1>2, <1>3, <1>4, TaskInv, FrameFields

LEMMA ClaimQueueInv ==
  ASSUME RingInv, NEW t \in Tasks, ClaimQueue(t)
  PROVE  RingInv'
<1>1. /\ frame[t].pc = "cas" /\ active_queues = frame[t].q
      /\ active_queues' = active_queues + 1
      /\ UNCHANGED <<ready, slots, write_head, tls, readerVars, procVars, saved>>
  BY DEF ClaimQueue, At
<1>2. MovesTo(t, "bind")
  BY TaskInv, GotoMoves DEF ClaimQueue, FramePCs
<1>3. active_queues \in 0 .. MaxThreads /\ active_queues # MaxThreads
  BY <1>1, TaskInv DEF RingInv, TypeOK, OwnQueue, NoQueue
<1>4. t # Reader
  BY <1>1, ReaderNeverPushes
<1>5. TypeOK'
  <2>1. active_queues' \in 0 .. MaxThreads
    BY <1>1, <1>3, SizeAssumption
  <2>2. TypeOK
    BY DEF RingInv
  <2>. QED  BY <1>1, <1>2, <2>1, <2>2 DEF TypeOK, MovesTo, Moves, readerVars, procVars
<1>6. (saved = [u \in Tasks |-> <<>>])'
  BY <1>1 DEF RingInv
<1>7. \A u \in Tasks : OwnQueue(u)' /\ OwnSlot(u)'
  <2>1. \A u \in Tasks : OwnQueue(u) /\ OwnSlot(u)
    BY DEF RingInv
  <2>. QED  BY <1>1, <1>2, <2>1 DEF OwnQueue, OwnSlot, Pushing, Filling, MovesTo, Moves
<1>8. QueueExclusive'
  <2>1. QueueExclusive
    BY DEF RingInv
  <2>2. \A u \in Tasks : u # t => Held(u)' = Held(u)
    BY <1>1, <1>2 DEF Held, MovesTo, Moves
  <2>3. Held(t)' = active_queues
    BY <1>1, <1>2 DEF Held, MovesTo
  <2>4. \A u \in Tasks : Held(u) \in 0 .. MaxThreads
    BY TaskInv, FrameFields DEF Held
  <2>. QED  BY <1>1, <1>3, <2>1, <2>2, <2>3, <2>4, SizeAssumption
            DEF QueueExclusive, NoQueue
<1>9. PublishedWhole' /\ WholeRecords'
  BY <1>1 DEF RingInv, PublishedWhole, WholeRecords, readerVars
<1>10. ReaderOwnsSlot'
  <2>1. rd.active \in 0 .. MaxThreads
    BY DEF RingInv, TypeOK, ReaderStates
  <2>2. ReaderOwnsSlot
    BY DEF RingInv
  <2>3. rd.active <= active_queues'
    BY <1>1, <1>3, <2>1, <2>2, SizeAssumption DEF ReaderOwnsSlot
  <2>. QED  BY <1>1, <2>2, <2>3 DEF ReaderOwnsSlot, ReadSlot, readerVars
<1>11. ReaderGuarded'
  <2>1. frame'[Reader] = frame[Reader]
    BY <1>2, <1>4 DEF MovesTo, Moves, Tasks
  <2>. QED  BY <1>1, <2>1 DEF RingInv, ReaderGuarded, readerVars
<1>. QED  BY <1>5, <1>6, <1>7, <1>8, <1>9, <1>10, <1>11 DEF RingInv

(* The key of t changes, to the queue it held or to none.                  *)
LEMMA KeyStep ==
  ASSUME RingInv, NEW t \in Tasks, t # Reader, Moves(t), NEW q \in 0 .. MaxThreads,
         tls' = [tls EXCEPT ![t] = q],
         UNCHANGED <<ready, slots, write_head, active_queues, readerVars, procVars, saved>>,
         OwnQueue(t)', OwnSlot(t)',
         Held(t)' \in {Held(t), NoQueue}
  PROVE  RingInv'
<1>1. TypeOK'
  <2>. TypeOK
    BY DEF RingInv
  <2>. QED  BY DEF TypeOK, Moves, readerVars, procVars
<1>2. \A u \in Tasks : u # t => tls'[u] = tls[u] /\ frame'[u] = frame[u]
  BY TaskInv DEF Moves
<1>3. (saved = [u \in Tasks |-> <<>>])'
  BY DEF RingInv
<1>4. \A u \in Tasks : OwnQueue(u)' /\ OwnSlot(u)'
  <2>1. \A u \in Tasks : OwnQueue(u) /\ OwnSlot(u)
    BY DEF RingInv
  <2>. QED  BY <1>2, <2>1 DEF OwnQueue, OwnSlot
<1>5. QueueExclusive'
  <2>1. QueueExclusive
    BY DEF RingInv
  <2>2. \A u \in Tasks : u # t => Held(u)' = Held(u)
    BY <1>2 DEF Held
  <2>. QED  BY <2>1, <2>2 DEF QueueExclusive
<1>6. PublishedWhole' /\ WholeRecords'
  BY DEF RingInv, PublishedWhole, WholeRecords, readerVars
<1>7. ReaderOwnsSlot'
  BY DEF RingInv, ReaderOwnsSlot, ReadSlot, readerVars
<1>8. ReaderGuarded'
  <2>1. frame'[Reader] = frame[Reader]
    BY <1>2 DEF Tasks
  <2>. QED  BY <2>1 DEF RingInv, ReaderGuarded, readerVars
<1>. QED  BY <1>1, <1>3, <1>4, <1>5, <1>6, <1>7, <1>8 DEF RingInv

LEMMA BindQueueInv ==
  ASSUME RingInv, NEW t \in Tasks, BindQueue(t)
  PROVE  RingInv'
<1>1. /\ frame[t].pc = "bind" /\ tls' = [tls EXCEPT ![t] = frame[t].q]
      /\ UNCHANGED <<ready, slots, write_head, active_queues, readerVars, procVars, saved>>
  BY DEF BindQueue, At
<1>2. MovesTo(t, "load")
  BY TaskInv, GotoMoves DEF BindQueue, FramePCs
<1>3. frame[t].q \in 0 .. MaxThreads /\ frame[t].q # NoQueue /\ tls'[t] = frame[t].q
  BY <1>1, TaskInv, FrameFields DEF OwnQueue
<1>4. OwnQueue(t)' /\ OwnSlot(t)'
  BY <1>2, <1>3 DEF OwnQueue, OwnSlot, Pushing, Filling, MovesTo
<1>5. Held(t)' = Held(t)
  BY <1>1, <1>2, <1>3 DEF Held, MovesTo
<1>6. t # Reader
  BY <1>1, ReaderNeverPushes
<1>. QED  BY <1>1, <1>2, <1>3, <1>4, <1>5, <1>6, KeyStep DEF MovesTo

LEMMA ReplaceThreadInv ==
  ASSUME RingInv, NEW t \in Tasks, ReplaceThread(t)
  PROVE  RingInv'
<1>1. /\ frame[t].pc = "app" /\ t # Reader
      /\ tls' = [tls EXCEPT ![t] = NoQueue] /\ frame' = frame
      /\ UNCHANGED <<ready, slots, write_head, active_queues, readerVars, procVars, saved>>
  BY NameAssumption DEF ReplaceThread, At
<1>2. NoQueue \in 0 .. MaxThreads /\ tls'[t] = NoQueue
  BY <1>1, TaskInv, SizeAssumption DEF NoQueue
<1>3. Moves(t)
  BY <1>1, TaskInv DEF Moves
<1>4. OwnQueue(t)' /\ OwnSlot(t)' /\ Held(t)' = NoQueue
  BY <1>1, <1>2 DEF OwnQueue, OwnSlot, Pushing, Filling, Held
<1>. QED  BY <1>1, <1>2, <1>3, <1>4, KeyStep

(* Storing into the slot t is filling.  slots'[q][s] is given for every    *)
(* slot: one slot of t's queue changes, and it is not published.           *)
LEMMA FillStep ==
  ASSUME RingInv, NEW t \in Tasks, frame[t].pc \in {"fill", "strings"}, Moves(t),
         slots' \in [Queues -> [Slots -> Records]],
         \A q \in Queues, s \in Slots :
           q # frame[t].q \/ s # frame[t].w => slots'[q][s] = slots[q][s],
         UNCHANGED <<ready, write_head, active_queues, tls, readerVars, procVars, saved>>,
         OwnQueue(t)', OwnSlot(t)', frame'[t].pc # "bind"
  PROVE  RingInv'
<1>1. /\ frame[t].q \in Queues /\ frame[t].w \in Slots /\ t # Reader
      /\ \A u \in Tasks : u # t /\ frame[u].pc \in Pushing => frame[u].q # frame[t].q
      /\ ~ready[frame[t].q][frame[t].w]
  BY PusherOwns, TaskInv DEF Pushing, OwnSlot, Filling
<1>2. TypeOK'
  <2>. TypeOK
    BY DEF RingInv
  <2>. QED  BY DEF TypeOK, Moves, readerVars, procVars
<1>3. (saved = [u \in Tasks |-> <<>>])'
  BY DEF RingInv
<1>4. \A u \in Tasks : OwnQueue(u)' /\ OwnSlot(u)'
  <2>. SUFFICES ASSUME NEW u \in Tasks, u # t PROVE OwnQueue(u)' /\ OwnSlot(u)'
    OBVIOUS
  <2>1. OwnQueue(u) /\ OwnSlot(u) /\ frame'[u] = frame[u]
    BY TaskInv DEF Moves
  <2>2. OwnQueue(u)'
    BY <2>1 DEF OwnQueue
  <2>3. CASE frame[u].pc \in Pushing
    <3>1. frame[u].q \in Queues /\ frame[u].w \in Slots /\ frame[u].q # frame[t].q
      BY <1>1, <2>3, PusherOwns
    <3>2. slots'[frame[u].q][frame[u].w] = slots[frame[u].q][frame[u].w]
      BY <3>1
    <3>. QED  BY <2>1, <2>2, <3>2 DEF OwnSlot
  <2>4. CASE frame[u].pc \notin Pushing
    BY <2>1, <2>2, <2>4 DEF OwnSlot, Pushing, Filling
  <2>. QED  BY <2>3, <2>4
<1>5. QueueExclusive'
  <2>1. QueueExclusive
    BY DEF RingInv
  <2>2. \A u \in Tasks : u # t => Held(u)' = Held(u)
    BY DEF Held, Moves
  <2>3. Held(t)' = Held(t)
    BY DEF Held
  <2>. QED  BY <2>1, <2>2, <2>3 DEF QueueExclusive
<1>6. PublishedWhole'
  <2>. SUFFICES ASSUME NEW q \in Queues, NEW s \in Slots, ready[q][s]
                PROVE  slots'[q][s].hdr = slots'[q][s].str
    BY DEF PublishedWhole
  <2>1. slots'[q][s] = slots[q][s]
    BY <1>1
  <2>. QED  BY <2>1 DEF RingInv, PublishedWhole
<1>7. WholeRecords' /\ ReaderOwnsSlot'
  BY DEF RingInv, WholeRecords, ReaderOwnsSlot, ReadSlot, readerVars
<1>8. ReaderGuarded'
  <2>1. frame'[Reader] = frame[Reader]
    BY <1>1 DEF Moves, Tasks
  <2>. QED  BY <2>1 DEF RingInv, ReaderGuarded, readerVars
<1>. QED  BY <1>2, <1>3, <1>4, <1>5, <1>6, <1>7, <1>8 DEF RingInv

LEMMA FillHeadInv ==
  ASSUME RingInv, NEW t \in Tasks, FillHead(t)
  PROVE  RingInv'
<1>1. /\ frame[t].pc = "fill"
      /\ slots' = [slots EXCEPT ![frame[t].q][frame[t].w].hdr = frame[t].ev]
      /\ UNCHANGED <<ready, write_head, active_queues, tls, readerVars, procVars, saved>>
  BY DEF FillHead, At
<1>2. MovesTo(t, "strings")
  BY TaskInv, GotoMoves DEF FillHead, FramePCs
<1>3. /\ frame[t].q \in Queues /\ frame[t].w \in Slots /\ frame[t].ev \in Events
      /\ OwnQueue(t) /\ OwnSlot(t)
  BY <1>1, PusherOwns, TaskInv DEF Pushing
<1>4. slots \in [Queues -> [Slots -> Records]]
  BY DEF RingInv, TypeOK
<1>5. slots' \in [Queues -> [Slots -> Records]]
  BY <1>1, <1>3, <1>4 DEF Records
<1>6. \A q \in Queues, s \in Slots :
        q # frame[t].q \/ s # frame[t].w => slots'[q][s] = slots[q][s]
  BY <1>1, <1>3, <1>4 DEF Records
<1>7. slots'[frame[t].q][frame[t].w].hdr = frame[t].ev
  BY <1>1, <1>3, <1>4 DEF Records
<1>8. OwnQueue(t)' /\ OwnSlot(t)'
  BY <1>1, <1>2, <1>3, <1>7 DEF OwnQueue, OwnSlot, Pushing, Filling, MovesTo
<1>. QED  BY <1>1, <1>2, <1>5, <1>6, <1>8, FillStep DEF MovesTo

LEMMA FillStringsInv ==
  ASSUME RingInv, NEW t \in Tasks, FillStrings(t)
  PROVE  RingInv'
<1>1. /\ frame[t].pc = "strings"
      /\ slots' = [slots EXCEPT ![frame[t].q][frame[t].w].str = frame[t].ev]
      /\ UNCHANGED <<ready, write_head, active_queues, tls, readerVars, procVars, saved>>
  BY DEF FillStrings, At
<1>2. MovesTo(t, "advance")
  BY TaskInv, GotoMoves DEF FillStrings, FramePCs
<1>3. /\ frame[t].q \in Queues /\ frame[t].w \in Slots /\ frame[t].ev \in Events
      /\ OwnQueue(t) /\ OwnSlot(t)
  BY <1>1, PusherOwns, TaskInv DEF Pushing
<1>4. slots \in [Queues -> [Slots -> Records]]
  BY DEF RingInv, TypeOK
<1>5. slots' \in [Queues -> [Slots -> Records]]
  BY <1>1, <1>3, <1>4 DEF Records
<1>6. \A q \in Queues, s \in Slots :
        q # frame[t].q \/ s # frame[t].w => slots'[q][s] = slots[q][s]
  BY <1>1, <1>3, <1>4 DEF Records
<1>7. /\ slots'[frame[t].q][frame[t].w].hdr = frame[t].ev
      /\ slots'[frame[t].q][frame[t].w].str = frame[t].ev
  BY <1>1, <1>3, <1>4 DEF Records, OwnSlot
<1>8. OwnQueue(t)' /\ OwnSlot(t)'
  BY <1>1, <1>2, <1>3, <1>7 DEF OwnQueue, OwnSlot, Pushing, Filling, MovesTo
<1>. QED  BY <1>1, <1>2, <1>5, <1>6, <1>8, FillStep DEF MovesTo

LEMMA AdvanceInv ==
  ASSUME RingInv, NEW t \in Tasks, Advance(t)
  PROVE  RingInv'
<1>1. /\ frame[t].pc = "advance"
      /\ write_head' = [write_head EXCEPT ![frame[t].q] = After(frame[t].w)]
      /\ UNCHANGED <<ready, slots, active_queues, tls, readerVars, procVars, saved>>
  BY DEF Advance, At
<1>2. MovesTo(t, "publish")
  BY TaskInv, GotoMoves DEF Advance, FramePCs
<1>3. /\ frame[t].q \in Queues /\ frame[t].w \in Slots /\ t # Reader
      /\ OwnQueue(t) /\ OwnSlot(t)
  BY <1>1, PusherOwns, TaskInv DEF Pushing
<1>4. TypeOK'
  <2>1. TypeOK
    BY DEF RingInv
  <2>2. After(frame[t].w) \in Slots
    BY <1>3, SizeAssumption DEF After, Slots
  <2>3. write_head' \in [Queues -> Slots]
    BY <1>1, <2>1, <2>2 DEF TypeOK
  <2>. QED  BY <1>1, <1>2, <2>1, <2>3 DEF TypeOK, MovesTo, Moves, readerVars, procVars
<1>5. (saved = [u \in Tasks |-> <<>>])'
  BY <1>1 DEF RingInv
<1>6. \A u \in Tasks : OwnQueue(u)' /\ OwnSlot(u)'
  <2>1. \A u \in Tasks : OwnQueue(u) /\ OwnSlot(u)
    BY DEF RingInv
  <2>2. OwnQueue(t)' /\ OwnSlot(t)'
    BY <1>1, <1>2, <2>1 DEF OwnQueue, OwnSlot, Pushing, Filling, MovesTo
  <2>3. \A u \in Tasks : u # t => OwnQueue(u)' /\ OwnSlot(u)'
    BY <1>1, <1>2, <2>1 DEF OwnQueue, OwnSlot, MovesTo, Moves
  <2>. QED  BY <2>2, <2>3
<1>7. QueueExclusive'
  <2>1. QueueExclusive
    BY DEF RingInv
  <2>2. \A u \in Tasks : Held(u)' = Held(u)
    BY <1>1, <1>2 DEF Held, MovesTo, Moves
  <2>. QED  BY <1>1, <2>1, <2>2 DEF QueueExclusive
<1>8. PublishedWhole' /\ WholeRecords' /\ ReaderOwnsSlot'
  BY <1>1 DEF RingInv, PublishedWhole, WholeRecords, ReaderOwnsSlot, ReadSlot, readerVars
<1>9. ReaderGuarded'
  <2>1. frame'[Reader] = frame[Reader]
    BY <1>2, <1>3 DEF MovesTo, Moves, Tasks
  <2>. QED  BY <1>1, <2>1 DEF RingInv, ReaderGuarded, readerVars
<1>. QED  BY <1>4, <1>5, <1>6, <1>7, <1>8, <1>9 DEF RingInv

LEMMA PublishInv ==
  ASSUME RingInv, NEW t \in Tasks, Publish(t)
  PROVE  RingInv'
<1>1. /\ frame[t].pc = "publish"
      /\ ready' = [ready EXCEPT ![frame[t].q][frame[t].w] = TRUE]
      /\ UNCHANGED <<slots, write_head, active_queues, tls, readerVars, procVars, saved>>
  BY DEF Publish, At
<1>2. Moves(t) /\ frame'[t].pc = "forward"
  BY TaskInv, LeaveMoves DEF Publish
<1>3. /\ frame[t].q \in Queues /\ frame[t].w \in Slots /\ t # Reader
      /\ OwnQueue(t) /\ OwnSlot(t)
      /\ \A u \in Tasks : u # t /\ frame[u].pc \in Pushing => frame[u].q # frame[t].q
  BY <1>1, PusherOwns, TaskInv DEF Pushing
<1>4. ready \in [Queues -> [Slots -> BOOLEAN]]
  BY DEF RingInv, TypeOK
<1>5. /\ ready' \in [Queues -> [Slots -> BOOLEAN]]
      /\ \A q \in Queues, s \in Slots :
           q # frame[t].q \/ s # frame[t].w => ready'[q][s] = ready[q][s]
      /\ ready'[frame[t].q][frame[t].w]
  BY <1>1, <1>3, <1>4
<1>6. TypeOK'
  <2>1. TypeOK
    BY DEF RingInv
  <2>. QED  BY <1>1, <1>2, <1>5, <2>1 DEF TypeOK, Moves, readerVars, procVars
<1>7. (saved = [u \in Tasks |-> <<>>])'
  BY <1>1 DEF RingInv
<1>8. \A u \in Tasks : OwnQueue(u)' /\ OwnSlot(u)'
  <2>1. OwnQueue(t)' /\ OwnSlot(t)'
    BY <1>2 DEF OwnQueue, OwnSlot, Pushing, Filling
  <2>2. ASSUME NEW u \in Tasks, u # t PROVE OwnQueue(u)' /\ OwnSlot(u)'
    <3>1. OwnQueue(u) /\ OwnSlot(u) /\ frame'[u] = frame[u]
      BY <1>2, <2>2, TaskInv DEF Moves
    <3>2. OwnQueue(u)'
      BY <1>1, <3>1 DEF OwnQueue
    <3>3. CASE frame[u].pc \in Pushing
      <4>1. frame[u].q \in Queues /\ frame[u].w \in Slots /\ frame[u].q # frame[t].q
        BY <1>3, <2>2, <3>3, PusherOwns
      <4>2. ready'[frame[u].q][frame[u].w] = ready[frame[u].q][frame[u].w]
        BY <1>5, <4>1
      <4>. QED  BY <1>1, <3>1, <3>2, <4>2 DEF OwnSlot
    <3>4. CASE frame[u].pc \notin Pushing
      BY <3>1, <3>2, <3>4 DEF OwnSlot, Pushing, Filling
    <3>. QED  BY <3>3, <3>4
  <2>. QED  BY <2>1, <2>2
<1>9. QueueExclusive'
  <2>1. QueueExclusive
    BY DEF RingInv
  <2>2. \A u \in Tasks : Held(u)' = Held(u)
    BY <1>1, <1>2 DEF Held, Moves
  <2>. QED  BY <1>1, <2>1, <2>2 DEF QueueExclusive
<1>10. PublishedWhole'
  <2>. SUFFICES ASSUME NEW q \in Queues, NEW s \in Slots, ready'[q][s]
                PROVE  slots[q][s].hdr = slots[q][s].str
    BY <1>1 DEF PublishedWhole
  <2>1. CASE q = frame[t].q /\ s = frame[t].w
    BY <1>1, <1>3, <2>1 DEF OwnSlot
  <2>2. CASE q # frame[t].q \/ s # frame[t].w
    BY <1>5, <2>2 DEF RingInv, PublishedWhole
  <2>. QED  BY <2>1, <2>2
<1>11. WholeRecords'
  BY <1>1 DEF RingInv, WholeRecords, readerVars
<1>12. ReaderOwnsSlot'
  <2>1. ReaderOwnsSlot /\ active_queues \in 0 .. MaxThreads
        /\ rd.active \in 0 .. MaxThreads /\ rd.i \in 0 .. MaxThreads
        /\ read_heads \in [Queues -> Slots]
    BY DEF RingInv, TypeOK, ReaderStates
  <2>2. rd.pc \in Reading => rd.i \in Queues /\ read_heads[rd.i] \in Slots
    BY <2>1, SizeAssumption DEF ReaderOwnsSlot, Queues
  <2>3. rd.pc \in Reading => ready'[rd.i][read_heads[rd.i]]
    BY <1>5, <2>1, <2>2 DEF ReaderOwnsSlot, ReadSlot
  <2>. QED  BY <1>1, <2>1, <2>3 DEF ReaderOwnsSlot, ReadSlot, readerVars
<1>13. ReaderGuarded'
  <2>1. frame'[Reader] = frame[Reader]
    BY <1>2, <1>3 DEF Moves, Tasks
  <2>. QED  BY <1>1, <2>1 DEF RingInv, ReaderGuarded, readerVars
<1>. QED  BY <1>6, <1>7, <1>8, <1>9, <1>10, <1>11, <1>12, <1>13 DEF RingInv

-----------------------------------------------------------------------------
(* The reader.  A step that leaves the rings and the activations alone     *)
(* keeps RingInv if the reader's own conjuncts hold after it.              *)
LEMMA ReaderOnly ==
  ASSUME RingInv, UNCHANGED <<ringVars, frame, saved>>,
         rd' \in ReaderStates, read_heads' = read_heads,
         reader_writing' \in BOOLEAN, out' = out,
         reader_done' \in BOOLEAN, live' \subseteq Tasks, UNCHANGED <<shutdown, child, proc>>,
         ReaderOwnsSlot', ReaderGuarded'
  PROVE  RingInv'
<1>1. TypeOK'
  BY DEF RingInv, TypeOK, ringVars
<1>2. (saved = [u \in Tasks |-> <<>>])'
  BY DEF RingInv
<1>3. \A u \in Tasks : OwnQueue(u)' /\ OwnSlot(u)'
  BY DEF RingInv, OwnQueue, OwnSlot, ringVars
<1>4. QueueExclusive'
  BY DEF RingInv, QueueExclusive, Held, ringVars
<1>5. PublishedWhole' /\ WholeRecords'
  BY DEF RingInv, PublishedWhole, WholeRecords, ringVars
<1>. QED  BY <1>1, <1>2, <1>3, <1>4, <1>5 DEF RingInv

LEMMA ReaderTypes ==
  ASSUME RingInv
  PROVE  /\ rd \in ReaderStates
         /\ read_heads \in [Queues -> Slots]
         /\ active_queues \in 0 .. MaxThreads
         /\ frame \in [Tasks -> Frames]
         /\ Reader \in Tasks /\ live \subseteq Tasks
         /\ reader_writing \in BOOLEAN /\ reader_done \in BOOLEAN
         /\ slots \in [Queues -> [Slots -> Records]]
         /\ ready \in [Queues -> [Slots -> BOOLEAN]]
         /\ ReaderOwnsSlot /\ ReaderGuarded
  BY DEF RingInv, TypeOK, Tasks

(* What the reader holds lies inside the rings.                            *)
LEMMA ReaderInside ==
  ASSUME RingInv, rd.pc \in Reading
  PROVE  rd.i \in Queues /\ ReadSlot \in Slots
<1>1. rd.i \in 0 .. MaxThreads /\ rd.active \in 0 .. MaxThreads
  BY ReaderTypes DEF ReaderStates
<1>2. rd.i \in Queues
  BY <1>1, ReaderTypes, SizeAssumption DEF ReaderOwnsSlot, Queues
<1>. QED  BY <1>2, ReaderTypes DEF ReadSlot

LEMMA StartPassInv ==
  ASSUME RingInv, StartPass
  PROVE  RingInv'
<1>1. /\ rd.pc = "pass" /\ frame[Reader].pc = "app"
      /\ rd' = [rd EXCEPT !.pc = "scan", !.active = active_queues, !.i = 0, !.n = 0,
                          !.idle = TRUE]
      /\ UNCHANGED <<ringVars, procVars, frame, saved, read_heads, reader_writing, out>>
  BY DEF StartPass, ReaderAt
<1>2. /\ rd' \in ReaderStates /\ rd'.pc = "scan" /\ rd'.active = active_queues
      /\ rd'.i = 0
  <2>1. rd \in ReaderStates /\ active_queues \in 0 .. MaxThreads
    BY ReaderTypes
  <2>2. 0 \in 0 .. MaxThreads /\ 0 \in 0 .. Batch
    BY SizeAssumption
  <2>. QED  BY <1>1, <2>1, <2>2 DEF ReaderStates, ReaderPCs
<1>3. ReaderOwnsSlot'
  BY <1>1, <1>2, ReaderTypes, SizeAssumption DEF ReaderOwnsSlot, Reading, ringVars
<1>4. ReaderGuarded'
  BY <1>1, <1>2 DEF ReaderGuarded
<1>. QED  BY <1>1, <1>2, <1>3, <1>4, ReaderTypes, ReaderOnly DEF procVars

LEMMA TakeSlotInv ==
  ASSUME RingInv, TakeSlot
  PROVE  RingInv'
<1>1. /\ rd.pc = "scan" /\ frame[Reader].pc = "app"
      /\ rd.i < rd.active /\ rd.n < Batch /\ ready[rd.i][ReadSlot]
      /\ rd' = [rd EXCEPT !.pc = "format", !.idle = FALSE]
      /\ UNCHANGED <<ringVars, procVars, frame, saved, read_heads, reader_writing, out>>
  BY DEF TakeSlot, ReaderAt
<1>2. /\ rd' \in ReaderStates /\ rd'.pc = "format" /\ rd'.active = rd.active
      /\ rd'.i = rd.i /\ rd'.n = rd.n
  BY <1>1, ReaderTypes DEF ReaderStates, ReaderPCs
<1>3. ReaderOwnsSlot'
  BY <1>1, <1>2, ReaderTypes DEF ReaderOwnsSlot, ReadSlot, Reading, ringVars
<1>4. ReaderGuarded'
  BY <1>1, <1>2 DEF ReaderGuarded
<1>. QED  BY <1>1, <1>2, <1>3, <1>4, ReaderTypes, ReaderOnly DEF procVars

LEMMA NextQueueInv ==
  ASSUME RingInv, NextQueue
  PROVE  RingInv'
<1>1. /\ rd.pc = "scan" /\ frame[Reader].pc = "app" /\ rd.i < rd.active
      /\ rd' = [rd EXCEPT !.i = @ + 1, !.n = 0]
      /\ UNCHANGED <<ringVars, procVars, frame, saved, read_heads, reader_writing, out>>
  BY DEF NextQueue, ReaderAt
<1>2. rd.i \in 0 .. MaxThreads /\ rd.active \in 0 .. MaxThreads
  BY ReaderTypes DEF ReaderStates
<1>3. rd.i + 1 \in 0 .. MaxThreads /\ rd.i + 1 <= rd.active
  BY <1>1, <1>2, SizeAssumption
<1>4. /\ rd' \in ReaderStates /\ rd'.pc = "scan" /\ rd'.active = rd.active
      /\ rd'.i = rd.i + 1
  <2>1. rd \in ReaderStates
    BY ReaderTypes
  <2>2. 0 \in 0 .. Batch
    BY SizeAssumption
  <2>. QED  BY <1>1, <1>3, <2>1, <2>2 DEF ReaderStates
<1>5. ReaderOwnsSlot'
  BY <1>1, <1>3, <1>4, ReaderTypes DEF ReaderOwnsSlot, Reading, ringVars
<1>6. ReaderGuarded'
  BY <1>1, <1>4 DEF ReaderGuarded
<1>. QED  BY <1>1, <1>4, <1>5, <1>6, ReaderTypes, ReaderOnly DEF procVars

(* The reader moves to pc, which is no place where it reads a slot.        *)
LEMMA ReaderRests ==
  ASSUME RingInv, rd.pc \notin Reading, frame[Reader].pc = "app",
         NEW pc \in {"idle", "pass", "done"},
         rd' = [rd EXCEPT !.pc = pc],
         UNCHANGED <<ringVars, frame, saved, read_heads, reader_writing, out>>,
         reader_done' \in BOOLEAN, live' \subseteq Tasks, UNCHANGED <<shutdown, child, proc>>
  PROVE  RingInv'
<1>1. rd' \in ReaderStates /\ rd'.pc = pc /\ rd'.active = rd.active
  BY ReaderTypes DEF ReaderStates, ReaderPCs
<1>2. ReaderOwnsSlot'
  BY <1>1, ReaderTypes DEF ReaderOwnsSlot, Reading, ringVars
<1>3. ReaderGuarded'
  BY <1>1 DEF ReaderGuarded
<1>. QED  BY <1>1, <1>2, <1>3, ReaderTypes, ReaderOnly

LEMMA PassEndInv ==
  ASSUME RingInv, EndPass \/ Sleep \/ Finish
  PROVE  RingInv'
<1>1. CASE EndPass
  <2>. DEFINE pc == IF rd.idle THEN "idle" ELSE "pass"
  <2>1. /\ rd.pc = "scan" /\ frame[Reader].pc = "app" /\ pc \in {"idle", "pass", "done"}
        /\ rd' = [rd EXCEPT !.pc = pc]
        /\ UNCHANGED <<ringVars, procVars, frame, saved, read_heads, reader_writing, out>>
    BY <1>1 DEF EndPass, ReaderAt
  <2>. HIDE DEF pc
  <2>2. rd.pc \notin Reading
    BY <2>1 DEF Reading
  <2>. QED  BY <2>1, <2>2, ReaderTypes, ReaderRests DEF procVars
<1>2. CASE Sleep
  <2>1. /\ rd.pc \notin Reading /\ frame[Reader].pc = "app"
        /\ rd' = [rd EXCEPT !.pc = "pass"]
        /\ UNCHANGED <<ringVars, procVars, frame, saved, read_heads, reader_writing, out>>
    BY <1>2 DEF Sleep, ReaderAt, Reading
  <2>. QED  BY <2>1, ReaderTypes, ReaderRests DEF procVars
<1>3. CASE Finish
  <2>1. /\ rd.pc \notin Reading /\ frame[Reader].pc = "app"
        /\ rd' = [rd EXCEPT !.pc = "done"]
        /\ reader_done' = TRUE /\ live' = live \ {Reader}
        /\ UNCHANGED <<ringVars, frame, saved, read_heads, reader_writing, out,
                       shutdown, child, proc>>
    BY <1>3 DEF Finish, ReaderAt, Reading
  <2>. QED  BY <2>1, ReaderTypes, ReaderRests
<1>. QED  BY <1>1, <1>2, <1>3

LEMMA FormatInv ==
  ASSUME RingInv, Format
  PROVE  RingInv'
<1>1. /\ rd.pc = "format" /\ frame[Reader].pc = "app"
      /\ rd' = [rd EXCEPT !.pc = "guard", !.rec = slots[rd.i][ReadSlot]]
      /\ UNCHANGED <<ringVars, procVars, frame, saved, read_heads, reader_writing, out>>
  BY DEF Format, ReaderAt
<1>2. /\ rd.i \in Queues /\ ReadSlot \in Slots /\ ready[rd.i][ReadSlot]
      /\ rd.i < rd.active /\ rd.n < Batch
  BY <1>1, ReaderInside, ReaderTypes DEF ReaderOwnsSlot, Reading
<1>3. /\ slots[rd.i][ReadSlot] \in Records
      /\ slots[rd.i][ReadSlot].hdr = slots[rd.i][ReadSlot].str
  BY <1>2, ReaderTypes DEF RingInv, PublishedWhole
<1>4. /\ rd' \in ReaderStates /\ rd'.pc = "guard" /\ rd'.active = rd.active
      /\ rd'.i = rd.i /\ rd'.n = rd.n /\ rd'.rec = slots[rd.i][ReadSlot]
  BY <1>1, <1>3, ReaderTypes DEF ReaderStates, ReaderPCs
<1>5. ReaderOwnsSlot'
  BY <1>1, <1>2, <1>3, <1>4, ReaderTypes DEF ReaderOwnsSlot, ReadSlot, Reading, ringVars
<1>6. ReaderGuarded'
  BY <1>1, <1>4 DEF ReaderGuarded
<1>. QED  BY <1>1, <1>4, <1>5, <1>6, ReaderTypes, ReaderOnly DEF procVars

LEMMA GuardInv ==
  ASSUME RingInv, SetGuard \/ ClearGuard
  PROVE  RingInv'
<1>. DEFINE pc == IF rd.pc = "guard" THEN "write" ELSE "release"
<1>1. /\ rd.pc \in {"guard", "unguard"} /\ frame[Reader].pc = "app"
      /\ pc \in {"write", "release"}
      /\ reader_writing' = (pc = "write")
      /\ rd' = [rd EXCEPT !.pc = pc]
      /\ UNCHANGED <<ringVars, procVars, frame, saved, read_heads, out>>
  BY DEF SetGuard, ClearGuard, ReaderAt
<1>. HIDE DEF pc
<1>2. /\ rd' \in ReaderStates /\ rd'.pc = pc /\ rd'.active = rd.active
      /\ rd'.i = rd.i /\ rd'.n = rd.n /\ rd'.rec = rd.rec
  BY <1>1, ReaderTypes DEF ReaderStates, ReaderPCs
<1>3. ReaderOwnsSlot'
  BY <1>1, <1>2, ReaderTypes DEF ReaderOwnsSlot, ReadSlot, Reading, ringVars
<1>4. ReaderGuarded'
  BY <1>1, <1>2 DEF ReaderGuarded
<1>. QED  BY <1>1, <1>2, <1>3, <1>4, ReaderTypes, ReaderOnly DEF procVars

(* The reader enters or leaves the hooked write: its activation and rd     *)
(* move together.                                                          *)
LEMMA ReaderWrites ==
  ASSUME RingInv, Moves(Reader), UNCHANGED <<ringVars, saved, read_heads, procVars>>,
         frame'[Reader].pc \in {"app", "enter", "forward"},
         rd' \in ReaderStates, out' \in [q : 0 .. MaxThreads, rec : Records],
         reader_writing' = reader_writing,
         WholeRecords', ReaderOwnsSlot', ReaderGuarded'
  PROVE  RingInv'
<1>1. TypeOK'
  BY DEF RingInv, TypeOK, ringVars, procVars, Moves
<1>2. (saved = [u \in Tasks |-> <<>>])'
  BY DEF RingInv
<1>3. \A u \in Tasks : OwnQueue(u)' /\ OwnSlot(u)'
  <2>1. OwnQueue(Reader)' /\ OwnSlot(Reader)'
    BY DEF OwnQueue, OwnSlot, Pushing, Filling
  <2>2. \A u \in Tasks : u # Reader => OwnQueue(u)' /\ OwnSlot(u)'
    BY DEF RingInv, OwnQueue, OwnSlot, Moves, ringVars
  <2>. QED  BY <2>1, <2>2
<1>4. QueueExclusive'
  <2>1. QueueExclusive
    BY DEF RingInv
  <2>2. \A u \in Tasks : u # Reader => Held(u)' = Held(u)
    BY DEF Held, Moves, ringVars
  <2>3. Held(Reader)' = Held(Reader)
    BY ReaderNeverPushes DEF Held, ringVars
  <2>. QED  BY <2>1, <2>2, <2>3 DEF QueueExclusive, ringVars
<1>5. PublishedWhole'
  BY DEF RingInv, PublishedWhole, ringVars
<1>. QED  BY <1>1, <1>2, <1>3, <1>4, <1>5 DEF RingInv

LEMMA CallWriteInv ==
  ASSUME RingInv, CallWrite
  PROVE  RingInv'
<1>1. /\ rd.pc = "write" /\ rd' = [rd EXCEPT !.pc = "writing"]
      /\ frame' = [frame EXCEPT ![Reader] = Activation("enter", "write", NoEvent)]
      /\ UNCHANGED <<ringVars, procVars, saved, read_heads, reader_writing, out>>
  BY DEF CallWrite, ReaderAt, Begin
<1>2. Moves(Reader) /\ frame'[Reader].pc = "enter" /\ frame'[Reader].kind = "write"
  BY <1>1, ReaderTypes, ActivationMoves DEF FramePCs, Kinds, Events
<1>3. /\ rd' \in ReaderStates /\ rd'.pc = "writing" /\ rd'.active = rd.active
      /\ rd'.i = rd.i /\ rd'.n = rd.n /\ rd'.rec = rd.rec
  BY <1>1, ReaderTypes DEF ReaderStates, ReaderPCs
<1>4. ReaderOwnsSlot'
  BY <1>1, <1>3, ReaderTypes DEF ReaderOwnsSlot, ReadSlot, Reading, ringVars
<1>5. ReaderGuarded'
  BY <1>1, <1>2, <1>3, ReaderTypes DEF ReaderGuarded
<1>6. WholeRecords' /\ out' \in [q : 0 .. MaxThreads, rec : Records]
  BY <1>1 DEF RingInv, WholeRecords, TypeOK
<1>. QED  BY <1>1, <1>2, <1>3, <1>4, <1>5, <1>6, ReaderWrites

LEMMA EmitInv ==
  ASSUME RingInv, Emit
  PROVE  RingInv'
<1>1. /\ frame[Reader].pc = "forward"
      /\ out' = [q |-> rd.i, rec |-> rd.rec] /\ rd' = [rd EXCEPT !.pc = "unguard"]
      /\ frame' = [frame EXCEPT ![Reader] = Activation("app", "call", NoEvent)]
      /\ UNCHANGED <<ringVars, procVars, saved, read_heads, reader_writing>>
  BY DEF Emit, At, Rest
<1>2. rd.pc = "writing"
  BY <1>1, ReaderTypes DEF ReaderGuarded
<1>3. Moves(Reader) /\ frame'[Reader].pc = "app"
  BY <1>1, ReaderTypes, ActivationMoves DEF FramePCs, Kinds, Events
<1>4. /\ rd' \in ReaderStates /\ rd'.pc = "unguard" /\ rd'.active = rd.active
      /\ rd'.i = rd.i /\ rd'.n = rd.n /\ rd'.rec = rd.rec
  BY <1>1, ReaderTypes DEF ReaderStates, ReaderPCs
<1>5. ReaderOwnsSlot'
  BY <1>1, <1>2, <1>4, ReaderTypes DEF ReaderOwnsSlot, ReadSlot, Reading, ringVars
<1>6. ReaderGuarded'
  BY <1>1, <1>2, <1>3, <1>4, ReaderTypes DEF ReaderGuarded
<1>7. WholeRecords' /\ out' \in [q : 0 .. MaxThreads, rec : Records]
  <2>1. rd.i \in 0 .. MaxThreads /\ rd.rec \in Records
    BY ReaderTypes DEF ReaderStates
  <2>2. rd.rec.hdr = rd.rec.str
    BY <1>2, ReaderTypes DEF ReaderOwnsSlot, Reading
  <2>. QED  BY <1>1, <2>1, <2>2 DEF WholeRecords
<1>. QED  BY <1>1, <1>3, <1>4, <1>5, <1>6, <1>7, ReaderWrites

(* Releasing a slot hands it back to its producer: no producer is filling  *)
(* a slot that was published.                                              *)
LEMMA ReleaseInv ==
  ASSUME RingInv, Release
  PROVE  RingInv'
<1>1. /\ rd.pc = "release" /\ frame[Reader].pc = "app"
      /\ ready' = [ready EXCEPT ![rd.i][ReadSlot] = FALSE]
      /\ read_heads' = [read_heads EXCEPT ![rd.i] = After(ReadSlot)]
      /\ rd' = [rd EXCEPT !.pc = "scan", !.n = @ + 1]
      /\ UNCHANGED <<slots, write_head, active_queues, tls, procVars, frame, saved,
                     reader_writing, out>>
  BY DEF Release, ReaderAt
<1>2. rd.i \in Queues /\ ReadSlot \in Slots /\ rd.i < rd.active /\ rd.n < Batch
  BY <1>1, ReaderInside, ReaderTypes DEF ReaderOwnsSlot, Reading
<1>3. /\ ready' \in [Queues -> [Slots -> BOOLEAN]]
      /\ \A q \in Queues, s \in Slots : ready'[q][s] => ready[q][s]
  BY <1>1, <1>2, ReaderTypes
<1>4. /\ rd' \in ReaderStates /\ rd'.pc = "scan" /\ rd'.active = rd.active
      /\ rd'.i = rd.i
  <2>1. rd \in ReaderStates /\ rd.n \in 0 .. Batch
    BY ReaderTypes DEF ReaderStates
  <2>2. rd.n + 1 \in 0 .. Batch
    BY <1>2, <2>1, SizeAssumption
  <2>. QED  BY <1>1, <2>1, <2>2 DEF ReaderStates, ReaderPCs
<1>5. read_heads' \in [Queues -> Slots]
  <2>1. After(ReadSlot) \in Slots
    BY <1>2, SizeAssumption DEF After, Slots
  <2>. QED  BY <1>1, <2>1, ReaderTypes
<1>6. TypeOK'
  BY <1>1, <1>3, <1>4, <1>5 DEF RingInv, TypeOK, procVars
<1>7. (saved = [u \in Tasks |-> <<>>])'
  BY <1>1 DEF RingInv
<1>8. \A u \in Tasks : OwnQueue(u)' /\ OwnSlot(u)'
  <2>. SUFFICES ASSUME NEW u \in Tasks PROVE OwnQueue(u)' /\ OwnSlot(u)'
    OBVIOUS
  <2>1. OwnQueue(u)'
    BY <1>1, TaskInv DEF OwnQueue
  <2>2. CASE frame[u].pc \in Pushing
    <3>1. frame[u].q \in Queues /\ frame[u].w \in Slots
      BY <2>2, PusherOwns
    <3>. QED  BY <1>1, <1>3, <2>1, <3>1, TaskInv DEF OwnSlot
  <2>3. CASE frame[u].pc \notin Pushing
    BY <1>1, <2>1, <2>3 DEF OwnSlot, Pushing, Filling
  <2>. QED  BY <2>1, <2>2, <2>3
<1>9. QueueExclusive'
  BY <1>1 DEF RingInv, QueueExclusive, Held
<1>10. PublishedWhole' /\ WholeRecords'
  BY <1>1, <1>3 DEF RingInv, PublishedWhole, WholeRecords
<1>11. ReaderOwnsSlot'
  <2>1. rd.i \in 0 .. MaxThreads /\ rd.active \in 0 .. MaxThreads
    BY ReaderTypes DEF ReaderStates
  <2>. QED  BY <1>1, <1>2, <1>4, <2>1, ReaderTypes, SizeAssumption
            DEF ReaderOwnsSlot, Reading
<1>12. ReaderGuarded'
  BY <1>1, <1>4, ReaderTypes DEF ReaderGuarded
<1>. QED  BY <1>6, <1>7, <1>8, <1>9, <1>10, <1>11, <1>12 DEF RingInv

-----------------------------------------------------------------------------
(* Calls, forks, the way out.  None of them touches a ring.                *)

(* t, which claims and fills nothing, goes to an activation that claims    *)
(* and fills nothing either.                                               *)
LEMMA AwayStep ==
  ASSUME RingInv, NEW t \in Tasks, Moves(t),
         frame[t].pc # "bind" \/ frame'[t].pc = "flush",
         frame'[t].pc \in {"app", "fork", "enter", "forward", "flush", "poll"},
         t = Reader => frame'[t].pc \in {"app", "flush", "poll"},
         UNCHANGED <<ringVars, readerVars, saved>>,
         shutdown' \in BOOLEAN, reader_done' = reader_done, live' \subseteq Tasks,
         child' \in BOOLEAN, proc' \in {"alive", "dead"}
  PROVE  RingInv'
<1>1. OwnQueue(t)' /\ OwnSlot(t)'
  BY DEF OwnQueue, OwnSlot, Pushing, Filling
<1>2. Held(t)' \in {Held(t), NoQueue}
  <2>1. Held(t)' = tls[t]
    BY DEF Held, ringVars
  <2>2. frame[t].pc = "bind" => tls[t] = NoQueue
    BY TaskInv DEF OwnQueue
  <2>. QED  BY <2>1, <2>2 DEF Held
<1>3. t = Reader => ReaderGuarded'
  BY ReaderTypes DEF ReaderGuarded, readerVars
<1>. QED  BY <1>1, <1>2, <1>3, TaskInv, QuietStep

LEMMA CallInv ==
  ASSUME RingInv, NEW t \in Tasks, NEW k \in Calls, NEW p \in Payload, Call(t, k, p)
  PROVE  RingInv'
<1>. DEFINE pc == IF k = "fork" THEN "fork" ELSE "enter"
<1>1. /\ frame[t].pc = "app" /\ t \in Threads
      /\ frame' = [frame EXCEPT ![t] = Activation(pc, k, p)]
      /\ UNCHANGED <<ringVars, readerVars, procVars, saved>>
  BY DEF Call, At, Begin
<1>2. pc \in {"fork", "enter"} /\ pc \in FramePCs /\ k \in Kinds /\ p \in Events
  BY ModeAssumption DEF FramePCs, Events
<1>. HIDE DEF pc
<1>3. Moves(t) /\ frame'[t].pc = pc
  BY <1>1, <1>2, TaskInv, ActivationMoves
<1>. QED  BY <1>1, <1>2, <1>3, TaskInv, NameAssumption, AwayStep DEF procVars

(* Back to the application.                                                *)
LEMMA RestMoves ==
  ASSUME frame \in [Tasks -> Frames], NEW t \in Tasks, frame' = [frame EXCEPT ![t] = Rest]
  PROVE  Moves(t) /\ frame'[t].pc = "app"
  BY ActivationMoves DEF Rest, FramePCs, Kinds, Events

LEMMA ReturnInv ==
  ASSUME RingInv, NEW t \in Tasks, Return(t) \/ ForkFails(t) \/ ForkChild(t)
  PROVE  RingInv'
<1>1. /\ frame[t].pc \in {"forward", "fork"} /\ frame' = [frame EXCEPT ![t] = Rest]
      /\ UNCHANGED <<ringVars, readerVars, shutdown, reader_done, proc, saved>>
      /\ live' \in {live, {t}} /\ child' \in {child, TRUE}
  BY DEF Return, ForkFails, ForkChild, At, procVars
<1>2. Moves(t) /\ frame'[t].pc = "app"
  BY <1>1, TaskInv, RestMoves
<1>. QED  BY <1>1, <1>2, TaskInv, AwayStep

LEMMA ForkParentInv ==
  ASSUME RingInv, NEW t \in Tasks, ForkParent(t)
  PROVE  RingInv'
<1>1. frame[t].pc = "fork" /\ UNCHANGED <<ringVars, readerVars, procVars, saved>>
  BY DEF ForkParent, At
<1>2. MovesTo(t, "enter")
  BY TaskInv, GotoMoves DEF ForkParent, FramePCs
<1>3. t # Reader
  BY <1>1, ReaderNeverPushes
<1>. QED  BY <1>1, <1>2, <1>3, TaskInv, AwayStep DEF MovesTo, procVars

LEMMA RunAtExitInv ==
  ASSUME RingInv, NEW t \in Tasks, RunAtExit(t)
  PROVE  RingInv'
<1>1. frame[t].pc = "forward" /\ UNCHANGED <<ringVars, readerVars, procVars, saved>>
  BY DEF RunAtExit, At
<1>2. MovesTo(t, "flush")
  BY TaskInv, GotoMoves DEF RunAtExit, FramePCs
<1>. QED  BY <1>1, <1>2, TaskInv, AwayStep DEF MovesTo, procVars

LEMMA TerminateInv ==
  ASSUME RingInv, NEW t \in Tasks, Terminate(t)
  PROVE  RingInv'
<1>1. /\ frame' = [frame EXCEPT ![t] = Activation("flush", "term", NoEvent)]
      /\ saved' = [saved EXCEPT ![t] = <<>>]
      /\ UNCHANGED <<ringVars, readerVars, procVars>>
  BY DEF Terminate
<1>2. Moves(t) /\ frame'[t].pc = "flush"
  BY <1>1, TaskInv, ActivationMoves DEF FramePCs, Kinds, Events
<1>3. saved' = saved
  BY <1>1 DEF RingInv
<1>. QED  BY <1>1, <1>2, <1>3, TaskInv, AwayStep DEF procVars

LEMMA FlushInv ==
  ASSUME RingInv, NEW t \in Tasks, FlushStep(t)
  PROVE  RingInv'
<1>1. CASE RequestDrain(t)
  <2>1. /\ frame[t].pc = "flush" /\ shutdown' = TRUE
        /\ UNCHANGED <<ringVars, readerVars, saved, reader_done, live, child, proc>>
    BY <1>1 DEF RequestDrain, At
  <2>2. MovesTo(t, "poll")
    BY <1>1, TaskInv, GotoMoves DEF RequestDrain, FramePCs
  <2>. QED  BY <2>1, <2>2, TaskInv, AwayStep DEF MovesTo
<1>2. CASE Poll(t)
  <2>1. /\ frame[t].pc = "poll" /\ frame[t].polls < MaxWait
        /\ frame' = [frame EXCEPT ![t].polls = @ + 1]
        /\ UNCHANGED <<ringVars, readerVars, procVars, saved>>
    BY <1>2 DEF Poll, At
  <2>2. frame[t].polls + 1 \in 0 .. MaxWait
    BY <2>1, TaskInv, FrameFields, SizeAssumption
  <2>3. Moves(t) /\ frame'[t].pc = "poll"
    BY <2>1, <2>2, TaskInv DEF Moves, Frames
  <2>. QED  BY <2>1, <2>3, TaskInv, AwayStep DEF procVars
<1>3. CASE FlushInChild(t) \/ Die(t)
  <2>1. /\ frame[t].pc \in {"flush", "poll"} /\ proc' = "dead"
        /\ UNCHANGED <<ringVars, readerVars, frame, saved, shutdown, reader_done, live, child>>
    BY <1>3 DEF FlushInChild, Die, At
  <2>2. Moves(t) /\ frame'[t].pc \in {"flush", "poll"}
    BY <2>1, TaskInv DEF Moves
  <2>. QED  BY <2>1, <2>2, TaskInv, AwayStep
<1>. QED  BY <1>1, <1>2, <1>3 DEF FlushStep

LEMMA ReplaceImageInv ==
  ASSUME RingInv, NEW t \in Tasks, ReplaceImage(t)
  PROVE  RingInv'
  BY DEF ReplaceImage, RingInv, TypeOK, OwnQueue, OwnSlot, QueueExclusive, Held,
         PublishedWhole, WholeRecords, ReaderOwnsSlot, ReadSlot, ReaderGuarded,
         ringVars, readerVars

(* With no nested handlers nothing interrupts and nothing is resumed.      *)
LEMMA NoNesting ==
  ASSUME MaxNest = 0, RingInv, NEW t \in Tasks
  PROVE  ~Resume(t) /\ \A k, p : ~Interrupt(t, k, p)
<1>1. saved[t] = <<>> /\ Len(saved[t]) = 0
  BY TaskInv
<1>. QED  BY <1>1 DEF Resume, Interrupt

-----------------------------------------------------------------------------

LEMMA InitInv ==
  Init => RingInv
<1>. SUFFICES ASSUME Init PROVE RingInv
  OBVIOUS
<1>1. Rest \in Frames /\ Rest.pc = "app" /\ Rest.kind = "call"
  BY ActivationType DEF Rest, FramePCs, Kinds, Events
<1>2. 0 \in Slots /\ 0 \in 0 .. MaxThreads /\ 0 \in 0 .. Batch
      /\ NoQueue \in 0 .. MaxThreads
  BY SizeAssumption DEF Slots, NoQueue
<1>3. Blank \in Records /\ Blank.hdr = Blank.str
  BY DEF Blank, Records, Events
<1>4. TypeOK
  <2>1. frame \in [Tasks -> Frames] /\ tls \in [Tasks -> 0 .. MaxThreads]
    BY <1>1, <1>2 DEF Init
  <2>2. saved \in [Tasks -> Seq(Frames)]
    <3>1. <<>> \in Seq(Frames)
      OBVIOUS
    <3>. QED  BY <3>1 DEF Init
  <2>3. /\ ready \in [Queues -> [Slots -> BOOLEAN]]
        /\ slots \in [Queues -> [Slots -> Records]]
        /\ write_head \in [Queues -> Slots] /\ read_heads \in [Queues -> Slots]
    BY <1>2, <1>3 DEF Init
  <2>4. rd \in ReaderStates
    BY <1>2, <1>3 DEF Init, ReaderStates, ReaderPCs
  <2>5. out \in [q : 0 .. MaxThreads, rec : Records]
    BY <1>2, <1>3 DEF Init
  <2>. QED  BY <1>2, <2>1, <2>2, <2>3, <2>4, <2>5 DEF Init, TypeOK
<1>5. \A t \in Tasks : frame[t].pc = "app" /\ tls[t] = NoQueue
  BY <1>1 DEF Init
<1>6. \A t \in Tasks : OwnQueue(t) /\ OwnSlot(t) /\ Held(t) = NoQueue
  BY <1>5 DEF OwnQueue, OwnSlot, Held, Pushing, Filling
<1>7. QueueExclusive
  BY <1>6 DEF QueueExclusive
<1>8. PublishedWhole /\ WholeRecords
  BY <1>3 DEF Init, PublishedWhole, WholeRecords
<1>9. ReaderOwnsSlot
  BY DEF Init, ReaderOwnsSlot, Reading
<1>10. ReaderGuarded
  <2>1. frame[Reader].pc = "app" /\ rd.pc = "pass"
    BY <1>5 DEF Init, Tasks
  <2>. QED  BY <2>1 DEF ReaderGuarded
<1>. QED  BY <1>4, <1>6, <1>7, <1>8, <1>9, <1>10 DEF RingInv, Init

LEMMA ProduceInv ==
  ASSUME RingInv, NEW t \in Tasks, Produce(t)
  PROVE  RingInv'
BY SkipTraceInv, GetQueueInv, LoadActiveInv, DropInv, ClaimQueueInv, ClaimFailsInv,
   BindQueueInv, LoadHeadInv, SlotFreeInv, FillHeadInv, FillStringsInv, AdvanceInv,
   PublishInv
DEF Produce

LEMMA ReaderStepInv ==
  ASSUME RingInv, ReaderStep
  PROVE  RingInv'
BY StartPassInv, TakeSlotInv, NextQueueInv, PassEndInv, FormatInv, GuardInv,
   CallWriteInv, EmitInv, ReleaseInv
DEF ReaderStep

LEMMA NextInv ==
  ASSUME MaxNest = 0, RingInv, [Next]_vars
  PROVE  RingInv'
<1>1. ASSUME NEW t \in Tasks, HandlerStep(t) PROVE RingInv'
  BY <1>1, ProduceInv, ReturnInv, RunAtExitInv, ForkParentInv, NoNesting DEF HandlerStep
<1>2. ASSUME NEW t \in Tasks, FlushStep(t) PROVE RingInv'
  BY <1>2, FlushInv
<1>3. ASSUME NEW t \in Tasks, Environment(t) PROVE RingInv'
  BY <1>3, CallInv, NoNesting, ReplaceThreadInv, ReplaceImageInv, TerminateInv
  DEF Environment
<1>4. CASE ReaderStep
  BY <1>4, ReaderStepInv
<1>5. CASE UNCHANGED vars
  BY <1>5 DEF vars, ringVars, readerVars, procVars, RingInv, TypeOK, OwnQueue, OwnSlot,
              QueueExclusive, Held, PublishedWhole, WholeRecords, ReaderOwnsSlot,
              ReadSlot, ReaderGuarded
<1>. QED  BY <1>1, <1>2, <1>3, <1>4, <1>5 DEF Next, Dead

(* RingInv holds in every reachable state, for every instance in which the *)
(* application's signal handlers make no hooked call.                      *)
THEOREM RingInvariant ==
  ASSUME MaxNest = 0
  PROVE  Spec => []RingInv
<1>1. RingInv /\ [Next]_vars => RingInv'
  BY NextInv
<1>. QED  BY InitInv, <1>1, PTL DEF Spec

(* The producer and the reader are never in the same slot                  *)
(* (lib.rs:282, 334, 422, 450).                                            *)
THEOREM SlotsNeverRace ==
  ASSUME MaxNest = 0
  PROVE  Spec => []NoSlotRace
<1>1. RingInv => NoSlotRace
  <2>. SUFFICES ASSUME RingInv, NEW t \in Tasks, frame[t].pc \in {"fill", "strings"},
                       rd.pc = "format", rd.i = frame[t].q, ReadSlot = frame[t].w
                PROVE  FALSE
    BY DEF NoSlotRace
  <2>1. ~ready[frame[t].q][frame[t].w]
    BY TaskInv DEF OwnSlot, Filling
  <2>2. ready[rd.i][ReadSlot]
    BY ReaderTypes DEF ReaderOwnsSlot, Reading
  <2>. QED  BY <2>1, <2>2
<1>. QED  BY <1>1, RingInvariant, PTL

(* A record that was written is the record one call pushed.                *)
THEOREM RecordsStayWhole ==
  ASSUME MaxNest = 0
  PROVE  Spec => []WholeRecords
<1>1. RingInv => WholeRecords
  BY DEF RingInv
<1>. QED  BY <1>1, RingInvariant, PTL
=============================================================================
