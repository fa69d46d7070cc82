---------------------------- MODULE NestingProofs ----------------------------
(***************************************************************************)
(* What EventRing guarantees however many signal handlers of the           *)
(* application that make hooked calls are nested on a thread.  NestInv     *)
(* speaks of every activation on a thread's stack: an interrupted claim is *)
(* resumed with the queue it was about to bind, and what interrupts the    *)
(* reader is told from the reader's own write at the bottom of its stack.  *)
(***************************************************************************)
EXTENDS EventRingProofs

(* The stack is what was interrupted, and the running activation on top.   *)
LEMMA StackShape ==
  ASSUME TypeOK, NEW t \in Tasks
  PROVE  /\ frame[t] \in Frames /\ saved[t] \in Seq(Frames) /\ Len(saved[t]) \in Nat
         /\ Stack(t) \in Seq(Frames)
         /\ Len(Stack(t)) = Len(saved[t]) + 1
         /\ Stack(t)[Len(saved[t]) + 1] = frame[t]
         /\ \A n \in 1 .. Len(saved[t]) : Stack(t)[n] = saved[t][n]
         /\ saved[t] = <<>> <=> Len(saved[t]) = 0
  BY DEF TypeOK, Stack

(* The running activation fits; if it is nested it is a call or a write.   *)
LEMMA TopInv ==
  ASSUME NestInv, NEW t \in Tasks
  PROVE  /\ TypeOK /\ frame \in [Tasks -> Frames] /\ frame[t] \in Frames
         /\ Fitting(frame[t])
         /\ saved[t] # <<>> => frame[t].kind \in {"call", "write"}
         /\ child /\ t \in live => frame[t].pc # "poll"
<1>1. TypeOK /\ frame \in [Tasks -> Frames]
  BY DEF NestInv, TypeOK
<1>. DEFINE n == Len(saved[t]) + 1
<1>2. n \in 1 .. Len(Stack(t)) /\ Stack(t)[n] = frame[t] /\ (saved[t] # <<>> => n > 1)
  BY <1>1, StackShape
<1>3. /\ Fitting(Stack(t)[n])
      /\ n > 1 => Stack(t)[n].kind \in {"call", "write"}
      /\ child /\ t \in live => Stack(t)[n].pc # "poll"
  BY <1>2 DEF NestInv, StackInv
<1>. QED  BY <1>1, <1>2, <1>3

(* Where the reader is when nothing interrupts it.                         *)
LEMMA ReaderTop ==
  ASSUME NestInv, saved[Reader] = <<>>
  PROVE  /\ frame[Reader].pc \in {"app", "enter", "forward", "flush", "poll"}
         /\ frame[Reader].pc \in {"enter", "forward"} =>
              frame[Reader].kind = "write" /\ rd.pc = "writing"
<1>1. Stack(Reader)[1] = frame[Reader]
  BY StackShape DEF NestInv, Tasks
<1>. QED  BY <1>1 DEF NestInv, ReaderInv

(* A step that claims and binds nothing keeps the queues apart.            *)
LEMMA OwnedKept ==
  ASSUME OwnedOnce, active_queues' = active_queues,
         \A t \in Tasks, q \in Queues : Owns(t, q)' => Owns(t, q)
  PROVE  OwnedOnce'
  BY DEF OwnedOnce

-----------------------------------------------------------------------------
(* Steps that change the running activation of one task.                   *)

LEMMA TopMoves ==
  ASSUME TypeOK, TypeOK', NEW t \in Tasks, Moves(t), saved' = saved
  PROVE  /\ \A u \in Tasks : Len(Stack(u)') = Len(Stack(u))
         /\ \A u \in Tasks \ {t} : Stack(u)' = Stack(u)
         /\ \A n \in 1 .. Len(saved[t]) : Stack(t)'[n] = Stack(t)[n]
         /\ Stack(t)'[Len(saved[t]) + 1] = frame'[t]
<1>1. \A u \in Tasks : /\ Len(Stack(u)) = Len(saved[u]) + 1
                       /\ \A n \in 1 .. Len(saved[u]) : Stack(u)[n] = saved[u][n]
  BY StackShape
<1>2. \A u \in Tasks : /\ Len(Stack(u)') = Len(saved[u]) + 1
                       /\ \A n \in 1 .. Len(saved[u]) : Stack(u)'[n] = saved[u][n]
                       /\ Stack(u)'[Len(saved[u]) + 1] = frame'[u]
  <2>. SUFFICES ASSUME NEW u \in Tasks
                PROVE  /\ Len(Stack(u)') = Len(saved[u]) + 1
                       /\ \A n \in 1 .. Len(saved[u]) : Stack(u)'[n] = saved[u][n]
                       /\ Stack(u)'[Len(saved[u]) + 1] = frame'[u]
    OBVIOUS
  <2>1. saved[u] \in Seq(Frames) /\ frame'[u] \in Frames
    BY DEF TypeOK
  <2>2. Stack(u)' = Append(saved[u], frame'[u])
    BY DEF Stack
  <2>. QED  BY <2>1, <2>2
<1>3. \A u \in Tasks \ {t} : Stack(u)' = Stack(u)
  BY DEF Stack, Moves
<1>. QED  BY <1>1, <1>2, <1>3

LEMMA TopStep ==
  ASSUME NestInv, TypeOK', NEW t \in Tasks, Moves(t),
         UNCHANGED <<tls, active_queues, rd, reader_writing, saved, child>>,
         live' \subseteq live,
         Fitting(frame'[t]),
         frame'[t].pc # "bind",
         saved[t] # <<>> => frame'[t].kind \in {"call", "write"},
         child /\ t \in live => frame'[t].pc # "poll",
         t = Reader /\ saved[t] = <<>> =>
           /\ frame'[t].pc \in {"app", "enter", "forward", "flush", "poll"}
           /\ frame'[t].pc \in {"enter", "forward"} =>
                frame'[t].kind = "write" /\ rd.pc = "writing"
  PROVE  NestInv'
<1>. DEFINE k == Len(saved[t]) + 1
<1>1. TypeOK
  BY DEF NestInv
<1>2. /\ \A u \in Tasks : Len(Stack(u)') = Len(Stack(u))
      /\ \A u \in Tasks \ {t} : Stack(u)' = Stack(u)
      /\ \A n \in 1 .. Len(saved[t]) : Stack(t)'[n] = Stack(t)[n]
      /\ Stack(t)'[k] = frame'[t]
  BY <1>1, TopMoves
<1>3. /\ Len(Stack(t)) = k /\ k \in Nat /\ k >= 1 /\ (saved[t] # <<>> <=> k > 1)
      /\ 1 .. k = (1 .. Len(saved[t])) \cup {k}
  BY <1>1, StackShape
<1>. HIDE DEF k
<1>4. StackInv'
  <2>. SUFFICES ASSUME NEW u \in Tasks, NEW n \in 1 .. Len(Stack(u))
                PROVE  /\ Fitting(Stack(u)'[n])
                       /\ n > 1 => Stack(u)'[n].kind \in {"call", "write"}
                       /\ child /\ u \in live' => Stack(u)'[n].pc # "poll"
    BY <1>2 DEF StackInv, Fitting
  <2>1. /\ Fitting(Stack(u)[n])
        /\ n > 1 => Stack(u)[n].kind \in {"call", "write"}
        /\ child /\ u \in live => Stack(u)[n].pc # "poll"
    BY DEF NestInv, StackInv
  <2>2. CASE u = t /\ n = k
    BY <1>2, <1>3, <2>2
  <2>3. CASE u # t \/ n # k
    <3>1. Stack(u)'[n] = Stack(u)[n]
      BY <1>2, <1>3, <2>3
    <3>. QED  BY <2>1, <3>1
  <2>. QED  BY <2>2, <2>3
<1>5. OwnedOnce'
  <2>. SUFFICES ASSUME NEW u \in Tasks, NEW q \in Queues, Owns(u, q)'
                PROVE  Owns(u, q)
    BY OwnedKept DEF NestInv
  <2>1. CASE tls[u] = q
    BY <2>1 DEF Owns
  <2>2. CASE tls[u] # q
    <3>1. PICK n \in 1 .. Len(Stack(u)) : Stack(u)'[n].pc = "bind" /\ Stack(u)'[n].q = q
      BY <1>2, <2>2 DEF Owns
    <3>2. Stack(u)'[n] = Stack(u)[n]
      BY <1>2, <1>3, <3>1
    <3>. QED  BY <3>1, <3>2 DEF Owns
  <2>. QED  BY <2>1, <2>2
<1>6. ReaderInv'
  <2>1. Reader \in Tasks
    BY DEF Tasks
  <2>2. CASE t = Reader /\ saved[t] = <<>>
    <3>1. Stack(Reader)'[1] = frame'[Reader]
      BY <1>2, <1>3, <2>2
    <3>. QED  BY <2>2, <3>1 DEF NestInv, ReaderInv
  <2>3. CASE t # Reader \/ saved[t] # <<>>
    <3>1. Stack(Reader)'[1] = Stack(Reader)[1]
      BY <1>2, <1>3, <2>1, <2>3
    <3>. QED  BY <3>1 DEF NestInv, ReaderInv
  <2>. QED  BY <2>2, <2>3
<1>. QED  BY <1>4, <1>5, <1>6 DEF NestInv


(* A task moves on, and nothing that any task shares changes.              *)
LEMMA TopType ==
  ASSUME TypeOK, NEW t \in Tasks, Moves(t),
         UNCHANGED <<ringVars, readerVars, saved, reader_done>>,
         shutdown' \in BOOLEAN, live' \subseteq Tasks,
         child' \in BOOLEAN, proc' \in {"alive", "dead"}
  PROVE  TypeOK'
  BY DEF TypeOK, Moves, ringVars, readerVars

LEMMA TopQuiet ==
  ASSUME NestInv, NEW t \in Tasks, Moves(t),
         UNCHANGED <<ringVars, readerVars, procVars, saved>>,
         Fitting(frame'[t]),
         frame'[t].pc # "bind",
         frame'[t].kind = frame[t].kind \/ saved[t] = <<>> \/ frame'[t].kind = "call",
         child /\ t \in live => frame'[t].pc # "poll",
         t = Reader /\ saved[t] = <<>> =>
           /\ frame'[t].pc \in {"app", "enter", "forward", "flush", "poll"}
           /\ frame'[t].pc \in {"enter", "forward"} =>
                frame'[t].kind = "write" /\ rd.pc = "writing"
  PROVE  NestInv'
<1>1. TypeOK'
  BY TopType, TopInv DEF TypeOK, procVars
<1>2. saved[t] # <<>> => frame'[t].kind \in {"call", "write"}
  BY TopInv
<1>. QED  BY <1>1, <1>2, TopStep DEF ringVars, readerVars, procVars

(* The handler is left: not traced, dropped.                               *)
LEMMA LeaveNest ==
  ASSUME NestInv, NEW t \in Tasks, SkipTrace(t) \/ NoQueueLeft(t) \/ DropFull(t)
  PROVE  NestInv'
<1>1. /\ frame[t].pc \in {"enter", "claim", "check"}
      /\ UNCHANGED <<ringVars, readerVars, procVars, saved>>
  BY DEF SkipTrace, NoQueueLeft, DropFull, At
<1>2. Moves(t) /\ frame'[t].pc = "forward" /\ frame'[t].kind = frame[t].kind
  BY TopInv, LeaveMoves DEF SkipTrace, NoQueueLeft, DropFull
<1>3. Fitting(frame'[t])
  BY <1>2 DEF Fitting, Pushing
<1>4. t = Reader /\ saved[t] = <<>> => frame[t].kind = "write" /\ rd.pc = "writing"
  BY <1>1, ReaderTop
<1>. QED  BY <1>1, <1>2, <1>3, <1>4, TopQuiet

(* pthread_getspecific: the reader's own write does not come here.         *)
LEMMA GetQueueNest ==
  ASSUME NestInv, NEW t \in Tasks, GetQueue(t)
  PROVE  NestInv'
<1>. DEFINE pc == IF tls[t] = NoQueue THEN "claim" ELSE "load"
<1>1. /\ frame[t].pc = "enter" /\ Logs(frame[t].kind)
      /\ frame' = [frame EXCEPT ![t].q = tls[t], ![t].pc = pc]
      /\ UNCHANGED <<ringVars, readerVars, procVars, saved>>
  BY DEF GetQueue, At
<1>2. tls[t] \in 0 .. MaxThreads /\ (pc = "load" => tls[t] \in Queues)
  BY TopInv, SizeAssumption DEF TypeOK, NoQueue, Queues
<1>3. pc \in {"claim", "load"} /\ pc \in FramePCs
  BY DEF FramePCs
<1>. HIDE DEF pc
<1>4. Moves(t) /\ frame'[t].pc = pc /\ frame'[t].q = tls[t] /\ frame'[t].kind = frame[t].kind
  BY <1>1, <1>2, <1>3, TopInv DEF Moves, Frames
<1>5. Fitting(frame'[t])
  BY <1>2, <1>3, <1>4 DEF Fitting, Pushing
<1>6. ~(t = Reader /\ saved[t] = <<>>)
  BY <1>1, ReaderTop DEF Logs, NestInv, ReaderInv
<1>. QED  BY <1>1, <1>3, <1>4, <1>5, <1>6, TopQuiet

(* The activation that pushes goes on to pc, with or without a new queue   *)
(* or slot; the reader's own write is not one.                             *)
LEMMA PushMoves ==
  ASSUME NestInv, NEW t \in Tasks, Moves(t),
         frame[t].pc \notin {"app", "enter", "forward", "flush", "poll"},
         UNCHANGED <<readerVars, procVars, saved, tls, active_queues>>, TypeOK',
         frame'[t].pc \in {"claim", "cas", "enter"} \cup Pushing,
         frame'[t].kind = frame[t].kind,
         Fitting(frame'[t])
  PROVE  NestInv'
<1>1. ~(t = Reader /\ saved[t] = <<>>)
  BY ReaderTop
<1>. QED  BY <1>1, TopInv, TopStep DEF readerVars, procVars, Pushing

LEMMA ClaimNest ==
  ASSUME NestInv, NEW t \in Tasks, LoadActive(t) \/ ClaimFails(t) \/ LoadHead(t) \/ SlotFree(t)
  PROVE  NestInv'
<1>1. /\ frame[t].pc \in {"claim", "cas", "load", "check"}
      /\ UNCHANGED <<ringVars, readerVars, procVars, saved>>
  BY DEF LoadActive, ClaimFails, LoadHead, SlotFree, At
<1>2. frame[t].pc \in {"load", "check"} => frame[t].q \in Queues
  BY TopInv DEF Fitting, Pushing
<1>3. Moves(t) /\ frame'[t].kind = frame[t].kind /\ Fitting(frame'[t])
      /\ frame'[t].pc \in {"claim", "cas", "check", "fill"}
  <2>1. CASE LoadActive(t)
    <3>1. active_queues \in Queues /\ active_queues \in 0 .. MaxThreads
      BY <2>1, TopInv, SizeAssumption DEF LoadActive, TypeOK, Queues
    <3>2. frame' = [frame EXCEPT ![t].q = active_queues, ![t].pc = "cas"]
      BY <2>1 DEF LoadActive
    <3>3. Moves(t) /\ frame'[t].kind = frame[t].kind /\ frame'[t].pc = "cas"
          /\ frame'[t].q = active_queues
      <4>1. "cas" \in FramePCs /\ frame \in [Tasks -> Frames]
        BY TopInv DEF FramePCs
      <4>. QED  BY <3>1, <3>2, <4>1, QueueMoves, ZenonT(60)
    <3>. QED  BY <3>1, <3>3 DEF Fitting
  <2>2. CASE ClaimFails(t)
    <3>1. MovesTo(t, "claim")
      BY <2>2, TopInv, GotoMoves DEF ClaimFails, FramePCs
    <3>. QED  BY <3>1 DEF MovesTo, Fitting, Pushing
  <2>3. CASE LoadHead(t)
    <3>1. frame[t].q \in Queues /\ write_head[frame[t].q] \in Slots
      BY <1>2, <2>3, TopInv DEF TypeOK, LoadHead, At
    <3>2. frame' = [frame EXCEPT ![t].w = write_head[frame[t].q], ![t].pc = "check"]
      BY <2>3 DEF LoadHead
    <3>3. Moves(t) /\ frame'[t].kind = frame[t].kind /\ frame'[t].pc = "check"
          /\ frame'[t].q = frame[t].q
      <4>1. "check" \in FramePCs /\ frame \in [Tasks -> Frames]
        BY TopInv DEF FramePCs
      <4>2. PICK w \in Slots : w = write_head[frame[t].q]
        BY <3>1
      <4>3. frame' = [frame EXCEPT ![t].w = w, ![t].pc = "check"]
        BY <3>2, <4>2
      <4>. QED  BY <4>1, <4>3, HeadMoves, ZenonT(60)
    <3>. QED  BY <3>1, <3>3 DEF Fitting
  <2>4. CASE SlotFree(t)
    <3>1. MovesTo(t, "fill")
      BY <2>4, TopInv, GotoMoves DEF SlotFree, FramePCs
    <3>. QED  BY <1>2, <2>4, <3>1 DEF MovesTo, Fitting, SlotFree, At
  <2>. QED  BY <2>1, <2>2, <2>3, <2>4
<1>4. TypeOK'
  BY <1>1, <1>3, TopInv, TopType DEF TypeOK, procVars
<1>. QED  BY <1>1, <1>3, <1>4, PushMoves DEF ringVars, Pushing

(* The record goes into the slot, the cursor moves, the slot is published. *)
LEMMA FillNest ==
  ASSUME NestInv, NEW t \in Tasks, FillHead(t) \/ FillStrings(t) \/ Advance(t)
  PROVE  NestInv'
<1>1. frame[t].q \in Queues /\ frame[t].w \in Slots /\ frame[t].ev \in Events
      /\ frame[t].pc \in {"fill", "strings", "advance"}
  BY TopInv, FrameFields DEF FillHead, FillStrings, Advance, At, Fitting, Pushing
<1>2. \E pc \in {"strings", "advance", "publish"} : MovesTo(t, pc)
  BY TopInv, GotoMoves DEF FillHead, FillStrings, Advance, FramePCs
<1>3. TypeOK'
  <2>1. CASE FillHead(t) \/ FillStrings(t)
    <3>1. slots' \in [Queues -> [Slots -> Records]]
      <4>1. slots \in [Queues -> [Slots -> Records]]
        BY TopInv DEF TypeOK
      <4>2. CASE slots' = [slots EXCEPT ![frame[t].q][frame[t].w].hdr = frame[t].ev]
        BY <1>1, <4>1, <4>2 DEF Records
      <4>3. CASE slots' = [slots EXCEPT ![frame[t].q][frame[t].w].str = frame[t].ev]
        BY <1>1, <4>1, <4>3 DEF Records
      <4>. QED  BY <2>1, <4>2, <4>3 DEF FillHead, FillStrings
    <3>. QED  BY <1>2, <2>1, <3>1, TopInv
              DEF FillHead, FillStrings, TypeOK, MovesTo, Moves, readerVars, procVars
  <2>2. CASE Advance(t)
    <3>1. After(frame[t].w) \in Slots
      BY <1>1, SizeAssumption DEF After, Slots
    <3>2. write_head' \in [Queues -> Slots]
      BY <1>1, <2>2, <3>1, TopInv DEF Advance, TypeOK
    <3>. QED  BY <1>2, <2>2, <3>2, TopInv
              DEF Advance, TypeOK, MovesTo, Moves, readerVars, procVars
  <2>. QED  BY <2>1, <2>2
<1>4. Fitting(frame'[t])
  BY <1>1, <1>2 DEF MovesTo, Fitting
<1>5. UNCHANGED <<readerVars, procVars, saved, tls, active_queues>>
  BY DEF FillHead, FillStrings, Advance
<1>. QED  BY <1>1, <1>2, <1>3, <1>4, <1>5, PushMoves DEF MovesTo, Pushing

LEMMA PublishNest ==
  ASSUME NestInv, NEW t \in Tasks, Publish(t)
  PROVE  NestInv'
<1>1. /\ frame[t].pc = "publish" /\ frame[t].q \in Queues /\ frame[t].w \in Slots
      /\ ready' = [ready EXCEPT ![frame[t].q][frame[t].w] = TRUE]
      /\ UNCHANGED <<slots, write_head, active_queues, tls, readerVars, procVars, saved>>
  BY TopInv, FrameFields DEF Publish, At, Fitting, Pushing
<1>2. Moves(t) /\ frame'[t].pc = "forward" /\ frame'[t].kind = frame[t].kind
  BY TopInv, LeaveMoves DEF Publish
<1>3. TypeOK'
  <2>1. ready' \in [Queues -> [Slots -> BOOLEAN]]
    BY <1>1, TopInv DEF TypeOK
  <2>. QED  BY <1>1, <1>2, <2>1, TopInv DEF TypeOK, Moves, readerVars, procVars
<1>4. Fitting(frame'[t])
  BY <1>2 DEF Fitting, Pushing
<1>5. ~(t = Reader /\ saved[t] = <<>>)
  BY <1>1, ReaderTop
<1>. QED  BY <1>1, <1>2, <1>3, <1>4, <1>5, TopInv, TopStep DEF readerVars, procVars


(* The winner of the compare-exchange gets a queue nobody has claimed.     *)
LEMMA ClaimQueueNest ==
  ASSUME NestInv, NEW t \in Tasks, ClaimQueue(t)
  PROVE  NestInv'
<1>1. /\ frame[t].pc = "cas" /\ active_queues = frame[t].q
      /\ active_queues' = active_queues + 1
      /\ UNCHANGED <<ready, slots, write_head, tls, readerVars, procVars, saved>>
  BY DEF ClaimQueue, At
<1>2. MovesTo(t, "bind")
  BY TopInv, GotoMoves DEF ClaimQueue, FramePCs
<1>3. /\ TypeOK /\ frame[t].q \in Queues /\ active_queues \in Nat
      /\ active_queues + 1 \in 0 .. MaxThreads
  BY <1>1, TopInv, SizeAssumption DEF Fitting, Queues
<1>4. TypeOK'
  BY <1>1, <1>2, <1>3 DEF TypeOK, MovesTo, Moves, readerVars, procVars
<1>. DEFINE k == Len(saved[t]) + 1
<1>5. /\ \A u \in Tasks : Len(Stack(u)') = Len(Stack(u))
      /\ \A u \in Tasks \ {t} : Stack(u)' = Stack(u)
      /\ \A n \in 1 .. Len(saved[t]) : Stack(t)'[n] = Stack(t)[n]
      /\ Stack(t)'[k] = frame'[t]
  BY <1>1, <1>2, <1>3, <1>4, TopMoves DEF MovesTo
<1>6. /\ Len(Stack(t)) = k /\ k \in Nat /\ k >= 1 /\ (saved[t] # <<>> <=> k > 1)
      /\ 1 .. k = (1 .. Len(saved[t])) \cup {k}
  BY <1>3, StackShape
<1>. HIDE DEF k
<1>7. ~(t = Reader /\ saved[t] = <<>>)
  BY <1>1, ReaderTop
<1>8. StackInv'
  <2>. SUFFICES ASSUME NEW u \in Tasks, NEW n \in 1 .. Len(Stack(u))
                PROVE  /\ Fitting(Stack(u)'[n])
                       /\ n > 1 => Stack(u)'[n].kind \in {"call", "write"}
                       /\ child /\ u \in live => Stack(u)'[n].pc # "poll"
    BY <1>1, <1>5 DEF StackInv, Fitting, procVars
  <2>1. /\ Fitting(Stack(u)[n])
        /\ n > 1 => Stack(u)[n].kind \in {"call", "write"}
        /\ child /\ u \in live => Stack(u)[n].pc # "poll"
    BY DEF NestInv, StackInv
  <2>2. CASE u = t /\ n = k
    <3>1. Fitting(frame'[t])
      BY <1>2, <1>3 DEF MovesTo, Fitting
    <3>2. n > 1 => frame'[t].kind \in {"call", "write"}
      BY <1>2, <1>6, <2>2, TopInv DEF MovesTo
    <3>. QED  BY <1>2, <1>5, <2>2, <3>1, <3>2 DEF MovesTo
  <2>3. CASE u # t \/ n # k
    <3>1. Stack(u)'[n] = Stack(u)[n]
      BY <1>5, <1>6, <2>3
    <3>. QED  BY <2>1, <3>1
  <2>. QED  BY <2>2, <2>3
<1>9. OwnedOnce'
  <2>1. ASSUME NEW u \in Tasks, NEW q \in Queues, Owns(u, q)'
        PROVE  Owns(u, q) \/ (u = t /\ q = active_queues)
    <3>1. CASE tls[u] = q
      BY <3>1 DEF Owns
    <3>2. CASE tls[u] # q
      <4>1. PICK n \in 1 .. Len(Stack(u)) : Stack(u)'[n].pc = "bind" /\ Stack(u)'[n].q = q
        BY <1>1, <1>5, <2>1, <3>2 DEF Owns
      <4>2. CASE u = t /\ n = k
        BY <1>1, <1>2, <1>5, <4>1, <4>2 DEF MovesTo
      <4>3. CASE u # t \/ n # k
        <5>1. Stack(u)'[n] = Stack(u)[n]
          BY <1>5, <1>6, <4>3
        <5>. QED  BY <4>1, <5>1 DEF Owns
      <4>. QED  BY <4>2, <4>3
    <3>. QED  BY <3>1, <3>2
  <2>2. \A u \in Tasks, q \in Queues : Owns(u, q) => q < active_queues
    BY DEF NestInv, OwnedOnce
  <2>. SUFFICES ASSUME NEW u \in Tasks, NEW q \in Queues, Owns(u, q)'
                PROVE  q < active_queues' /\ \A v \in Tasks \ {u} : ~Owns(v, q)'
    BY DEF OwnedOnce
  <2>3. CASE Owns(u, q)
    <3>1. q < active_queues /\ q \in Nat /\ \A v \in Tasks \ {u} : ~Owns(v, q)
      BY <2>3 DEF NestInv, OwnedOnce, Queues
    <3>. QED  BY <1>1, <1>3, <2>1, <3>1
  <2>4. CASE ~Owns(u, q)
    <3>1. u = t /\ q = active_queues
      BY <2>1, <2>4
    <3>. QED  BY <1>1, <1>3, <2>1, <2>2, <3>1
  <2>. QED  BY <2>3, <2>4
<1>10. ReaderInv'
  <2>1. Stack(Reader)'[1] = Stack(Reader)[1]
    BY <1>5, <1>6, <1>7 DEF Tasks
  <2>. QED  BY <1>1, <2>1 DEF NestInv, ReaderInv, readerVars
<1>. QED  BY <1>4, <1>8, <1>9, <1>10 DEF NestInv


-----------------------------------------------------------------------------
(* Steps that change the stack, the key or the life of one task.           *)

(* What StackInv and ReaderInv ask of the activations on t.                *)
Fits(t) ==
  /\ \A n \in 1 .. Len(Stack(t)) :
       /\ Fitting(Stack(t)[n])
       /\ n > 1 => Stack(t)[n].kind \in {"call", "write"}
       /\ child /\ t \in live => Stack(t)[n].pc # "poll"
  /\ t = Reader =>
       /\ Stack(t)[1].pc \in {"app", "enter", "forward", "flush", "poll"}
       /\ Stack(t)[1].pc \in {"enter", "forward"} =>
            Stack(t)[1].kind = "write" /\ rd.pc = "writing"

LEMMA AllFit ==
  ASSUME NestInv, NEW t \in Tasks
  PROVE  Fits(t)
  BY DEF NestInv, StackInv, ReaderInv, Fits

LEMMA StackStep ==
  ASSUME NestInv, TypeOK', NEW t \in Tasks, Fits(t)',
         \A u \in Tasks \ {t} : /\ Stack(u)' = Stack(u) /\ tls'[u] = tls[u]
                                /\ child' /\ u \in live' => child /\ u \in live,
         \A q \in Queues : Owns(t, q)' => Owns(t, q),
         UNCHANGED <<active_queues, rd, reader_writing>>
  PROVE  NestInv'
<1>1. \A u \in Tasks : Fits(u)'
  BY AllFit DEF Fits, Fitting
<1>2. StackInv'
  BY <1>1 DEF StackInv, Fits
<1>3. OwnedOnce'
  <2>1. \A u \in Tasks, q \in Queues : Owns(u, q)' => Owns(u, q)
    BY DEF Owns
  <2>. QED  BY <2>1, OwnedKept DEF NestInv
<1>4. ReaderInv'
  BY <1>1 DEF ReaderInv, Fits, NestInv, Tasks
<1>. QED  BY <1>2, <1>3, <1>4 DEF NestInv

(* A fresh activation on an empty stack.                                   *)
LEMMA OneActivation ==
  ASSUME NEW t, saved[t] = <<>>
  PROVE  Len(Stack(t)) = 1 /\ Stack(t)[1] = frame[t]
  BY DEF Stack

LEMMA CallNest ==
  ASSUME NestInv, NEW t \in Tasks, NEW k \in Calls, NEW p \in Payload, Call(t, k, p)
  PROVE  NestInv'
<1>. DEFINE pc == IF k = "fork" THEN "fork" ELSE "enter"
<1>1. /\ t \in Threads /\ saved[t] = <<>>
      /\ frame' = [frame EXCEPT ![t] = Activation(pc, k, p)]
      /\ UNCHANGED <<ringVars, readerVars, procVars, saved>>
  BY DEF Call, Begin
<1>2. pc \in FramePCs /\ pc \in {"fork", "enter"} /\ k \in Kinds /\ p \in Events
      /\ (pc = "fork" => k = "fork")
  BY ModeAssumption DEF FramePCs, Events
<1>. HIDE DEF pc
<1>3. Moves(t) /\ frame'[t].pc = pc /\ frame'[t].kind = k
  BY <1>1, <1>2, TopInv, ActivationMoves
<1>4. Fitting(frame'[t])
  BY <1>2, <1>3 DEF Fitting, Pushing
<1>. QED  BY <1>1, <1>2, <1>3, <1>4, NameAssumption, TopQuiet

(* Only a call or a write interrupts, wherever the task is.                *)
LEMMA InterruptNest ==
  ASSUME NestInv, NEW t \in Tasks, NEW k, NEW p \in Payload, Interrupt(t, k, p)
  PROVE  NestInv'
<1>. DEFINE f == Activation("enter", k, p)
<1>1. /\ k \in {"call", "write"}
      /\ saved' = [saved EXCEPT ![t] = Append(saved[t], frame[t])]
      /\ frame' = [frame EXCEPT ![t] = f]
      /\ UNCHANGED <<ringVars, readerVars, procVars>>
  BY DEF Interrupt, Begin
<1>2. f \in Frames /\ f.pc = "enter" /\ f.kind = k
  BY <1>1, ActivationType DEF FramePCs, Kinds, Events
<1>. HIDE DEF f
<1>3. TypeOK /\ saved \in [Tasks -> Seq(Frames)] /\ frame \in [Tasks -> Frames]
  BY DEF NestInv, TypeOK
<1>4. /\ saved'[t] = Stack(t) /\ frame'[t] = f
      /\ \A u \in Tasks \ {t} : saved'[u] = saved[u] /\ frame'[u] = frame[u]
      /\ saved' \in [Tasks -> Seq(Frames)] /\ frame' \in [Tasks -> Frames]
  BY <1>1, <1>2, <1>3 DEF Stack
<1>5. TypeOK'
  BY <1>1, <1>3, <1>4 DEF TypeOK, ringVars, readerVars, procVars
<1>6. Stack(t)' = Append(Stack(t), f) /\ \A u \in Tasks \ {t} : Stack(u)' = Stack(u)
  BY <1>4 DEF Stack
<1>. DEFINE k1 == Len(Stack(t)) + 1
<1>7. /\ Len(Stack(t)') = k1 /\ k1 \in Nat /\ k1 > 1
      /\ \A n \in 1 .. Len(Stack(t)) : Stack(t)'[n] = Stack(t)[n]
      /\ Stack(t)'[k1] = f
      /\ 1 .. k1 = (1 .. Len(Stack(t))) \cup {k1} /\ 1 \in 1 .. Len(Stack(t))
  BY <1>2, <1>3, <1>6, StackShape
<1>. HIDE DEF k1
<1>8. Fits(t)'
  <2>1. Fitting(f)
    BY <1>2 DEF Fitting, Pushing
  <2>. QED  BY <1>1, <1>2, <1>7, <2>1, AllFit DEF Fits, Fitting, procVars, readerVars
<1>9. \A q \in Queues : Owns(t, q)' => Owns(t, q)
  <2>. SUFFICES ASSUME NEW q \in Queues, Owns(t, q)' PROVE Owns(t, q)
    OBVIOUS
  <2>1. tls' = tls
    BY <1>1 DEF ringVars
  <2>2. ASSUME NEW n \in 1 .. k1, Stack(t)'[n].pc = "bind", Stack(t)'[n].q = q
        PROVE  Owns(t, q)
    BY <1>2, <1>7, <2>2 DEF Owns
  <2>. QED  BY <1>7, <2>1, <2>2 DEF Owns
<1>. QED  BY <1>1, <1>5, <1>6, <1>8, <1>9, StackStep DEF ringVars, readerVars, procVars

(* What was interrupted goes on as it was.                                 *)
LEMMA ResumeNest ==
  ASSUME NestInv, NEW t \in Tasks, Resume(t)
  PROVE  NestInv'
<1>. DEFINE k == Len(saved[t])
<1>1. /\ saved[t] # <<>>
      /\ frame' = [frame EXCEPT ![t] = saved[t][k]]
      /\ saved' = [saved EXCEPT ![t] = SubSeq(saved[t], 1, k - 1)]
      /\ UNCHANGED <<ringVars, readerVars, procVars>>
  BY DEF Resume
<1>2. TypeOK /\ saved \in [Tasks -> Seq(Frames)] /\ frame \in [Tasks -> Frames]
  BY DEF NestInv, TypeOK
<1>3. /\ k \in Nat /\ k >= 1 /\ saved[t][k] \in Frames
      /\ Len(Stack(t)) = k + 1
      /\ \A n \in 1 .. k : Stack(t)[n] = saved[t][n]
  BY <1>1, <1>2, StackShape
<1>. HIDE DEF k
<1>4. /\ saved'[t] = SubSeq(saved[t], 1, k - 1) /\ frame'[t] = saved[t][k]
      /\ \A u \in Tasks \ {t} : saved'[u] = saved[u] /\ frame'[u] = frame[u]
      /\ frame' \in [Tasks -> Frames]
  BY <1>1, <1>2, <1>3
<1>5. /\ SubSeq(saved[t], 1, k - 1) \in Seq(Frames)
      /\ Len(SubSeq(saved[t], 1, k - 1)) = k - 1
      /\ \A n \in 1 .. k - 1 : SubSeq(saved[t], 1, k - 1)[n] = saved[t][n]
  <2>1. saved[t] \in Seq(Frames) /\ Len(saved[t]) = k
    BY <1>2 DEF k
  <2>. QED  BY <1>3, <2>1
<1>6. TypeOK'
  <2>1. saved' \in [Tasks -> Seq(Frames)]
    BY <1>1, <1>2, <1>5
  <2>. QED  BY <1>1, <1>2, <1>4, <2>1 DEF TypeOK, ringVars, readerVars, procVars
<1>7. /\ Len(Stack(t)') = k
      /\ \A n \in 1 .. k : Stack(t)'[n] = Stack(t)[n]
  <2>1. Stack(t)' = Append(saved'[t], frame'[t])
    BY DEF Stack
  <2>2. /\ saved'[t] \in Seq(Frames) /\ Len(saved'[t]) = k - 1 /\ frame'[t] \in Frames
        /\ \A n \in 1 .. k - 1 : saved'[t][n] = saved[t][n]
    BY <1>3, <1>4, <1>5
  <2>3. /\ Len(Stack(t)') = k
        /\ \A n \in 1 .. k - 1 : Stack(t)'[n] = saved'[t][n]
        /\ Stack(t)'[k] = frame'[t]
    BY <1>3, <2>1, <2>2
  <2>4. frame'[t] = Stack(t)[k]
    BY <1>3, <1>4
  <2>5. ASSUME NEW n \in 1 .. k PROVE Stack(t)'[n] = Stack(t)[n]
    <3>1. CASE n = k
      BY <2>3, <2>4, <3>1
    <3>2. CASE n \in 1 .. k - 1
      BY <1>3, <2>2, <2>3, <3>2
    <3>. QED  BY <1>3, <3>1, <3>2
  <2>. QED  BY <2>3, <2>5
<1>8. \A u \in Tasks \ {t} : Stack(u)' = Stack(u)
  BY <1>4 DEF Stack
<1>9. Fits(t)'
  BY <1>1, <1>3, <1>7, AllFit DEF Fits, Fitting, procVars, readerVars
<1>10. \A q \in Queues : Owns(t, q)' => Owns(t, q)
  BY <1>1, <1>3, <1>7 DEF Owns, ringVars
<1>. QED  BY <1>1, <1>6, <1>8, <1>9, <1>10, StackStep DEF ringVars, readerVars, procVars


(* SIGTERM abandons whatever the task was doing.                           *)
LEMMA TerminateNest ==
  ASSUME NestInv, NEW t \in Tasks, Terminate(t)
  PROVE  NestInv'
<1>1. /\ frame' = [frame EXCEPT ![t] = Activation("flush", "term", NoEvent)]
      /\ saved' = [saved EXCEPT ![t] = <<>>]
      /\ UNCHANGED <<ringVars, readerVars, procVars>>
  BY DEF Terminate
<1>2. Moves(t) /\ frame'[t].pc = "flush"
  BY <1>1, TopInv, ActivationMoves DEF FramePCs, Kinds, Events
<1>3. TypeOK /\ saved \in [Tasks -> Seq(Frames)] /\ <<>> \in Seq(Frames)
  BY DEF NestInv, TypeOK
<1>4. /\ saved'[t] = <<>> /\ saved' \in [Tasks -> Seq(Frames)]
      /\ \A u \in Tasks \ {t} : saved'[u] = saved[u] /\ frame'[u] = frame[u]
  BY <1>1, <1>2, <1>3 DEF Moves
<1>5. TypeOK'
  BY <1>1, <1>2, <1>3, <1>4 DEF TypeOK, Moves, ringVars, readerVars, procVars
<1>6. \A u \in Tasks \ {t} : Stack(u)' = Stack(u)
  BY <1>4 DEF Stack
<1>7. Len(Stack(t)') = 1 /\ Stack(t)'[1] = frame'[t]
  BY <1>4 DEF Stack
<1>8. Fits(t)'
  BY <1>2, <1>7 DEF Fits, Fitting, Pushing
<1>9. \A q \in Queues : Owns(t, q)' => Owns(t, q)
  BY <1>1, <1>2, <1>7 DEF Owns, ringVars
<1>. QED  BY <1>1, <1>5, <1>6, <1>8, <1>9, StackStep DEF ringVars, readerVars, procVars

(* In the child of a fork one task is left, with nothing on its stack.     *)
LEMMA ForkChildNest ==
  ASSUME NestInv, NEW t \in Tasks, ForkChild(t)
  PROVE  NestInv'
<1>1. /\ frame[t].pc = "fork" /\ frame' = [frame EXCEPT ![t] = Rest]
      /\ live' = {t} /\ child' = TRUE
      /\ UNCHANGED <<ringVars, readerVars, shutdown, reader_done, proc, saved>>
  BY DEF ForkChild, At
<1>2. Moves(t) /\ frame'[t].pc = "app"
  BY <1>1, TopInv, RestMoves
<1>3. saved[t] = <<>>
  BY <1>1, TopInv DEF Fitting
<1>4. TypeOK'
  BY <1>1, <1>2, TopInv, TopType DEF TypeOK
<1>5. \A u \in Tasks \ {t} : Stack(u)' = Stack(u)
  BY <1>1, <1>2 DEF Stack, Moves
<1>6. Len(Stack(t)') = 1 /\ Stack(t)'[1] = frame'[t]
  BY <1>1, <1>3 DEF Stack
<1>7. Fits(t)'
  BY <1>2, <1>6 DEF Fits, Fitting, Pushing
<1>8. \A q \in Queues : Owns(t, q)' => Owns(t, q)
  BY <1>1, <1>2, <1>6 DEF Owns, ringVars
<1>. QED  BY <1>1, <1>4, <1>5, <1>7, <1>8, StackStep DEF ringVars, readerVars

(* Back to the application, on to the atexit handlers or to the log.       *)
LEMMA ReturnNest ==
  ASSUME NestInv, NEW t \in Tasks,
         Return(t) \/ RunAtExit(t) \/ ForkParent(t) \/ ForkFails(t)
  PROVE  NestInv'
<1>1. UNCHANGED <<ringVars, readerVars, procVars, saved>>
  BY DEF Return, RunAtExit, ForkParent, ForkFails
<1>2. frame[t].pc = "fork" => t # Reader /\ saved[t] = <<>>
  BY TopInv, ReaderTop DEF Fitting
<1>3. CASE Return(t) \/ ForkFails(t)
  <2>1. Moves(t) /\ frame'[t].pc = "app" /\ frame'[t].kind = "call"
    BY <1>3, TopInv, RestMoves, ActivationMoves
    DEF Return, ForkFails, Rest, FramePCs, Kinds, Events
  <2>2. Fitting(frame'[t])
    BY <2>1 DEF Fitting, Pushing
  <2>. QED  BY <1>1, <2>1, <2>2, TopQuiet
<1>4. CASE RunAtExit(t)
  <2>1. MovesTo(t, "flush")
    BY <1>4, TopInv, GotoMoves DEF RunAtExit, FramePCs
  <2>2. Fitting(frame'[t])
    BY <2>1 DEF MovesTo, Fitting, Pushing
  <2>. QED  BY <1>1, <2>1, <2>2, TopQuiet DEF MovesTo
<1>5. CASE ForkParent(t)
  <2>1. MovesTo(t, "enter")
    BY <1>5, TopInv, GotoMoves DEF ForkParent, FramePCs
  <2>2. Fitting(frame'[t])
    BY <2>1 DEF MovesTo, Fitting, Pushing
  <2>. QED  BY <1>1, <1>2, <1>5, <2>1, <2>2, TopQuiet DEF MovesTo, ForkParent, At
<1>. QED  BY <1>3, <1>4, <1>5

(* The drain is asked for by the parent alone.                             *)
LEMMA FlushNest ==
  ASSUME NestInv, NEW t \in Tasks, FlushStep(t)
  PROVE  NestInv'
<1>1. t \in live /\ frame[t].pc \in {"flush", "poll"} /\ (frame[t].pc = "poll" => ~child)
  BY TopInv DEF FlushStep, FlushInChild, RequestDrain, Poll, Die, At, Running, NestInv, TypeOK
<1>2. UNCHANGED <<ringVars, readerVars, saved, reader_done, live, child>>
  BY DEF FlushStep, FlushInChild, RequestDrain, Poll, Die, procVars
<1>3. /\ Moves(t) /\ frame'[t].pc \in {"flush", "poll"} /\ frame'[t].kind = frame[t].kind
      /\ frame'[t].pc = "poll" => ~child
      /\ shutdown' \in BOOLEAN /\ proc' \in {"alive", "dead"}
  <2>1. shutdown \in BOOLEAN /\ proc \in {"alive", "dead"}
    BY DEF NestInv, TypeOK
  <2>2. CASE RequestDrain(t)
    <3>1. MovesTo(t, "poll")
      BY <2>2, TopInv, GotoMoves DEF RequestDrain, FramePCs
    <3>. QED  BY <2>1, <2>2, <3>1 DEF RequestDrain, MovesTo
  <2>3. CASE Poll(t)
    <3>1. frame[t].polls + 1 \in 0 .. MaxWait
      BY <2>3, TopInv, FrameFields, SizeAssumption DEF Poll
    <3>2. frame' = [frame EXCEPT ![t].polls = @ + 1]
      BY <2>3 DEF Poll
    <3>3. Moves(t) /\ frame'[t].pc = frame[t].pc /\ frame'[t].kind = frame[t].kind
      BY <3>1, <3>2, TopInv DEF Moves, Frames
    <3>. QED  BY <1>1, <2>1, <2>3, <3>3 DEF Poll, procVars
  <2>4. CASE FlushInChild(t) \/ Die(t)
    BY <1>1, <2>1, <2>4, TopInv DEF FlushInChild, Die, Moves
  <2>. QED  BY <2>2, <2>3, <2>4 DEF FlushStep
<1>4. TypeOK'
  BY <1>2, <1>3, TopInv, TopType DEF TypeOK
<1>5. Fitting(frame'[t])
  BY <1>3 DEF Fitting, Pushing
<1>6. saved[t] # <<>> => frame'[t].kind \in {"call", "write"}
  BY <1>3, TopInv
<1>. QED  BY <1>2, <1>3, <1>4, <1>5, <1>6, TopStep DEF ringVars, readerVars

(* The key is set to the queue the activation claimed.                     *)
LEMMA BindQueueNest ==
  ASSUME NestInv, NEW t \in Tasks, BindQueue(t)
  PROVE  NestInv'
<1>1. /\ frame[t].pc = "bind"
      /\ tls' = [tls EXCEPT ![t] = frame[t].q]
      /\ UNCHANGED <<ready, slots, write_head, active_queues, readerVars, procVars, saved>>
  BY DEF BindQueue, At
<1>2. MovesTo(t, "load")
  BY TopInv, GotoMoves DEF BindQueue, FramePCs
<1>3. TypeOK /\ frame[t].q \in Queues /\ frame[t].q \in 0 .. MaxThreads
  BY <1>1, TopInv, FrameFields DEF Fitting
<1>4. /\ tls' \in [Tasks -> 0 .. MaxThreads] /\ tls'[t] = frame[t].q
      /\ \A u \in Tasks \ {t} : tls'[u] = tls[u]
  BY <1>1, <1>3 DEF TypeOK
<1>5. TypeOK'
  BY <1>1, <1>2, <1>3, <1>4 DEF TypeOK, MovesTo, Moves, readerVars, procVars
<1>. DEFINE k == Len(saved[t]) + 1
<1>6. /\ \A u \in Tasks : Len(Stack(u)') = Len(Stack(u))
      /\ \A u \in Tasks \ {t} : Stack(u)' = Stack(u)
      /\ \A n \in 1 .. Len(saved[t]) : Stack(t)'[n] = Stack(t)[n]
      /\ Stack(t)'[k] = frame'[t]
  BY <1>1, <1>2, <1>3, <1>5, TopMoves DEF MovesTo
<1>7. /\ Len(Stack(t)) = k /\ k \in Nat /\ k >= 1 /\ (saved[t] # <<>> <=> k > 1)
      /\ 1 .. k = (1 .. Len(saved[t])) \cup {k} /\ Stack(t)[k] = frame[t]
  BY <1>3, StackShape
<1>. HIDE DEF k
<1>8. ~(t = Reader /\ saved[t] = <<>>)
  BY <1>1, ReaderTop
<1>9. Fits(t)'
  <2>1. Fitting(frame'[t]) /\ frame'[t].pc # "poll"
    BY <1>2, <1>3 DEF MovesTo, Fitting
  <2>2. k > 1 => frame'[t].kind \in {"call", "write"}
    BY <1>2, <1>7, TopInv DEF MovesTo
  <2>. QED  BY <1>1, <1>6, <1>7, <1>8, <2>1, <2>2, AllFit DEF Fits, Fitting, procVars, readerVars
<1>10. ASSUME NEW q \in Queues, Owns(t, q)' PROVE Owns(t, q)
  <2>1. CASE q = frame[t].q
    <3>1. k \in 1 .. Len(Stack(t)) /\ Stack(t)[k].pc = "bind" /\ Stack(t)[k].q = q
      BY <1>1, <1>7, <2>1
    <3>. QED  BY <3>1 DEF Owns
  <2>2. CASE q # frame[t].q
    <3>1. PICK n \in 1 .. k : Stack(t)'[n].pc = "bind" /\ Stack(t)'[n].q = q
      BY <1>4, <1>6, <1>7, <1>10, <2>2 DEF Owns
    <3>2. n # k
      BY <1>2, <1>6, <3>1 DEF MovesTo
    <3>. QED  BY <1>6, <1>7, <3>1, <3>2 DEF Owns
  <2>. QED  BY <2>1, <2>2
<1>. QED  BY <1>1, <1>4, <1>5, <1>6, <1>9, <1>10, StackStep DEF readerVars, procVars

(* A thread ends: its queue stays claimed, by nobody.                      *)
LEMMA ReplaceThreadNest ==
  ASSUME NestInv, NEW t \in Tasks, ReplaceThread(t)
  PROVE  NestInv'
<1>1. /\ tls' = [tls EXCEPT ![t] = NoQueue]
      /\ UNCHANGED <<ready, slots, write_head, active_queues, readerVars, procVars,
                     frame, saved>>
  BY DEF ReplaceThread
<1>2. TypeOK /\ NoQueue \in 0 .. MaxThreads /\ NoQueue \notin Queues
  BY SizeAssumption DEF NestInv, NoQueue, Queues
<1>3. /\ tls' \in [Tasks -> 0 .. MaxThreads] /\ tls'[t] = NoQueue
      /\ \A u \in Tasks \ {t} : tls'[u] = tls[u]
  BY <1>1, <1>2 DEF TypeOK
<1>4. TypeOK'
  BY <1>1, <1>2, <1>3 DEF TypeOK, readerVars, procVars
<1>5. \A u \in Tasks : Stack(u)' = Stack(u)
  BY <1>1 DEF Stack
<1>6. Fits(t)'
  BY <1>1, <1>5, AllFit DEF Fits, Fitting, procVars, readerVars
<1>7. \A q \in Queues : Owns(t, q)' => Owns(t, q)
  BY <1>2, <1>3, <1>5 DEF Owns
<1>. QED  BY <1>1, <1>3, <1>4, <1>5, <1>6, <1>7, StackStep DEF readerVars, procVars

(* Nothing that NestInv speaks of changes.                                 *)
LEMMA IdleNest ==
  ASSUME NestInv, UNCHANGED <<ringVars, readerVars, frame, saved, shutdown, reader_done, live, child>>,
         proc' \in {"alive", "dead"}
  PROVE  NestInv'
<1>1. TypeOK'
  BY DEF NestInv, TypeOK, ringVars, readerVars
<1>2. \A u \in Tasks : Stack(u)' = Stack(u)
  BY DEF Stack
<1>3. \A u \in Tasks : Fits(u)'
  BY <1>2, AllFit DEF Fits, Fitting, readerVars
<1>4. StackInv' /\ ReaderInv'
  BY <1>3 DEF StackInv, ReaderInv, Fits, NestInv, Tasks, readerVars
<1>5. OwnedOnce'
  BY <1>2, OwnedKept DEF NestInv, Owns, ringVars
<1>. QED  BY <1>1, <1>4, <1>5 DEF NestInv


-----------------------------------------------------------------------------
(* The reader's own steps: nothing interrupts it.                          *)

LEMMA LoopStep ==
  ASSUME NestInv, TypeOK', Moves(Reader), saved[Reader] = <<>>,
         UNCHANGED <<saved, tls, active_queues, child>>, live' \subseteq live,
         frame'[Reader].pc \in {"app", "enter"},
         frame'[Reader].pc = "enter" => frame'[Reader].kind = "write" /\ rd'.pc = "writing",
         rd'.pc \in Reading => rd'.i < rd'.active /\ rd'.n < Batch,
         rd'.pc \in {"write", "writing", "unguard"} => reader_writing'
  PROVE  NestInv'
<1>1. /\ \A u \in Tasks \ {Reader} : Stack(u)' = Stack(u)
      /\ Len(Stack(Reader)') = 1 /\ Stack(Reader)'[1] = frame'[Reader]
  BY DEF Stack, Moves
<1>2. StackInv'
  <2>. SUFFICES ASSUME NEW u \in Tasks, NEW n \in 1 .. Len(Stack(u)')
                PROVE  /\ Fitting(Stack(u)'[n])
                       /\ n > 1 => Stack(u)'[n].kind \in {"call", "write"}
                       /\ child /\ u \in live' => Stack(u)'[n].pc # "poll"
    BY DEF StackInv, Fitting
  <2>1. CASE u = Reader
    <3>1. n = 1 /\ Stack(u)'[n] = frame'[Reader]
      <4>1. Len(Stack(u)') = 1 /\ Stack(u)'[1] = frame'[Reader]
        BY <1>1, <2>1
      <4>2. n = 1
        BY <4>1
      <4>. QED  BY <4>1, <4>2
    <3>2. Fitting(frame'[Reader]) /\ frame'[Reader].pc # "poll"
      BY DEF Fitting, Pushing
    <3>. QED  BY <3>1, <3>2
  <2>2. CASE u # Reader
    BY <1>1, <2>2 DEF NestInv, StackInv
  <2>. QED  BY <2>1, <2>2
<1>3. OwnedOnce'
  <2>1. \A u \in Tasks, q \in Queues : Owns(u, q)' => Owns(u, q)
    BY <1>1 DEF Owns
  <2>. QED  BY <2>1, OwnedKept DEF NestInv
<1>4. ReaderInv'
  BY <1>1 DEF ReaderInv
<1>. QED  BY <1>2, <1>3, <1>4 DEF NestInv

(* The reader's locals have their types.                                   *)
LEMMA LoopTypes ==
  ASSUME NestInv
  PROVE  /\ TypeOK /\ rd \in ReaderStates /\ Reader \in Tasks
         /\ rd.pc \in ReaderPCs /\ rd.active \in 0 .. MaxThreads /\ rd.i \in 0 .. MaxThreads
         /\ rd.n \in 0 .. Batch /\ rd.rec \in Records
         /\ rd.pc \in Reading => /\ rd.i < rd.active /\ rd.n < Batch
                                 /\ rd.i \in Queues /\ ReadSlot \in Slots
<1>1. TypeOK /\ rd \in ReaderStates /\ Reader \in Tasks
  BY DEF NestInv, TypeOK, Tasks
<1>2. /\ rd.pc \in ReaderPCs /\ rd.active \in 0 .. MaxThreads /\ rd.i \in 0 .. MaxThreads
      /\ rd.n \in 0 .. Batch /\ rd.rec \in Records
  BY <1>1 DEF ReaderStates
<1>3. rd.pc \in Reading => rd.i < rd.active /\ rd.n < Batch /\ rd.i \in Queues
  BY <1>2, SizeAssumption DEF NestInv, ReaderInv, Queues
<1>. QED  BY <1>1, <1>2, <1>3 DEF TypeOK, ReadSlot

(* A step on rd, and at most the guard.                                    *)
LEMMA LocalStep ==
  ASSUME NestInv, frame[Reader].pc = "app", saved[Reader] = <<>>,
         UNCHANGED <<ringVars, frame, saved, read_heads, out, shutdown, child, proc>>,
         rd' \in ReaderStates, reader_writing' \in BOOLEAN, reader_done' \in BOOLEAN,
         live' \subseteq live,
         rd'.pc \in Reading => rd'.i < rd'.active /\ rd'.n < Batch,
         rd'.pc \in {"write", "writing", "unguard"} => reader_writing'
  PROVE  NestInv'
<1>1. TypeOK'
  BY LoopTypes DEF TypeOK, ringVars
<1>2. Moves(Reader)
  BY LoopTypes DEF TypeOK, Moves
<1>. QED  BY <1>1, <1>2, LoopStep DEF ringVars

LEMMA PassNest ==
  ASSUME NestInv, StartPass \/ TakeSlot \/ NextQueue \/ EndPass \/ Sleep \/ Finish
  PROVE  NestInv'
<1>1. /\ frame[Reader].pc = "app" /\ saved[Reader] = <<>>
      /\ UNCHANGED <<ringVars, frame, saved, read_heads, reader_writing, out,
                     shutdown, child, proc>>
  BY DEF StartPass, TakeSlot, NextQueue, EndPass, Sleep, Finish, ReaderAt, procVars
<1>2. reader_writing \in BOOLEAN /\ reader_done' \in BOOLEAN /\ live' \subseteq live
  BY LoopTypes DEF TypeOK, StartPass, TakeSlot, NextQueue, EndPass, Sleep, Finish, procVars
<1>3. /\ rd' \in ReaderStates /\ rd'.pc \notin {"write", "writing", "unguard"}
      /\ rd'.pc \in Reading => rd'.i < rd'.active /\ rd'.n < Batch
  <2>1. CASE StartPass
    <3>1. active_queues \in 0 .. MaxThreads /\ 0 \in 0 .. MaxThreads /\ 0 \in 0 .. Batch
      BY LoopTypes, SizeAssumption DEF TypeOK
    <3>. QED  BY <2>1, <3>1, LoopTypes DEF StartPass, ReaderStates, ReaderPCs, Reading
  <2>2. CASE TakeSlot
    BY <2>2, LoopTypes DEF TakeSlot, ReaderStates, ReaderPCs, Reading
  <2>3. CASE NextQueue
    <3>1. rd.pc = "scan" /\ rd' = [rd EXCEPT !.i = @ + 1, !.n = 0] /\ rd.i < rd.active
      BY <2>3 DEF NextQueue, ReaderAt
    <3>2. rd.i + 1 \in 0 .. MaxThreads /\ 0 \in 0 .. Batch
      BY <3>1, LoopTypes, SizeAssumption
    <3>. QED  BY <3>1, <3>2, LoopTypes DEF ReaderStates, ReaderPCs, Reading
  <2>4. CASE EndPass
    BY <2>4, LoopTypes DEF EndPass, ReaderStates, ReaderPCs, Reading
  <2>5. CASE Sleep \/ Finish
    BY <2>5, LoopTypes DEF Sleep, Finish, ReaderStates, ReaderPCs, Reading
  <2>. QED  BY <2>1, <2>2, <2>3, <2>4, <2>5
<1>. QED  BY <1>1, <1>2, <1>3, LocalStep

LEMMA GuardNest ==
  ASSUME NestInv, Format \/ SetGuard \/ ClearGuard
  PROVE  NestInv'
<1>1. /\ frame[Reader].pc = "app" /\ saved[Reader] = <<>>
      /\ rd.pc \in {"format", "guard", "unguard"}
      /\ UNCHANGED <<ringVars, frame, saved, read_heads, out, procVars>>
  BY DEF Format, SetGuard, ClearGuard, ReaderAt
<1>2. /\ rd' \in ReaderStates /\ rd'.i = rd.i /\ rd'.active = rd.active /\ rd'.n = rd.n
      /\ rd'.pc \in {"guard", "write", "release"} /\ reader_writing' \in BOOLEAN
      /\ rd'.pc = "write" => reader_writing'
  <2>1. CASE Format
    <3>1. slots[rd.i][ReadSlot] \in Records
      BY <2>1, LoopTypes DEF Format, ReaderAt, TypeOK, Reading
    <3>. QED  BY <2>1, <3>1, LoopTypes DEF Format, ReaderStates, ReaderPCs, TypeOK
  <2>2. CASE SetGuard \/ ClearGuard
    BY <2>2, LoopTypes DEF SetGuard, ClearGuard, ReaderStates, ReaderPCs
  <2>. QED  BY <2>1, <2>2
<1>3. rd.i < rd.active /\ rd.n < Batch
  BY <1>1, LoopTypes DEF Reading
<1>4. reader_done \in BOOLEAN
  BY LoopTypes DEF TypeOK
<1>. QED  BY <1>1, <1>2, <1>3, <1>4, LocalStep DEF procVars

(* The reader enters the hooked write under its guard, and comes back.     *)
LEMMA WriteNest ==
  ASSUME NestInv, CallWrite \/ Emit
  PROVE  NestInv'
<1>1. /\ saved[Reader] = <<>> /\ reader_writing' = reader_writing
      /\ UNCHANGED <<ringVars, procVars, saved, read_heads>>
  BY DEF CallWrite, Emit, ReaderAt
<1>2. rd.pc \in {"write", "writing"} /\ reader_writing /\ rd.i < rd.active /\ rd.n < Batch
  BY LoopTypes, ReaderTop DEF CallWrite, Emit, ReaderAt, At, NestInv, ReaderInv, Reading
<1>3. /\ rd' \in ReaderStates /\ rd'.i = rd.i /\ rd'.active = rd.active /\ rd'.n = rd.n
      /\ rd'.pc \in {"writing", "unguard"}
  BY LoopTypes DEF CallWrite, Emit, ReaderStates, ReaderPCs
<1>4. /\ Moves(Reader) /\ frame'[Reader].pc \in {"app", "enter"}
      /\ frame'[Reader].pc = "enter" => frame'[Reader].kind = "write" /\ rd'.pc = "writing"
  <2>1. CASE CallWrite
    <3>1. frame' = [frame EXCEPT ![Reader] = Activation("enter", "write", NoEvent)]
      BY <2>1 DEF CallWrite, Begin
    <3>2. Moves(Reader) /\ frame'[Reader].pc = "enter" /\ frame'[Reader].kind = "write"
      BY <3>1, LoopTypes, TopInv, ActivationMoves DEF FramePCs, Kinds, Events
    <3>3. rd'.pc = "writing"
      BY <2>1, LoopTypes DEF CallWrite, ReaderStates
    <3>. QED  BY <3>2, <3>3
  <2>2. CASE Emit
    BY <2>2, LoopTypes, TopInv, RestMoves DEF Emit
  <2>. QED  BY <2>1, <2>2
<1>5. TypeOK'
  <2>1. out' \in [q : 0 .. MaxThreads, rec : Records]
    <3>1. out \in [q : 0 .. MaxThreads, rec : Records]
      BY LoopTypes DEF TypeOK
    <3>. QED  BY <3>1, LoopTypes DEF CallWrite, Emit
  <2>. QED  BY <1>1, <1>3, <1>4, <2>1, LoopTypes DEF TypeOK, Moves, ringVars, procVars
<1>. QED  BY <1>1, <1>2, <1>3, <1>4, <1>5, LoopStep DEF ringVars, procVars

LEMMA ReleaseNest ==
  ASSUME NestInv, Release
  PROVE  NestInv'
<1>1. /\ rd.pc = "release" /\ frame[Reader].pc = "app" /\ saved[Reader] = <<>>
      /\ ready' = [ready EXCEPT ![rd.i][ReadSlot] = FALSE]
      /\ read_heads' = [read_heads EXCEPT ![rd.i] = After(ReadSlot)]
      /\ rd' = [rd EXCEPT !.pc = "scan", !.n = @ + 1]
      /\ UNCHANGED <<slots, write_head, active_queues, tls, procVars, frame, saved,
                     reader_writing, out>>
  BY DEF Release, ReaderAt
<1>2. /\ TypeOK /\ rd \in ReaderStates /\ rd.i \in Queues /\ ReadSlot \in Slots
      /\ rd.n + 1 \in 0 .. Batch
  BY <1>1, LoopTypes, SizeAssumption DEF Reading
<1>3. rd' \in ReaderStates /\ rd'.pc = "scan"
  BY <1>1, <1>2 DEF ReaderStates, ReaderPCs
<1>4. After(ReadSlot) \in Slots
  BY <1>2, SizeAssumption DEF After, Slots
<1>5. ready' \in [Queues -> [Slots -> BOOLEAN]] /\ read_heads' \in [Queues -> Slots]
  BY <1>1, <1>2, <1>4 DEF TypeOK
<1>6. TypeOK'
  BY <1>1, <1>2, <1>3, <1>5 DEF TypeOK, procVars
<1>7. Moves(Reader)
  BY <1>1, <1>2 DEF TypeOK, Moves
<1>. QED  BY <1>1, <1>3, <1>6, <1>7, LoopStep DEF procVars, Reading


-----------------------------------------------------------------------------

LEMMA NestInit ==
  Init => NestInv
<1>. SUFFICES ASSUME Init PROVE NestInv
  OBVIOUS
<1>1. TypeOK
  BY InitInv DEF RingInv
<1>2. Rest.pc = "app"
  BY ActivationType DEF Rest, FramePCs, Kinds, Events
<1>3. \A t \in Tasks : /\ Len(Stack(t)) = 1 /\ Stack(t)[1] = Rest
                       /\ tls[t] = NoQueue
  BY DEF Init, Stack
<1>4. StackInv
  BY <1>2, <1>3 DEF StackInv, Fitting, Pushing
<1>5. OwnedOnce
  <2>1. NoQueue \notin Queues
    BY SizeAssumption DEF NoQueue, Queues
  <2>. QED  BY <1>2, <1>3, <2>1 DEF OwnedOnce, Owns
<1>6. ReaderInv
  <2>1. rd.pc = "pass" /\ Stack(Reader)[1].pc = "app"
    BY <1>2, <1>3 DEF Init, Tasks
  <2>. QED  BY <2>1 DEF ReaderInv, Reading
<1>. QED  BY <1>1, <1>4, <1>5, <1>6 DEF NestInv

LEMMA NestNext ==
  ASSUME NestInv, [Next]_vars
  PROVE  NestInv'
<1>1. ASSUME NEW t \in Tasks, HandlerStep(t) PROVE NestInv'
  BY <1>1, LeaveNest, GetQueueNest, ClaimNest, ClaimQueueNest, BindQueueNest, FillNest,
     PublishNest, ReturnNest, ForkChildNest, ResumeNest
  DEF HandlerStep, Produce
<1>2. ASSUME NEW t \in Tasks, FlushStep(t) PROVE NestInv'
  BY <1>2, FlushNest
<1>3. ASSUME NEW t \in Tasks, Environment(t) PROVE NestInv'
  <2>1. CASE ReplaceImage(t)
    BY <2>1, IdleNest DEF ReplaceImage
  <2>2. CASE \E k \in Calls, p \in Payload : Call(t, k, p) \/ Interrupt(t, k, p)
    BY <2>2, CallNest, InterruptNest
  <2>. QED  BY <1>3, <2>1, <2>2, ReplaceThreadNest, TerminateNest DEF Environment
<1>4. CASE ReaderStep
  BY <1>4, PassNest, GuardNest, WriteNest, ReleaseNest DEF ReaderStep
<1>5. CASE UNCHANGED vars
  BY <1>5, IdleNest DEF vars, procVars, NestInv, TypeOK
<1>. QED  BY <1>1, <1>2, <1>3, <1>4, <1>5 DEF Next, Dead

(* NestInv holds in every reachable state, however deep signal handlers    *)
(* that make hooked calls are nested.                                      *)
THEOREM NestInvariant ==
  Spec => []NestInv
<1>1. NestInv /\ [Next]_vars => NestInv'
  BY NestNext
<1>. QED  BY NestInit, <1>1, PTL DEF Spec

(* Every variable keeps its type: no cursor, queue index or poll counter   *)
(* leaves its range.                                                       *)
THEOREM TypeCorrect ==
  Spec => []TypeOK
<1>1. NestInv => TypeOK
  BY DEF NestInv
<1>. QED  BY <1>1, NestInvariant, PTL

(* No two threads ever share a queue, even if a claim is interrupted by    *)
(* one that goes through, and every queue in use is one that the reader    *)
(* visits (lib.rs:405-414).                                                *)
THEOREM QueuesStayExclusive ==
  Spec => []QueueExclusive
<1>1. ASSUME NestInv PROVE QueueExclusive
  <2>. SUFFICES ASSUME NEW t \in Tasks, Held(t) # NoQueue
                PROVE  /\ Held(t) < active_queues
                       /\ \A u \in Tasks \ {t} : Held(u) # Held(t)
    BY DEF QueueExclusive
  <2>1. ASSUME NEW u \in Tasks, Held(u) \in Queues PROVE Owns(u, Held(u))
    <3>1. CASE frame[u].pc = "bind"
      <4>1. /\ Len(saved[u]) + 1 \in 1 .. Len(Stack(u))
            /\ Stack(u)[Len(saved[u]) + 1] = frame[u]
        BY <1>1, StackShape DEF NestInv
      <4>. QED  BY <3>1, <4>1 DEF Owns, Held
    <3>2. CASE frame[u].pc # "bind"
      BY <3>2 DEF Owns, Held
    <3>. QED  BY <3>1, <3>2
  <2>2. Held(t) \in Queues
    <3>1. Held(t) \in 0 .. MaxThreads
      BY <1>1, TopInv, FrameFields DEF Held, TypeOK
    <3>. QED  BY <3>1, SizeAssumption DEF NoQueue, Queues
  <2>. QED  BY <1>1, <2>1, <2>2 DEF NestInv, OwnedOnce
<1>. QED  BY <1>1, NestInvariant, PTL

(* The reader's own write never becomes an event, whatever interrupts it   *)
(* and resumes it (lib.rs:328-332, 825-828).                               *)
THEOREM ReaderNeverTraced ==
  Spec => []NoSelfTrace
<1>1. NestInv => NoSelfTrace
  BY ReaderTop DEF NoSelfTrace, Pushing
<1>. QED  BY <1>1, NestInvariant, PTL

(* No interleaving of fork, exit, SIGTERM and signal handlers makes a      *)
(* forked child wait for a reader it does not have (lib.rs:531-535).       *)
THEOREM ChildrenNeverWait ==
  Spec => []ChildNeverWaits
<1>1. ASSUME NestInv PROVE ChildNeverWaits
  BY <1>1, TopInv DEF ChildNeverWaits, NestInv, TypeOK
<1>. QED  BY <1>1, NestInvariant, PTL
=============================================================================
