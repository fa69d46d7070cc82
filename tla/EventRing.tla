------------------------------ MODULE EventRing ------------------------------
(***************************************************************************)
(* The event pipeline of the injected dylib (src/src/lib.rs): every        *)
(* application thread pushes records into a ring of its own, one reader    *)
(* thread formats and writes them, and the exit and SIGTERM handlers ask   *)
(* the reader to drain before the process dies.                            *)
(*                                                                         *)
(* The module starts where the constructor ends: the rings are mapped, the *)
(* pthread key exists, the reader runs and the handlers are installed.     *)
(* An application thread is the list of hooked calls it makes; a signal    *)
(* handler of the application that makes a hooked call is a nested frame.  *)
(***************************************************************************)
EXTENDS Naturals, Sequences, FiniteSets

CONSTANTS
  Threads,        \* application threads
  Reader,         \* the thread spawned by the constructor
  MaxThreads,     \* MAX_THREADS: queues ever handed out
  QueueSize,      \* QUEUE_SIZE: slots of a queue
  Batch,          \* slots the reader takes from a queue in one pass (64)
  MaxWait,        \* polls of READER_DONE before a dying process gives up (100)
  MaxNest,        \* bound: application signal handlers nested on one thread
  Payload,        \* what tells one record from another
  NoEvent,        \* the contents of a slot never filled
  Calls,          \* kinds of call the application makes
  Traced,         \* kinds that are hooked and pass FILTER_MASK
  ThreadsExit,    \* do application threads end and new ones start?
  OwnSigterm      \* launch mode: MTDI_OWN_SIGTERM is set

Kinds == {"call", "write", "log", "fork", "execve", "exit", "term"}

ASSUME SizeAssumption ==
  /\ MaxThreads \in Nat \ {0}
  /\ QueueSize \in Nat \ {0}
  /\ Batch \in Nat \ {0}
  /\ MaxWait \in Nat
  /\ MaxNest \in Nat

ASSUME NameAssumption ==
  /\ Reader \notin Threads
  /\ NoEvent \notin Payload

ASSUME ModeAssumption ==
  /\ Calls \subseteq Kinds \ {"term"}
  /\ Traced \subseteq Kinds \ {"term"}
  /\ ThreadsExit \in BOOLEAN
  /\ OwnSigterm \in BOOLEAN

Tasks   == Threads \cup {Reader}
Queues  == 0 .. MaxThreads - 1
Slots   == 0 .. QueueSize - 1
NoQueue == MaxThreads              \* the null pointer of an unset pthread key
Events  == Payload \cup {NoEvent}

(* Both cursors are only ever used through "& MASK", so they are kept      *)
(* reduced.                                                                *)
After(i) == IF i = QueueSize - 1 THEN 0 ELSE i + 1

VARIABLES
  ready,           \* ready[q][s]: the publish flag of a slot
  slots,           \* slots[q][s]: the record, its head and its strings apart
  write_head,      \* write_head[q]: the producer's cursor
  active_queues,   \* ACTIVE_QUEUES
  tls,             \* tls[t]: the queue behind THREAD_KEY on thread t
  frame,           \* frame[t]: the handler activation running on t
  saved,           \* saved[t]: the activations a signal interrupted on t
  reader_writing,  \* READER_WRITING
  shutdown,        \* SHUTDOWN
  reader_done,     \* READER_DONE
  read_heads,      \* the reader's cursors
  rd,              \* the reader's other locals and its program counter
  out,             \* the last record written to LOG_FD, with its queue
  live,            \* the tasks that exist in this process
  child,           \* getpid() # INIT_PID
  proc             \* "alive", or "dead" once killed, exited or replaced

ringVars   == <<ready, slots, write_head, active_queues, tls>>
readerVars == <<read_heads, rd, reader_writing, out>>
procVars   == <<shutdown, reader_done, live, child, proc>>
vars       == <<ringVars, readerVars, procVars, frame, saved>>

(* What a handler activation holds: where it is, the call it serves, the   *)
(* record it pushes, q_ptr (or the counter it loaded), slot_idx, and how   *)
(* often a dying process has polled.                                       *)
Activation(pc, k, e) ==
  [pc |-> pc, kind |-> k, ev |-> e, q |-> NoQueue, w |-> 0, polls |-> 0]

Rest == Activation("app", "call", NoEvent)

Begin(k, e) == Activation(IF k = "fork" THEN "fork" ELSE "enter", k, e)

FramePCs == {"app", "fork", "enter", "claim", "cas", "bind", "load", "check",
             "fill", "strings", "advance", "publish", "forward", "flush", "poll"}

ReaderPCs == {"pass", "scan", "format", "guard", "write", "writing", "unguard",
              "release", "idle", "done"}

Frames == [pc : FramePCs, kind : Kinds, ev : Events, q : 0 .. MaxThreads,
           w : Slots, polls : 0 .. MaxWait]

Records == [hdr : Events, str : Events]
Blank   == [hdr |-> NoEvent, str |-> NoEvent]

ReaderStates == [pc : ReaderPCs, active : 0 .. MaxThreads, i : 0 .. MaxThreads,
                 n : 0 .. Batch, idle : BOOLEAN, rec : Records]

Init ==
  /\ ready = [q \in Queues |-> [s \in Slots |-> FALSE]]
  /\ slots = [q \in Queues |-> [s \in Slots |-> Blank]]
  /\ write_head = [q \in Queues |-> 0]
  /\ active_queues = 0
  /\ tls = [t \in Tasks |-> NoQueue]
  /\ frame = [t \in Tasks |-> Rest]
  /\ saved = [t \in Tasks |-> <<>>]
  /\ reader_writing = FALSE
  /\ shutdown = FALSE
  /\ reader_done = FALSE
  /\ read_heads = [q \in Queues |-> 0]
  /\ rd = [pc |-> "pass", active |-> 0, i |-> 0, n |-> 0, idle |-> TRUE,
           rec |-> Blank]
  /\ out = [q |-> NoQueue, rec |-> Blank]
  /\ live = Tasks
  /\ child = FALSE
  /\ proc = "alive"

Running(t) == proc = "alive" /\ t \in live

At(t, pc) == Running(t) /\ frame[t].pc = pc

Goto(t, pc) == frame' = [frame EXCEPT ![t].pc = pc]

(* The handler is left for the original function.                          *)
Leave(t) ==
  frame' = [frame EXCEPT ![t] = Activation("forward", frame[t].kind, NoEvent)]

-----------------------------------------------------------------------------
(* The handlers.                                                           *)

(* The application calls a hooked function.  Calling exit twice is         *)
(* undefined in C, so a second call is not made.                           *)
Call(t, k, p) ==
  /\ At(t, "app") /\ t \in Threads /\ saved[t] = <<>>
  /\ k = "exit" => \A u \in live : frame[u].kind # "exit"
  /\ frame' = [frame EXCEPT ![t] = Begin(k, p)]
  /\ UNCHANGED <<ringVars, readerVars, procVars, saved>>

(* A signal handler of the application interrupts whatever t is doing and  *)
(* makes one hooked call (a self-pipe write, say).                         *)
Interrupt(t, k, p) ==
  /\ Running(t) /\ Len(saved[t]) < MaxNest
  /\ k \in {"call", "write"}
  /\ saved' = [saved EXCEPT ![t] = Append(@, frame[t])]
  /\ frame' = [frame EXCEPT ![t] = Begin(k, p)]
  /\ UNCHANGED <<ringVars, readerVars, procVars>>

(* The signal handler returns to what it interrupted.                      *)
Resume(t) ==
  /\ At(t, "app") /\ saved[t] # <<>>
  /\ frame' = [frame EXCEPT ![t] = saved[t][Len(saved[t])]]
  /\ saved' = [saved EXCEPT ![t] = SubSeq(@, 1, Len(@) - 1)]
  /\ UNCHANGED <<ringVars, readerVars, procVars>>

(* Mutant: my_write does not look at the guard.                            *)
Logs_NoGuard(k) == k \in Traced \cup {"log"}

(* should_log, and the guard of my_write.  mtdi_log has no filter.         *)
Logs(k) ==
  /\ k \in Traced \cup {"log"}
  /\ k = "write" => ~reader_writing

SkipTrace(t) ==
  /\ At(t, "enter") /\ ~Logs(frame[t].kind)
  /\ Leave(t)
  /\ UNCHANGED <<ringVars, readerVars, procVars, saved>>

(* pthread_getspecific returns the queue, or null.                         *)
GetQueue(t) ==
  /\ At(t, "enter") /\ Logs(frame[t].kind)
  /\ frame' = [frame EXCEPT ![t].q = tls[t],
                            ![t].pc = IF tls[t] = NoQueue THEN "claim" ELSE "load"]
  /\ UNCHANGED <<ringVars, readerVars, procVars, saved>>

(* Mutant: the bound on the counter is off by one.                         *)
LoadActive_OffByOne(t) ==
  /\ At(t, "claim") /\ active_queues <= MaxThreads
  /\ frame' = [frame EXCEPT ![t].q = active_queues, ![t].pc = "cas"]
  /\ UNCHANGED <<ringVars, readerVars, procVars, saved>>

LoadActive(t) ==
  /\ At(t, "claim") /\ active_queues < MaxThreads
  /\ frame' = [frame EXCEPT ![t].q = active_queues, ![t].pc = "cas"]
  /\ UNCHANGED <<ringVars, readerVars, procVars, saved>>

(* All queues are taken: the event is dropped.                             *)
NoQueueLeft(t) ==
  /\ At(t, "claim") /\ active_queues >= MaxThreads
  /\ Leave(t)
  /\ UNCHANGED <<ringVars, readerVars, procVars, saved>>

(* Mutant: a plain store of the loaded counter plus one.                   *)
ClaimQueue_PlainStore(t) ==
  /\ At(t, "cas")
  /\ active_queues' = frame[t].q + 1
  /\ Goto(t, "bind")
  /\ UNCHANGED <<ready, slots, write_head, tls, readerVars, procVars, saved>>

ClaimQueue(t) ==
  /\ At(t, "cas") /\ active_queues = frame[t].q
  /\ active_queues' = active_queues + 1
  /\ Goto(t, "bind")
  /\ UNCHANGED <<ready, slots, write_head, tls, readerVars, procVars, saved>>

(* compare_exchange_weak fails: the counter moved, or for no reason.       *)
ClaimFails(t) ==
  /\ At(t, "cas")
  /\ Goto(t, "claim")
  /\ UNCHANGED <<ringVars, readerVars, procVars, saved>>

BindQueue(t) ==
  /\ At(t, "bind")
  /\ tls' = [tls EXCEPT ![t] = frame[t].q]
  /\ Goto(t, "load")
  /\ UNCHANGED <<ready, slots, write_head, active_queues, readerVars, procVars, saved>>

LoadHead(t) ==
  /\ At(t, "load")
  /\ frame' = [frame EXCEPT ![t].w = write_head[frame[t].q], ![t].pc = "check"]
  /\ UNCHANGED <<ringVars, readerVars, procVars, saved>>

(* Mutant: the producer spins until the slot is free.                      *)
DropFull_Wait(t) ==
  /\ At(t, "check") /\ ready[frame[t].q][frame[t].w]
  /\ UNCHANGED vars

(* The slot is still published: the queue is full, the event is dropped.   *)
DropFull(t) ==
  /\ At(t, "check") /\ ready[frame[t].q][frame[t].w]
  /\ Leave(t)
  /\ UNCHANGED <<ringVars, readerVars, procVars, saved>>

(* Mutant: the ready flag is not looked at.                                *)
SlotFree_Unchecked(t) ==
  /\ At(t, "check")
  /\ Goto(t, "fill")
  /\ UNCHANGED <<ringVars, readerVars, procVars, saved>>

SlotFree(t) ==
  /\ At(t, "check") /\ ~ready[frame[t].q][frame[t].w]
  /\ Goto(t, "fill")
  /\ UNCHANGED <<ringVars, readerVars, procVars, saved>>

(* Mutant: the strings of the record before are left in the slot.          *)
FillHead_StaleStrings(t) ==
  /\ At(t, "fill")
  /\ slots' = [slots EXCEPT ![frame[t].q][frame[t].w].hdr = frame[t].ev]
  /\ Goto(t, "advance")
  /\ UNCHANGED <<ready, write_head, active_queues, tls, readerVars, procVars, saved>>

(* timestamp, formatter and args                                           *)
FillHead(t) ==
  /\ At(t, "fill")
  /\ slots' = [slots EXCEPT ![frame[t].q][frame[t].w].hdr = frame[t].ev]
  /\ Goto(t, "strings")
  /\ UNCHANGED <<ready, write_head, active_queues, tls, readerVars, procVars, saved>>

(* str_data and its two lengths                                            *)
FillStrings(t) ==
  /\ At(t, "strings")
  /\ slots' = [slots EXCEPT ![frame[t].q][frame[t].w].str = frame[t].ev]
  /\ Goto(t, "advance")
  /\ UNCHANGED <<ready, write_head, active_queues, tls, readerVars, procVars, saved>>

(* Mutant: the cursor is not moved.                                        *)
Advance_Forgotten(t) ==
  /\ At(t, "advance")
  /\ Goto(t, "publish")
  /\ UNCHANGED <<ringVars, readerVars, procVars, saved>>

Advance(t) ==
  /\ At(t, "advance")
  /\ write_head' = [write_head EXCEPT ![frame[t].q] = After(frame[t].w)]
  /\ Goto(t, "publish")
  /\ UNCHANGED <<ready, slots, active_queues, tls, readerVars, procVars, saved>>

Publish(t) ==
  /\ At(t, "publish")
  /\ ready' = [ready EXCEPT ![frame[t].q][frame[t].w] = TRUE]
  /\ Leave(t)
  /\ UNCHANGED <<slots, write_head, active_queues, tls, readerVars, procVars, saved>>

(* The original function runs and the handler returns.                     *)
Return(t) ==
  /\ At(t, "forward")
  /\ frame[t].kind \in {"call", "write", "log", "fork", "execve"}
  /\ t = Reader => saved[Reader] # <<>>
  /\ frame' = [frame EXCEPT ![t] = Rest]
  /\ UNCHANGED <<ringVars, readerVars, procVars, saved>>

(* execve succeeds: the image, the ring and the reader are gone.           *)
ReplaceImage(t) ==
  /\ At(t, "forward") /\ frame[t].kind = "execve"
  /\ proc' = "dead"
  /\ UNCHANGED <<ringVars, readerVars, frame, saved, shutdown, reader_done, live, child>>

(* exit runs the atexit handlers.                                          *)
RunAtExit(t) ==
  /\ At(t, "forward") /\ frame[t].kind = "exit"
  /\ Goto(t, "flush")
  /\ UNCHANGED <<ringVars, readerVars, procVars, saved>>

(* my_fork calls fork first; only the parent, pid > 0, goes on to log.     *)
ForkParent(t) ==
  /\ At(t, "fork")
  /\ Goto(t, "enter")
  /\ UNCHANGED <<ringVars, readerVars, procVars, saved>>

ForkFails(t) ==
  /\ At(t, "fork")
  /\ frame' = [frame EXCEPT ![t] = Rest]
  /\ UNCHANGED <<ringVars, readerVars, procVars, saved>>

(* From here on the model follows the child: a copy of the memory in which *)
(* only the forking thread exists.                                         *)
ForkChild(t) ==
  /\ At(t, "fork")
  /\ live' = {t}
  /\ child' = TRUE
  /\ frame' = [frame EXCEPT ![t] = Rest]
  /\ UNCHANGED <<ringVars, readerVars, shutdown, reader_done, proc, saved>>

(* A thread ends and another one starts under its name, with an unset key. *)
(* The key has no destructor: the queue of the dead thread stays claimed.  *)
ReplaceThread(t) ==
  /\ ThreadsExit
  /\ At(t, "app") /\ t \in Threads /\ saved[t] = <<>>
  /\ tls[t] # NoQueue
  /\ tls' = [tls EXCEPT ![t] = NoQueue]
  /\ UNCHANGED <<ready, slots, write_head, active_queues, readerVars, procVars, frame, saved>>

-----------------------------------------------------------------------------
(* Dying.                                                                  *)

(* SIGTERM runs handle_terminate on some thread, whatever it is doing; it  *)
(* never returns there, and SIGTERM is masked while it runs.               *)
Terminate(t) ==
  /\ OwnSigterm
  /\ Running(t) /\ frame[t].kind # "term"
  /\ \A n \in 1 .. Len(saved[t]) : saved[t][n].kind # "term"
  /\ frame' = [frame EXCEPT ![t] = Activation("flush", "term", NoEvent)]
  /\ saved' = [saved EXCEPT ![t] = <<>>]
  /\ UNCHANGED <<ringVars, readerVars, procVars>>

(* flush_on_exit in a forked child returns at once, and the process dies.  *)
FlushInChild(t) ==
  /\ At(t, "flush") /\ child
  /\ proc' = "dead"
  /\ UNCHANGED <<ringVars, readerVars, frame, saved, shutdown, reader_done, live, child>>

(* Mutant: the process id is not compared.                                 *)
RequestDrain_AnyProcess(t) ==
  /\ At(t, "flush")
  /\ shutdown' = TRUE
  /\ Goto(t, "poll")
  /\ UNCHANGED <<ringVars, readerVars, saved, reader_done, live, child, proc>>

RequestDrain(t) ==
  /\ At(t, "flush") /\ ~child
  /\ shutdown' = TRUE
  /\ Goto(t, "poll")
  /\ UNCHANGED <<ringVars, readerVars, saved, reader_done, live, child, proc>>

Poll(t) ==
  /\ At(t, "poll") /\ ~reader_done /\ frame[t].polls < MaxWait
  /\ frame' = [frame EXCEPT ![t].polls = @ + 1]
  /\ UNCHANGED <<ringVars, readerVars, procVars, saved>>

(* Mutant: the wait has no budget.                                         *)
Die_OnlyDrained(t) ==
  /\ At(t, "poll") /\ reader_done
  /\ proc' = "dead"
  /\ UNCHANGED <<ringVars, readerVars, frame, saved, shutdown, reader_done, live, child>>

(* The reader answered, or the budget is spent: exit or the default action *)
(* of SIGTERM ends the process.                                            *)
Die(t) ==
  /\ At(t, "poll") /\ (reader_done \/ frame[t].polls = MaxWait)
  /\ proc' = "dead"
  /\ UNCHANGED <<ringVars, readerVars, frame, saved, shutdown, reader_done, live, child>>

-----------------------------------------------------------------------------
(* The reader thread.                                                      *)

ReaderAt(pc) ==
  /\ Running(Reader) /\ rd.pc = pc
  /\ frame[Reader].pc = "app" /\ saved[Reader] = <<>>

StartPass ==
  /\ ReaderAt("pass")
  /\ rd' = [rd EXCEPT !.pc = "scan", !.active = active_queues, !.i = 0, !.n = 0,
                      !.idle = TRUE]
  /\ UNCHANGED <<ringVars, procVars, frame, saved, read_heads, reader_writing, out>>

ReadSlot == read_heads[rd.i]

TakeSlot ==
  /\ ReaderAt("scan") /\ rd.i < rd.active /\ rd.n < Batch
  /\ ready[rd.i][ReadSlot]
  /\ rd' = [rd EXCEPT !.pc = "format", !.idle = FALSE]
  /\ UNCHANGED <<ringVars, procVars, frame, saved, read_heads, reader_writing, out>>

(* The queue is empty, or has had its share of this pass.                  *)
NextQueue ==
  /\ ReaderAt("scan") /\ rd.i < rd.active
  /\ rd.n = Batch \/ ~ready[rd.i][ReadSlot]
  /\ rd' = [rd EXCEPT !.i = @ + 1, !.n = 0]
  /\ UNCHANGED <<ringVars, procVars, frame, saved, read_heads, reader_writing, out>>

EndPass ==
  /\ ReaderAt("scan") /\ rd.i = rd.active
  /\ rd' = [rd EXCEPT !.pc = IF rd.idle THEN "idle" ELSE "pass"]
  /\ UNCHANGED <<ringVars, procVars, frame, saved, read_heads, reader_writing, out>>

Format ==
  /\ ReaderAt("format")
  /\ rd' = [rd EXCEPT !.pc = "guard", !.rec = slots[rd.i][ReadSlot]]
  /\ UNCHANGED <<ringVars, procVars, frame, saved, read_heads, reader_writing, out>>

(* Mutant: the guard is not set.                                           *)
SetGuard_Forgotten ==
  /\ ReaderAt("guard")
  /\ rd' = [rd EXCEPT !.pc = "write"]
  /\ UNCHANGED <<ringVars, procVars, frame, saved, read_heads, reader_writing, out>>

SetGuard ==
  /\ ReaderAt("guard")
  /\ reader_writing' = TRUE
  /\ rd' = [rd EXCEPT !.pc = "write"]
  /\ UNCHANGED <<ringVars, procVars, frame, saved, read_heads, out>>

(* libc::write is the hooked write: the reader enters my_write itself.     *)
CallWrite ==
  /\ ReaderAt("write")
  /\ rd' = [rd EXCEPT !.pc = "writing"]
  /\ frame' = [frame EXCEPT ![Reader] = Begin("write", NoEvent)]
  /\ UNCHANGED <<ringVars, procVars, saved, read_heads, reader_writing, out>>

(* The original write: the record is out.                                  *)
Emit ==
  /\ At(Reader, "forward") /\ frame[Reader].kind = "write" /\ saved[Reader] = <<>>
  /\ out' = [q |-> rd.i, rec |-> rd.rec]
  /\ rd' = [rd EXCEPT !.pc = "unguard"]
  /\ frame' = [frame EXCEPT ![Reader] = Rest]
  /\ UNCHANGED <<ringVars, procVars, saved, read_heads, reader_writing>>

ClearGuard ==
  /\ ReaderAt("unguard")
  /\ reader_writing' = FALSE
  /\ rd' = [rd EXCEPT !.pc = "release"]
  /\ UNCHANGED <<ringVars, procVars, frame, saved, read_heads, out>>

(* Mutant: the slot stays published.                                       *)
Release_KeepsFlag ==
  /\ ReaderAt("release")
  /\ read_heads' = [read_heads EXCEPT ![rd.i] = After(ReadSlot)]
  /\ rd' = [rd EXCEPT !.pc = "scan", !.n = @ + 1]
  /\ UNCHANGED <<ringVars, procVars, frame, saved, reader_writing, out>>

(* Mutant: a queue is served for as long as it has records.                *)
Release_Uncounted ==
  /\ ReaderAt("release")
  /\ ready' = [ready EXCEPT ![rd.i][ReadSlot] = FALSE]
  /\ read_heads' = [read_heads EXCEPT ![rd.i] = After(ReadSlot)]
  /\ rd' = [rd EXCEPT !.pc = "scan"]
  /\ UNCHANGED <<slots, write_head, active_queues, tls, procVars, frame, saved,
                 reader_writing, out>>

Release ==
  /\ ReaderAt("release")
  /\ ready' = [ready EXCEPT ![rd.i][ReadSlot] = FALSE]
  /\ read_heads' = [read_heads EXCEPT ![rd.i] = After(ReadSlot)]
  /\ rd' = [rd EXCEPT !.pc = "scan", !.n = @ + 1]
  /\ UNCHANGED <<slots, write_head, active_queues, tls, procVars, frame, saved,
                 reader_writing, out>>

(* An idle pass ends in a sleep.                                           *)
Sleep ==
  /\ ReaderAt("idle") /\ ~shutdown
  /\ rd' = [rd EXCEPT !.pc = "pass"]
  /\ UNCHANGED <<ringVars, procVars, frame, saved, read_heads, reader_writing, out>>

(* An idle pass under SHUTDOWN ends the reader, and its thread.            *)
Finish ==
  /\ ReaderAt("idle") /\ shutdown
  /\ reader_done' = TRUE
  /\ rd' = [rd EXCEPT !.pc = "done"]
  /\ live' = live \ {Reader}
  /\ UNCHANGED <<ringVars, frame, saved, read_heads, reader_writing, out,
                 shutdown, child, proc>>

-----------------------------------------------------------------------------

Produce(t) ==
  \/ SkipTrace(t) \/ GetQueue(t) \/ LoadActive(t) \/ NoQueueLeft(t)
  \/ ClaimQueue(t) \/ ClaimFails(t) \/ BindQueue(t) \/ LoadHead(t)
  \/ DropFull(t) \/ SlotFree(t) \/ FillHead(t) \/ FillStrings(t)
  \/ Advance(t) \/ Publish(t)

(* What a thread does inside a handler, or to return from it.              *)
HandlerStep(t) ==
  \/ Produce(t) \/ Return(t) \/ RunAtExit(t)
  \/ ForkParent(t) \/ ForkFails(t) \/ ForkChild(t) \/ Resume(t)

FlushStep(t) == FlushInChild(t) \/ RequestDrain(t) \/ Poll(t) \/ Die(t)

ReaderStep ==
  \/ StartPass \/ TakeSlot \/ NextQueue \/ EndPass \/ Format \/ SetGuard
  \/ CallWrite \/ Emit \/ ClearGuard \/ Release \/ Sleep \/ Finish

(* What the application and the system choose to do.                       *)
Environment(t) ==
  \/ \E k \in Calls, p \in Payload : Call(t, k, p) \/ Interrupt(t, k, p)
  \/ ReplaceThread(t) \/ ReplaceImage(t) \/ Terminate(t)

Dead == proc = "dead" /\ UNCHANGED vars

Next ==
  \/ \E t \in Tasks : HandlerStep(t) \/ FlushStep(t) \/ Environment(t)
  \/ ReaderStep
  \/ Dead

Spec == Init /\ [][Next]_vars

(* The reader is a thread of its own: the system schedules it.  Nothing is *)
(* assumed of the application.                                             *)
ReaderSpec == Spec /\ WF_vars(ReaderStep \/ HandlerStep(Reader))

(* The application's threads are scheduled, and a compare-exchange that    *)
(* can succeed again and again does not fail forever.  Nothing is assumed  *)
(* of the reader.                                                          *)
ThreadSpec ==
  Spec /\ \A t \in Threads : WF_vars(HandlerStep(t)) /\ SF_vars(ClaimQueue(t))

(* A thread that sleeps between two polls wakes up.                        *)
FlushSpec == Spec /\ \A t \in Tasks : WF_vars(FlushStep(t))

-----------------------------------------------------------------------------
(* Properties.                                                             *)

TypeOK ==
  /\ ready \in [Queues -> [Slots -> BOOLEAN]]
  /\ slots \in [Queues -> [Slots -> Records]]
  /\ write_head \in [Queues -> Slots]
  /\ active_queues \in 0 .. MaxThreads
  /\ tls \in [Tasks -> 0 .. MaxThreads]
  /\ frame \in [Tasks -> Frames]
  /\ saved \in [Tasks -> Seq(Frames)]
  /\ reader_writing \in BOOLEAN
  /\ shutdown \in BOOLEAN
  /\ reader_done \in BOOLEAN
  /\ read_heads \in [Queues -> Slots]
  /\ rd \in ReaderStates
  /\ out \in [q : 0 .. MaxThreads, rec : Records]
  /\ live \subseteq Tasks
  /\ child \in BOOLEAN
  /\ proc \in {"alive", "dead"}

Pushing == {"load", "check", "fill", "strings", "advance", "publish"}

(* The queue t pushes to: claimed and not yet bound, or bound.             *)
Held(t) == IF frame[t].pc = "bind" THEN frame[t].q ELSE tls[t]

(* No two threads ever push to the same queue, and every queue handed out  *)
(* is one the reader visits: the claim loop on ACTIVE_QUEUES and the       *)
(* setspecific after it (lib.rs:405-414), against each other and against   *)
(* threads that end.                                                       *)
QueueExclusive ==
  \A t \in Tasks : Held(t) # NoQueue =>
    /\ Held(t) < active_queues
    /\ \A u \in Tasks \ {t} : Held(u) # Held(t)

(* The producer never writes a slot while the reader formats it: the ready *)
(* flag alone keeps the two apart (lib.rs:282, 334, 422, 450).             *)
NoSlotRace ==
  \A t \in Tasks : frame[t].pc \in {"fill", "strings"} =>
    ~(rd.pc = "format" /\ rd.i = frame[t].q /\ ReadSlot = frame[t].w)

(* Every record that reaches LOG_FD was pushed by one call: its head and   *)
(* its strings belong together.                                            *)
WholeRecords == out.rec.hdr = out.rec.str

(* The reader's own output write never becomes an event (lib.rs:328-332,   *)
(* 825-828), so tracing "write" does not feed on itself; an application's  *)
(* signal handler that runs on the reader thread is another matter.        *)
NoSelfTrace ==
  saved[Reader] = <<>> =>
    frame[Reader].pc \notin {"claim", "cas", "bind"} \cup Pushing

(* An event is dropped for a full queue only when every slot of the queue  *)
(* is waiting for the reader: the single flag the producer looks at speaks *)
(* for the whole ring (lib.rs:418-424).                                    *)
DropOnlyWhenFull ==
  [][\A t \in Tasks : DropFull(t) => \A s \in Slots : ready[frame[t].q][s]]_vars

(* A forked child never waits for a reader it does not have                *)
(* (lib.rs:531-535): no interleaving of fork, exit and SIGTERM makes it    *)
(* poll.                                                                   *)
ChildNeverWaits == child => \A t \in live : frame[t].pc # "poll"

(* A published record is written, whatever the other queues do: the batch  *)
(* bound keeps one flooded queue from starving the rest (lib.rs:278).      *)
EventuallyEmitted ==
  \A q \in Queues, s \in Slots :
    ready[q][s] ~> (~ready[q][s] \/ reader_done \/ child \/ proc = "dead")

(* A hooked call returns to the application although the reader may never  *)
(* run: the hot path drops, it does not wait.                              *)
CallsReturn ==
  \A t \in Threads :
    frame[t].pc = "enter" ~> (frame[t].pc \in {"app", "flush"} \/ t \notin live
                              \/ proc = "dead")

(* Once a thread runs flush_on_exit the process ends, drained or not: the  *)
(* budget of the wait holds even where SIGTERM is delivered to the reader, *)
(* which cannot drain while it waits for itself (lib.rs:530-553).          *)
FlushEnds ==
  \A t \in Tasks :
    t \in live /\ frame[t].pc = "flush" ~> (proc = "dead" \/ t \notin live)

(* What the repository says and the code does not do.                      *)

(* "atexit: drain the ring and exit, so short-lived processes don't lose   *)
(* their tail" (lib.rs:340-341): when the reader reports that it is done,  *)
(* the thread that waits for it has no record left in its ring.            *)
DoneMeansDrained ==
  reader_done => \A t \in live :
    frame[t].pc = "poll" /\ tls[t] # NoQueue => \A s \in Slots : ~ready[tls[t]][s]

-----------------------------------------------------------------------------
(* The inductive invariant, for programs whose signal handlers make no     *)
(* hooked call (MaxNest = 0).                                              *)

Filling == {"fill", "strings", "advance", "publish"}
Reading == {"format", "guard", "write", "writing", "unguard", "release"}

(* A thread claims only while it has no queue, and pushes to its own.      *)
OwnQueue(t) ==
  /\ frame[t].pc \in {"claim", "cas", "bind"} => tls[t] = NoQueue
  /\ frame[t].pc \in {"cas", "bind"} => frame[t].q # NoQueue
  /\ frame[t].pc \in Pushing => frame[t].q = tls[t] /\ tls[t] # NoQueue

(* The slot being filled is unpublished, and holds what was stored so far. *)
OwnSlot(t) ==
  /\ frame[t].pc \in Filling => ~ready[frame[t].q][frame[t].w]
  /\ frame[t].pc \in {"strings", "advance", "publish"} =>
       slots[frame[t].q][frame[t].w].hdr = frame[t].ev
  /\ frame[t].pc \in {"advance", "publish"} =>
       slots[frame[t].q][frame[t].w].str = frame[t].ev

PublishedWhole ==
  \A q \in Queues, s \in Slots : ready[q][s] => slots[q][s].hdr = slots[q][s].str

(* The reader works on a published slot and carries a whole record.        *)
ReaderOwnsSlot ==
  /\ rd.active <= active_queues
  /\ rd.pc = "scan" => rd.i <= rd.active
  /\ rd.pc \in Reading => rd.i < rd.active /\ rd.n < Batch /\ ready[rd.i][ReadSlot]
  /\ rd.pc \in Reading \ {"format"} => rd.rec.hdr = rd.rec.str

(* The guard is up whenever the reader may be inside write.                *)
ReaderGuarded ==
  /\ rd.pc \in {"write", "writing", "unguard"} => reader_writing
  /\ frame[Reader].pc \in {"app", "enter", "forward", "flush", "poll"}
  /\ frame[Reader].pc \in {"enter", "forward"} =>
       frame[Reader].kind = "write" /\ rd.pc = "writing"

RingInv ==
  /\ TypeOK
  /\ saved = [t \in Tasks |-> <<>>]
  /\ \A t \in Tasks : OwnQueue(t) /\ OwnSlot(t)
  /\ QueueExclusive
  /\ PublishedWhole /\ WholeRecords
  /\ ReaderOwnsSlot
  /\ ReaderGuarded

(* Without that bound: what holds of the activations on a thread, the      *)
(* interrupted ones first.                                                 *)
Stack(t) == Append(saved[t], frame[t])

Fitting(f) ==
  /\ f.pc \in {"cas", "bind"} \cup Pushing => f.q \in Queues
  /\ f.pc = "fork" => f.kind = "fork"

(* Nothing but a call or a write interrupts, so a fork has the thread to   *)
(* itself; and no poll is left on a thread of a child.                     *)
StackInv ==
  \A t \in Tasks : \A n \in 1 .. Len(Stack(t)) :
    /\ Fitting(Stack(t)[n])
    /\ n > 1 => Stack(t)[n].kind \in {"call", "write"}
    /\ child /\ t \in live => Stack(t)[n].pc # "poll"

(* Every queue t has claimed: the one its key holds, and the ones that an  *)
(* activation, interrupted or not, is about to bind.                       *)
Owns(t, q) ==
  \/ tls[t] = q
  \/ \E n \in 1 .. Len(Stack(t)) : Stack(t)[n].pc = "bind" /\ Stack(t)[n].q = q

OwnedOnce ==
  \A t \in Tasks, q \in Queues : Owns(t, q) =>
    /\ q < active_queues
    /\ \A u \in Tasks \ {t} : ~Owns(u, q)

(* Below whatever interrupted it, the reader runs its loop, writes under   *)
(* its guard, or dies.                                                     *)
ReaderInv ==
  /\ rd.pc \in Reading => rd.i < rd.active /\ rd.n < Batch
  /\ rd.pc \in {"write", "writing", "unguard"} => reader_writing
  /\ Stack(Reader)[1].pc \in {"app", "enter", "forward", "flush", "poll"}
  /\ Stack(Reader)[1].pc \in {"enter", "forward"} =>
       Stack(Reader)[1].kind = "write" /\ rd.pc = "writing"

NestInv == TypeOK /\ StackInv /\ OwnedOnce /\ ReaderInv

-----------------------------------------------------------------------------
(* Refinement: the ring is the abstract line.                              *)

(* The n-th slot from slot r on.                                           *)
From(r, n) == IF r + n < QueueSize THEN r + n ELSE r + n - QueueSize

(* The published slots of a ring are n, from slot r on.                    *)
PublishedFrom(flags, r, n) ==
  \A m \in 0 .. QueueSize - 1 : flags[From(r, m)] <=> m < n

(* They end where the next record is published: at the producer's cursor,  *)
(* or just behind it.  A thread that dies while it pushes leaves a gap and *)
(* pushes no more.                                                         *)
EndsAt(q, s) ==
  /\ q >= active_queues => write_head[q] = s
  /\ \A t \in Tasks : Held(t) = q =>
       \/ frame[t].pc \in {"flush", "poll"}
       \/ frame[t].pc = "publish" /\ frame[t].w = s /\ write_head[q] = After(s)
       \/ /\ frame[t].pc # "publish" /\ write_head[q] = s
          /\ frame[t].pc \in {"check"} \cup Filling => frame[t].w = s

InLine(q) ==
  \E n \in 0 .. QueueSize :
    PublishedFrom(ready[q], read_heads[q], n) /\ EndsAt(q, From(read_heads[q], n))

(* What the reader carries is still in its slot.                           *)
Carried == rd.pc \in {"guard", "write", "writing"} => rd.rec = slots[rd.i][ReadSlot]

(* The inductive form of the line's order.                                 *)
LineInv == RingInv /\ Carried /\ \A q \in Queues : InLine(q)

(* How many slots the reader has yet to release: up to the first one that  *)
(* is not published.                                                       *)
Unreleased(flags, r) ==
  CHOOSE n \in 0 .. QueueSize :
    /\ \A m \in 0 .. n - 1 : flags[From(r, m)]
    /\ n < QueueSize => ~flags[From(r, n)]

(* The slot at the cursor is written before it is released.                *)
Emitted(q) == IF rd.i = q /\ rd.pc \in {"unguard", "release"} THEN 1 ELSE 0

(* What n slots from r on hold, less the first e.                          *)
Contents(recs, r, n, e) == [k \in 1 .. n - e |-> recs[From(r, k + e - 1)]]

Waiting ==
  [q \in Queues |-> Contents(slots[q], read_heads[q],
                             Unreleased(ready[q], read_heads[q]), Emitted(q))]

Line == INSTANCE LossyTrace WITH
  Lines <- Queues, Capacity <- QueueSize, Item <- Records,
  Nothing <- [q |-> NoQueue, rec |-> Blank], pending <- Waiting, written <- out

(* The pipeline implements the lossy line: records leave each queue once,  *)
(* whole, and in the order their thread pushed them, across wrap-around of *)
(* both cursors (lib.rs:274-338, 417-450).                                 *)
ImplementsLossyTrace == Line!Spec
=============================================================================
