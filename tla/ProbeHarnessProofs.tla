-------------------------- MODULE ProbeHarnessProofs --------------------------
(***************************************************************************)
(* What the harness guarantees for any number of threads, registrations    *)
(* and calls, any cap on events, and handlers that may panic anywhere.     *)
(* HarnessInv is inductive: DispatcherInv ties a thread's stack of calls   *)
(* to the recursion guard and the mutex of HOOKS, LogInv ties the place of *)
(* its handler in log_line to CREATING, the counts and the log.            *)
(***************************************************************************)
EXTENDS ProbeHarness, SequenceTheorems, FiniteSetTheorems, TLAPS

-----------------------------------------------------------------------------
(* Stacks of calls.                                                        *)

LEMMA Prefix ==
  ASSUME NEW S, NEW s \in Seq(S), NEW n \in Nat, n < Len(s)
  PROVE  /\ SubSeq(s, 1, n) \in Seq(S) /\ Len(SubSeq(s, 1, n)) = n
         /\ \A k \in 1 .. n : SubSeq(s, 1, n)[k] = s[k]
<1>1. Len(s) \in Nat
  OBVIOUS
<1>2. \A k \in 1 .. n : s[k] \in S
  BY <1>1, ElementOfSeq
<1>. QED  BY <1>2, SubSeqProperties

(* Returning from the innermost call.                                      *)
LEMMA DropTop ==
  ASSUME NEW S, NEW s \in Seq(S), s # <<>>
  PROVE  /\ Front(s) \in Seq(S)
         /\ Len(Front(s)) = Len(s) - 1
         /\ \A k \in 1 .. Len(s) - 1 : Front(s)[k] = s[k]
<1>1. Len(s) - 1 \in Nat /\ Len(s) - 1 < Len(s)
  BY EmptySeq
<1>. QED  BY <1>1, Prefix DEF Front

(* Replacing it.                                                           *)
LEMMA ReplaceTop ==
  ASSUME NEW S, NEW s \in Seq(S), s # <<>>, NEW c \in S
  PROVE  /\ Append(Front(s), c) \in Seq(S)
         /\ Len(Append(Front(s), c)) = Len(s)
         /\ Append(Front(s), c)[Len(s)] = c
         /\ \A k \in 1 .. Len(s) - 1 : Append(Front(s), c)[k] = s[k]
<1>1. Len(s) \in Nat \ {0}
  BY EmptySeq
<1>. QED  BY <1>1, DropTop, AppendProperties

(* A call inside the innermost one.                                        *)
LEMMA PushCall ==
  ASSUME NEW S, NEW s \in Seq(S), NEW c \in S
  PROVE  /\ s \o <<c>> \in Seq(S)
         /\ Len(s \o <<c>>) = Len(s) + 1
         /\ (s \o <<c>>)[Len(s) + 1] = c
         /\ \A k \in 1 .. Len(s) : (s \o <<c>>)[k] = s[k]
<1>1. <<c>> \in Seq(S) /\ Len(<<c>>) = 1 /\ <<c>>[1] = c
  OBVIOUS
<1>2. Len(s) \in Nat
  BY LenProperties
<1>. QED  BY <1>1, <1>2, ConcatProperties

(* The calls of a thread, one by one.                                      *)
LEMMA StackType ==
  ASSUME StackOK, NEW t \in Threads
  PROVE  /\ stack[t] \in Seq(CallType) /\ Len(stack[t]) \in 0 .. 2
         /\ DOMAIN stack[t] = 1 .. Len(stack[t])
         /\ \A k \in 1 .. Len(stack[t]) : stack[t][k] \in CallType
         /\ Calling(t) <=> Len(stack[t]) # 0
         /\ Calling(t) => Top(t) = stack[t][Len(stack[t])] /\ Top(t) \in CallType
<1>1. stack[t] \in Seq(CallType) /\ Len(stack[t]) <= 2
  BY DEF StackOK
<1>2. Len(stack[t]) \in 0 .. 2 /\ DOMAIN stack[t] = 1 .. Len(stack[t])
  <2>1. Len(stack[t]) \in Nat /\ DOMAIN stack[t] = 1 .. Len(stack[t])
    BY <1>1
  <2>2. \A n \in Nat : n <= 2 => n \in 0 .. 2
    OBVIOUS
  <2>. QED  BY <1>1, <2>1, <2>2, Zenon
<1>3. \A k \in 1 .. Len(stack[t]) : stack[t][k] \in CallType
  BY <1>1, ElementOfSeq
<1>4. stack[t] # <<>> <=> Len(stack[t]) # 0
  BY <1>1, EmptySeq
<1>. QED  BY <1>1, <1>2, <1>3, <1>4 DEF Calling, Top, Last

(* A thread that is inside a handler is in one call only, its own.         *)
LEMMA HandlerIsFirst ==
  ASSUME StackOK, DispatchInv, NEW t \in Threads, Calling(t), Top(t).pc \in InsideHandler
  PROVE  Len(stack[t]) = 1 /\ Top(t) = stack[t][1] /\ Place(t) = Top(t).pc /\ depth[t] = 1
  BY StackType DEF DispatchInv, Place

-----------------------------------------------------------------------------
(* The dispatcher.                                                         *)

(* A step that replaces the innermost call of one thread.                  *)
LEMMA TopMove ==
  ASSUME StackOK, NEW t \in Threads, Calling(t), NEW c \in CallType, stack' = Replace(t, c)
  PROVE  /\ stack' \in [Threads -> Seq(CallType)]
         /\ \A u \in Threads : Len(stack'[u]) = Len(stack[u])
         /\ \A u \in Threads \ {t} : stack'[u] = stack[u]
         /\ stack'[t][Len(stack[t])] = c
         /\ \A k \in 1 .. Len(stack[t]) - 1 : stack'[t][k] = stack[t][k]
<1>1. stack[t] \in Seq(CallType) /\ stack[t] # <<>>
  BY StackType DEF Calling
<1>2. /\ stack'[t] = Append(Front(stack[t]), c)
      /\ \A u \in Threads \ {t} : stack'[u] = stack[u]
  BY DEF Replace, StackOK
<1>3. /\ stack'[t] \in Seq(CallType) /\ Len(stack'[t]) = Len(stack[t])
      /\ stack'[t][Len(stack[t])] = c
      /\ \A k \in 1 .. Len(stack[t]) - 1 : stack'[t][k] = stack[t][k]
  BY <1>1, <1>2, ReplaceTop
<1>4. stack' \in [Threads -> Seq(CallType)]
  BY <1>3 DEF Replace, StackOK
<1>. QED  BY <1>2, <1>3, <1>4

(* What such a step must respect to keep the dispatcher's invariant.       *)
LEMMA DispatcherMove ==
  ASSUME DispatcherInv, NEW t \in Threads, Calling(t), NEW c \in CallType,
         stack' = Replace(t, c), c.f = Top(t).f, c.due = Top(t).due,
         c.pc \in InsideHandler => c.ran, c.pc = "original" /\ c.due => c.ran,
         Len(stack[t]) = 2 => c.pc \notin InsideHandler /\ depth'[t] = depth[t],
         Len(stack[t]) = 1 => (depth'[t] = 1 <=> c.pc \in InsideHandler),
         depth' \in [Threads -> {0, 1}],
         \A u \in Threads \ {t} : depth'[u] = depth[u],
         lock' \in Threads \cup {Loader, Free}, lock' = Loader <=> lock = Loader,
         lock' = t <=> c.pc = "find", \A u \in Threads \ {t} : lock' = u <=> lock = u,
         UNCHANGED <<initVars, calls>>, proc' \in {"alive", "aborted"}
  PROVE  DispatcherInv'
<1>1. /\ stack' \in [Threads -> Seq(CallType)]
      /\ \A u \in Threads : Len(stack'[u]) = Len(stack[u])
      /\ \A u \in Threads \ {t} : stack'[u] = stack[u]
      /\ stack'[t][Len(stack[t])] = c
      /\ \A k \in 1 .. Len(stack[t]) - 1 : stack'[t][k] = stack[t][k]
  BY TopMove DEF DispatcherInv
<1>2. StackOK'
  BY <1>1 DEF StackOK, DispatcherInv, initVars
<1>3. InstallInv'
  BY DEF InstallInv, DispatcherInv, initVars
<1>4. /\ Len(stack[t]) \in {1, 2} /\ Top(t) = stack[t][Len(stack[t])]
      /\ DOMAIN stack'[t] = 1 .. Len(stack[t]) /\ DOMAIN stack[t] = 1 .. Len(stack[t])
  <2>1. Len(stack[t]) \in 0 .. 2 /\ Len(stack[t]) # 0 /\ Top(t) = stack[t][Len(stack[t])]
        /\ DOMAIN stack[t] = 1 .. Len(stack[t])
    BY StackType DEF DispatcherInv
  <2>2. DOMAIN stack'[t] = 1 .. Len(stack'[t])
    BY <1>1
  <2>. QED  BY <1>1, <2>1, <2>2
<1>5. DispatchInv'
  <2>1. ASSUME NEW u \in Threads, u # t
        PROVE  /\ Len(stack'[u]) = 2 => /\ stack'[u][1].pc \in {"store", "clear"}
                                       /\ stack'[u][2].pc \notin InsideHandler
               /\ depth'[u] = 1 <=> Calling(u)' /\ stack'[u][1].pc \in InsideHandler
               /\ lock' = u <=> Calling(u)' /\ Top(u)'.pc = "find"
    BY <1>1, <2>1 DEF DispatcherInv, DispatchInv, Calling, Top, Last
  <2>2. Calling(t)' /\ Top(t)' = c
    <3>1. Len(stack'[t]) = Len(stack[t]) /\ Len(stack[t]) # 0
      <4>1. Len(stack'[t]) = Len(stack[t])
        BY <1>1
      <4>2. Len(stack[t]) # 0
        BY StackType DEF DispatcherInv
      <4>. QED  BY <4>1, <4>2
    <3>. QED  BY <1>1, <3>1, EmptySeq DEF Calling, Top, Last
  <2>3. CASE Len(stack[t]) = 1
    <3>1. stack'[t][1] = c /\ Len(stack'[t]) = 1
      BY <1>1, <2>3
    <3>. QED  BY <2>1, <2>2, <2>3, <3>1 DEF DispatchInv
  <2>4. CASE Len(stack[t]) = 2
    <3>1. stack'[t][2] = c /\ stack'[t][1] = stack[t][1] /\ Len(stack'[t]) = 2
      BY <1>1, <2>4
    <3>. QED  BY <2>1, <2>2, <2>4, <3>1 DEF DispatcherInv, DispatchInv
  <2>. QED  BY <1>4, <2>3, <2>4
<1>6. DueInv'
  <2>1. ASSUME NEW u \in Threads, u # t, NEW k \in DOMAIN stack'[u]
        PROVE  /\ stack'[u][k].due => k = 1 /\ stack'[u][k].f \in table'
               /\ stack'[u][k].pc \in InsideHandler => stack'[u][k].ran
               /\ stack'[u][k].pc = "original" /\ stack'[u][k].due => stack'[u][k].ran
    <3>1. stack'[u] = stack[u] /\ table' = table
      BY <1>1, <2>1 DEF initVars
    <3>. QED  BY <2>1, <3>1 DEF DispatcherInv, DueInv
  <2>2. ASSUME NEW k \in DOMAIN stack'[t]
        PROVE  /\ stack'[t][k].due => k = 1 /\ stack'[t][k].f \in table'
               /\ stack'[t][k].pc \in InsideHandler => stack'[t][k].ran
               /\ stack'[t][k].pc = "original" /\ stack'[t][k].due => stack'[t][k].ran
    <3>1. k \in 1 .. Len(stack[t])
      BY <1>4
    <3>2. CASE k = Len(stack[t])
      <4>1. stack'[t][k] = c /\ table' = table /\ k \in DOMAIN stack[t] /\ stack[t][k] = Top(t)
        BY <1>1, <1>4, <3>1, <3>2 DEF initVars
      <4>2. Top(t).due => k = 1 /\ Top(t).f \in table
        BY <4>1 DEF DispatcherInv, DueInv
      <4>. QED  BY <4>1, <4>2
    <3>3. CASE k # Len(stack[t])
      <4>1. stack'[t][k] = stack[t][k]
        BY <1>1, <1>4, <3>1, <3>3
      <4>. QED  BY <1>4, <3>1, <4>1 DEF DispatcherInv, DueInv, initVars
    <3>. QED  BY <3>2, <3>3
  <2>. QED  BY <2>1, <2>2 DEF DueInv
<1>. QED  BY <1>2, <1>3, <1>5, <1>6 DEF DispatcherInv

(* The same call at another place.                                         *)
LEMMA WithPC ==
  ASSUME NEW c \in CallType, NEW p \in CallPCs
  PROVE  LET d == [c EXCEPT !.pc = p]
         IN  /\ d \in CallType /\ d.pc = p /\ d.f = c.f /\ d.n = c.n
             /\ d.due = c.due /\ d.ran = c.ran
<1>1. [c EXCEPT !.pc = p] \in CallType
  BY DEF CallType
<1>. QED  BY <1>1 DEF CallType

LEMMA WithPCAndN ==
  ASSUME NEW c \in CallType, NEW p \in CallPCs, NEW n \in Nat
  PROVE  LET d == [c EXCEPT !.n = n, !.pc = p]
         IN  /\ d \in CallType /\ d.pc = p /\ d.f = c.f /\ d.n = n
             /\ d.due = c.due /\ d.ran = c.ran
<1>1. [c EXCEPT !.n = n, !.pc = p] \in CallType
  BY DEF CallType
<1>. QED  BY <1>1 DEF CallType

LEMMA WithPCAndRan ==
  ASSUME NEW c \in CallType, NEW p \in CallPCs
  PROVE  LET d == [c EXCEPT !.pc = p, !.ran = TRUE]
         IN  d \in CallType /\ d.pc = p /\ d.f = c.f /\ d.due = c.due /\ d.ran
<1>1. [c EXCEPT !.pc = p, !.ran = TRUE] \in CallType
  BY DEF CallType
<1>2. [c EXCEPT !.pc = p, !.ran = TRUE].ran
  BY DEF CallType
<1>. QED  BY <1>1, <1>2 DEF CallType

(* A step of a handler: its thread is in one call, which stays.            *)
LEMMA HandlerMove ==
  ASSUME DispatcherInv, NEW t \in Threads, Calling(t), Top(t).pc \in InsideHandler,
         NEW c \in CallType, stack' = Replace(t, c),
         c.f = Top(t).f, c.due = Top(t).due, c.ran = Top(t).ran, c.pc \in InsideHandler,
         UNCHANGED <<initVars, lock, depth, calls, proc>>
  PROVE  DispatcherInv'
<1>1. Len(stack[t]) = 1 /\ Top(t) = stack[t][1] /\ depth[t] = 1
  BY HandlerIsFirst DEF DispatcherInv
<1>2. Top(t).ran
  <2>1. 1 \in DOMAIN stack[t]
    BY <1>1, StackType DEF DispatcherInv
  <2>. QED  BY <1>1, <2>1 DEF DispatcherInv, DueInv
<1>3. lock # t /\ c.pc # "find" /\ c.pc # "original"
  <2>1. Top(t).pc # "find" /\ c.pc # "find" /\ c.pc # "original"
    BY DEF InsideHandler
  <2>. QED  BY <2>1 DEF DispatcherInv, DispatchInv
<1>4. /\ depth \in [Threads -> {0, 1}] /\ lock \in Threads \cup {Loader, Free}
      /\ proc \in {"alive", "aborted"}
  BY DEF DispatcherInv, StackOK
<1>5. /\ c.ran /\ Len(stack[t]) # 2 /\ (depth'[t] = 1 <=> c.pc \in InsideHandler)
      /\ UNCHANGED <<lock, depth, proc>> /\ UNCHANGED <<initVars, calls>>
  BY <1>1, <1>2
<1>6. lock' = t <=> c.pc = "find"
  BY <1>3, <1>5
<1>. QED  BY <1>3, <1>4, <1>5, <1>6, DispatcherMove

(* The dispatcher's own steps.                                             *)
LEMMA LockTableStep ==
  ASSUME DispatcherInv, NEW t \in Threads, LockTable(t)
  PROVE  DispatcherInv'
<1>. DEFINE c == [Top(t) EXCEPT !.pc = "find"]
<1>1. Calling(t) /\ Top(t).pc = "lock" /\ Top(t) \in CallType
  BY StackType DEF LockTable, At, Calling, DispatcherInv
<1>2. c \in CallType /\ c.pc = "find" /\ c.f = Top(t).f /\ c.due = Top(t).due
  BY <1>1, WithPC DEF CallPCs
<1>3. c.pc \notin InsideHandler /\ Top(t).pc \notin InsideHandler /\ c.pc # "original"
  BY <1>1, <1>2 DEF InsideHandler
<1>4. /\ depth \in [Threads -> {0, 1}] /\ lock = Free /\ lock' = t
      /\ stack' = Replace(t, c) /\ UNCHANGED <<initVars, depth, calls, proc>>
      /\ proc \in {"alive", "aborted"}
  BY DEF DispatcherInv, StackOK, LockTable, Goto
<1>5. Len(stack[t]) = 1 => (depth[t] = 1 <=> c.pc \in InsideHandler)
  BY <1>1, <1>3, StackType DEF DispatcherInv, DispatchInv
<1>6. /\ lock' # Loader /\ lock # Loader
      /\ \A u \in Threads \ {t} : lock' # u /\ lock # u
  BY <1>4, HarnessAssumption
<1>. QED  BY <1>1, <1>2, <1>3, <1>4, <1>5, <1>6, DispatcherMove

LEMMA FindStep ==
  ASSUME DispatcherInv, NEW t \in Threads, Find(t)
  PROVE  DispatcherInv'
<1>. DEFINE p == IF Top(t).f \in table THEN "guard" ELSE "original"
            c == [Top(t) EXCEPT !.pc = p]
<1>1. Calling(t) /\ Top(t).pc = "find" /\ Top(t) \in CallType
  BY StackType DEF Find, At, Calling, DispatcherInv
<1>2. p \in CallPCs /\ p \in {"guard", "original"}
  BY DEF CallPCs
<1>3. c \in CallType /\ c.pc = p /\ c.f = Top(t).f /\ c.due = Top(t).due
  BY <1>1, <1>2, WithPC
<1>4. p \notin InsideHandler /\ p # "find" /\ Top(t).pc \notin InsideHandler
  BY <1>1, <1>2 DEF InsideHandler
<1>5. /\ depth \in [Threads -> {0, 1}] /\ lock' = Free
      /\ stack' = Replace(t, c) /\ UNCHANGED <<initVars, depth, calls, proc>>
      /\ proc \in {"alive", "aborted"}
  BY DEF DispatcherInv, StackOK, Find, Goto
<1>6. lock = t
  BY <1>1 DEF DispatcherInv, DispatchInv
<1>7. Len(stack[t]) = 1 => (depth[t] = 1 <=> c.pc \in InsideHandler)
  BY <1>1, <1>3, <1>4, StackType DEF DispatcherInv, DispatchInv
<1>8. c.pc = "original" => ~c.due
  <2>1. Len(stack[t]) \in DOMAIN stack[t] /\ Top(t) = stack[t][Len(stack[t])]
    BY <1>1, StackType DEF DispatcherInv
  <2>2. Top(t).due => Top(t).f \in table
    BY <2>1 DEF DispatcherInv, DueInv
  <2>. QED  BY <1>3, <2>2
<1>9. /\ lock' # Loader /\ lock # Loader /\ lock' # t
      /\ \A u \in Threads \ {t} : lock' # u /\ lock # u
  BY <1>5, <1>6, HarnessAssumption
<1>. QED  BY <1>1, <1>3, <1>4, <1>5, <1>7, <1>8, <1>9, DispatcherMove

(* A handler starts on a thread only if none is running there: the call    *)
(* is then the first of the thread.                                        *)
LEMMA GuardStep ==
  ASSUME DispatcherInv, NEW t \in Threads, Guard(t)
  PROVE  DispatcherInv'
<1>1. Calling(t) /\ Top(t).pc = "guard" /\ Top(t) \in CallType
  BY StackType DEF Guard, At, Calling, DispatcherInv
<1>2. /\ Len(stack[t]) \in {1, 2} /\ Top(t) = stack[t][Len(stack[t])]
      /\ Len(stack[t]) \in DOMAIN stack[t]
  BY <1>1, StackType DEF DispatcherInv
<1>3. Top(t).pc \notin InsideHandler /\ Top(t).pc # "find"
  BY <1>1 DEF InsideHandler
<1>4. depth[t] = 1 <=> Len(stack[t]) = 2
  <2>1. CASE Len(stack[t]) = 1
    BY <1>1, <1>2, <1>3, <2>1 DEF DispatcherInv, DispatchInv
  <2>2. CASE Len(stack[t]) = 2
    BY <1>1, <2>2 DEF DispatcherInv, DispatchInv, InsideHandler
  <2>. QED  BY <1>2, <2>1, <2>2
<1>5. /\ depth \in [Threads -> {0, 1}] /\ lock \in Threads \cup {Loader, Free}
      /\ proc \in {"alive", "aborted"} /\ lock # t
  BY <1>1, <1>3 DEF DispatcherInv, StackOK, DispatchInv
<1>6. UNCHANGED <<initVars, lock, calls, proc>>
  BY DEF Guard
<1>7. CASE depth[t] > 0
  <2>. DEFINE c == [Top(t) EXCEPT !.pc = "original"]
  <2>1. c \in CallType /\ c.pc = "original" /\ c.f = Top(t).f /\ c.due = Top(t).due
    BY <1>1, WithPC DEF CallPCs
  <2>2. Len(stack[t]) = 2 /\ Len(stack[t]) # 1
    BY <1>4, <1>5, <1>7
  <2>3. ~c.due
    BY <1>2, <2>1, <2>2 DEF DispatcherInv, DueInv
  <2>4. stack' = Replace(t, c) /\ depth' = depth
    BY <1>7 DEF Guard, Goto
  <2>5. c.pc \notin InsideHandler /\ c.pc # "find"
    BY <2>1 DEF InsideHandler
  <2>. QED  BY <1>1, <1>5, <1>6, <2>1, <2>2, <2>3, <2>4, <2>5, DispatcherMove
<1>8. CASE ~(depth[t] > 0)
  <2>. DEFINE c == [Top(t) EXCEPT !.pc = "handler", !.ran = TRUE]
  <2>1. c \in CallType /\ c.pc = "handler" /\ c.f = Top(t).f /\ c.due = Top(t).due /\ c.ran
    BY <1>1, WithPCAndRan DEF CallPCs
  <2>2. Len(stack[t]) = 1 /\ Len(stack[t]) # 2
    BY <1>2, <1>4, <1>8
  <2>3. stack' = Replace(t, c) /\ depth' = [depth EXCEPT ![t] = 1]
    BY <1>8 DEF Guard
  <2>4. /\ depth' \in [Threads -> {0, 1}] /\ depth'[t] = 1
        /\ \A u \in Threads \ {t} : depth'[u] = depth[u]
    BY <1>5, <2>3
  <2>5. c.pc \in InsideHandler /\ c.pc # "find" /\ c.pc # "original"
    BY <2>1 DEF InsideHandler
  <2>. QED  BY <1>1, <1>5, <1>6, <2>1, <2>2, <2>3, <2>4, <2>5, DispatcherMove
<1>. QED  BY <1>7, <1>8

(* The guard opens again when the handler has left.                        *)
LEMMA LeaveStep ==
  ASSUME DispatcherInv, NEW t \in Threads, Leave(t)
  PROVE  DispatcherInv'
<1>. DEFINE c == [Top(t) EXCEPT !.pc = "original"]
<1>1. Calling(t) /\ Top(t).pc = "leave" /\ Top(t) \in CallType
  BY StackType DEF Leave, At, Calling, DispatcherInv
<1>2. Len(stack[t]) = 1 /\ Top(t) = stack[t][1] /\ 1 \in DOMAIN stack[t]
  BY <1>1, HandlerIsFirst, StackType DEF DispatcherInv, InsideHandler
<1>3. /\ c \in CallType /\ c.pc = "original" /\ c.f = Top(t).f
      /\ c.due = Top(t).due /\ c.ran = Top(t).ran
  BY <1>1, WithPC DEF CallPCs
<1>4. Top(t).ran
  BY <1>1, <1>2 DEF DispatcherInv, DueInv, InsideHandler
<1>5. c.pc \notin InsideHandler /\ c.pc # "find"
  BY <1>3 DEF InsideHandler
<1>6. /\ stack' = Replace(t, c) /\ depth' = [depth EXCEPT ![t] = 0]
      /\ UNCHANGED <<initVars, lock, calls, proc>>
  BY DEF Leave, Goto
<1>7. /\ depth' \in [Threads -> {0, 1}] /\ depth'[t] # 1
      /\ \A u \in Threads \ {t} : depth'[u] = depth[u]
  BY <1>6 DEF DispatcherInv, StackOK
<1>8. lock \in Threads \cup {Loader, Free} /\ proc \in {"alive", "aborted"} /\ lock # t
  BY <1>1 DEF DispatcherInv, StackOK, DispatchInv
<1>9. c.ran /\ Len(stack[t]) # 2
  BY <1>2, <1>3, <1>4
<1>. QED
  BY <1>1, <1>3, <1>5, <1>6, <1>7, <1>8, <1>9, DispatcherMove

(* A new stack for one thread, which leaves the others as they are.        *)
LEMMA NewStack ==
  ASSUME DispatcherInv, NEW t \in Threads, NEW s \in Seq(CallType),
         stack' = [stack EXCEPT ![t] = s], Len(s) <= 2,
         Len(s) = 2 => s[1].pc \in {"store", "clear"} /\ s[2].pc \notin InsideHandler,
         depth[t] = 1 <=> s # <<>> /\ s[1].pc \in InsideHandler,
         lock # t, s = <<>> \/ Last(s).pc # "find",
         \A k \in 1 .. Len(s) : s[k].due => k = 1 /\ s[k].f \in table,
         \A k \in 1 .. Len(s) : s[k].pc \in InsideHandler => s[k].ran,
         \A k \in 1 .. Len(s) : s[k].pc = "original" /\ s[k].due => s[k].ran,
         calls' \in [Threads -> Nat], \A u \in Threads : calls'[u] <= MaxCalls[u],
         UNCHANGED <<initVars, lock, depth, proc>>
  PROVE  DispatcherInv'
<1>1. stack'[t] = s /\ \A u \in Threads \ {t} : stack'[u] = stack[u]
  BY DEF DispatcherInv, StackOK
<1>2. StackOK'
  BY <1>1 DEF DispatcherInv, StackOK, initVars
<1>3. InstallInv'
  BY DEF InstallInv, DispatcherInv, initVars
<1>4. DispatchInv'
  <2>1. ASSUME NEW u \in Threads, u # t
        PROVE  /\ Len(stack'[u]) = 2 => /\ stack'[u][1].pc \in {"store", "clear"}
                                       /\ stack'[u][2].pc \notin InsideHandler
               /\ depth'[u] = 1 <=> Calling(u)' /\ stack'[u][1].pc \in InsideHandler
               /\ lock' = u <=> Calling(u)' /\ Top(u)'.pc = "find"
    BY <1>1, <2>1 DEF DispatcherInv, DispatchInv, Calling, Top, Last
  <2>2. /\ Len(stack'[t]) = 2 => /\ stack'[t][1].pc \in {"store", "clear"}
                                 /\ stack'[t][2].pc \notin InsideHandler
        /\ depth'[t] = 1 <=> Calling(t)' /\ stack'[t][1].pc \in InsideHandler
        /\ lock' = t <=> Calling(t)' /\ Top(t)'.pc = "find"
    BY <1>1 DEF Calling, Top
  <2>. QED  BY <2>1, <2>2 DEF DispatchInv
<1>5. DueInv'
  <2>1. ASSUME NEW u \in Threads, u # t, NEW k \in DOMAIN stack'[u]
        PROVE  /\ stack'[u][k].due => k = 1 /\ stack'[u][k].f \in table'
               /\ stack'[u][k].pc \in InsideHandler => stack'[u][k].ran
               /\ stack'[u][k].pc = "original" /\ stack'[u][k].due => stack'[u][k].ran
    <3>1. stack'[u] = stack[u] /\ table' = table
      BY <1>1, <2>1 DEF initVars
    <3>. QED  BY <2>1, <3>1 DEF DispatcherInv, DueInv
  <2>2. ASSUME NEW k \in DOMAIN stack'[t]
        PROVE  /\ stack'[t][k].due => k = 1 /\ stack'[t][k].f \in table'
               /\ stack'[t][k].pc \in InsideHandler => stack'[t][k].ran
               /\ stack'[t][k].pc = "original" /\ stack'[t][k].due => stack'[t][k].ran
    <3>1. k \in 1 .. Len(s) /\ stack'[t][k] = s[k] /\ table' = table
      <4>1. DOMAIN s = 1 .. Len(s)
        OBVIOUS
      <4>. QED  BY <1>1, <4>1 DEF initVars
    <3>. QED  BY <3>1
  <2>. QED  BY <2>1, <2>2 DEF DueInv
<1>. QED  BY <1>2, <1>3, <1>4, <1>5 DEF DispatcherInv

(* A function returns; below it is the handler that called it, if any.     *)
LEMMA OriginalStep ==
  ASSUME DispatcherInv, NEW t \in Threads, Original(t)
  PROVE  DispatcherInv'
<1>. DEFINE s == Front(stack[t])
<1>1. Calling(t) /\ Top(t).pc = "original" /\ stack[t] \in Seq(CallType) /\ stack[t] # <<>>
  BY StackType DEF Original, At, Calling, DispatcherInv
<1>2. /\ Len(stack[t]) \in {1, 2} /\ Top(t) = stack[t][Len(stack[t])]
      /\ DOMAIN stack[t] = 1 .. Len(stack[t])
  BY <1>1, StackType DEF DispatcherInv
<1>3. /\ s \in Seq(CallType) /\ Len(s) = Len(stack[t]) - 1
      /\ \A k \in 1 .. Len(stack[t]) - 1 : s[k] = stack[t][k]
  BY <1>1, DropTop
<1>4. Top(t).pc \notin InsideHandler /\ lock # t
  BY <1>1 DEF InsideHandler, DispatcherInv, DispatchInv
<1>5. Len(s) <= 2 /\ Len(s) # 2
  <2>1. Len(stack[t]) \in 0 .. 2 /\ Len(s) = Len(stack[t]) - 1
    BY <1>3, StackType DEF DispatcherInv
  <2>2. \A n \in 0 .. 2 : n - 1 <= 2 /\ n - 1 # 2
    OBVIOUS
  <2>. QED  BY <2>1, <2>2, Zenon
<1>6. /\ depth[t] = 1 <=> s # <<>> /\ s[1].pc \in InsideHandler
      /\ s = <<>> \/ Last(s).pc # "find"
  <2>1. CASE Len(stack[t]) = 1
    <3>1. s = <<>>
      BY <1>3, <2>1, EmptySeq
    <3>. QED  BY <1>1, <1>2, <1>4, <2>1, <3>1 DEF DispatcherInv, DispatchInv
  <2>2. CASE Len(stack[t]) = 2
    <3>1. s # <<>> /\ Len(s) = 1 /\ s[1] = stack[t][1]
      BY <1>3, <2>2, EmptySeq
    <3>2. stack[t][1].pc \in {"store", "clear"}
      BY <2>2 DEF DispatcherInv, DispatchInv
    <3>. QED  BY <1>1, <3>1, <3>2 DEF DispatcherInv, DispatchInv, Last
  <2>. QED  BY <1>2, <2>1, <2>2
<1>7. \A k \in 1 .. Len(s) : k \in DOMAIN stack[t] /\ s[k] = stack[t][k]
  <2>1. Len(stack[t]) \in Nat /\ Len(s) = Len(stack[t]) - 1
    BY <1>1, <1>3
  <2>2. \A k \in 1 .. Len(s) : k \in 1 .. Len(stack[t]) - 1 /\ k \in 1 .. Len(stack[t])
    BY <2>1
  <2>3. \A k \in 1 .. Len(s) : s[k] = stack[t][k]
    BY <1>3, <2>2
  <2>. QED  BY <1>2, <2>2, <2>3
<1>8. /\ \A k \in 1 .. Len(s) : s[k].due => k = 1 /\ s[k].f \in table
      /\ \A k \in 1 .. Len(s) : s[k].pc \in InsideHandler => s[k].ran
      /\ \A k \in 1 .. Len(s) : s[k].pc = "original" /\ s[k].due => s[k].ran
  <2>1. ASSUME NEW k \in 1 .. Len(s)
        PROVE  /\ s[k].due => k = 1 /\ s[k].f \in table
               /\ s[k].pc \in InsideHandler => s[k].ran
               /\ s[k].pc = "original" /\ s[k].due => s[k].ran
    <3>1. /\ stack[t][k].due => k = 1 /\ stack[t][k].f \in table
          /\ stack[t][k].pc \in InsideHandler => stack[t][k].ran
          /\ stack[t][k].pc = "original" /\ stack[t][k].due => stack[t][k].ran
      BY <1>7, <2>1 DEF DispatcherInv, DueInv
    <3>. QED  BY <1>7, <2>1, <3>1, Zenon
  <2>. QED  BY <2>1
<1>9. /\ stack' = [stack EXCEPT ![t] = s] /\ UNCHANGED <<initVars, lock, depth, proc>>
      /\ calls' \in [Threads -> Nat] /\ \A u \in Threads : calls'[u] <= MaxCalls[u]
  BY DEF Original, DispatcherInv, StackOK
<1>. QED  BY <1>3, <1>4, <1>5, <1>6, <1>8, <1>9, NewStack

(* A call enters the harness if the function's jump is live, and a         *)
(* function that has an entry has a live jump.                             *)
LEMMA NewCall ==
  ASSUME table \subseteq live, NEW f \in Symbols, NEW due \in BOOLEAN, due => f \in table
  PROVE  LET c == Call(f, Enter(f), due)
         IN  /\ c \in CallType /\ c.f = f /\ c.pc \in {"lock", "original"}
             /\ c.due => f \in table
             /\ c.pc = "original" => ~c.due
<1>. DEFINE c == Call(f, Enter(f), due)
<1>1. Enter(f) \in {"lock", "original"} /\ (Enter(f) = "original" => f \notin live)
  BY DEF Enter
<1>2. c \in CallType
  BY <1>1 DEF Call, CallType, CallPCs
<1>3. c.f = f /\ c.pc = Enter(f)
  BY DEF Call
<1>4. c.due = due
  BY DEF Call
<1>5. c.due => f \in table
  BY <1>4
<1>6. c.pc = "original" => ~c.due
  BY <1>1, <1>3, <1>5
<1>. QED  BY <1>1, <1>2, <1>3, <1>5, <1>6

LEMMA CallStep ==
  ASSUME DispatcherInv, NEW t \in Threads, NEW f \in Symbols, CallFunction(t, f)
  PROVE  DispatcherInv'
<1>. DEFINE c == Call(f, Enter(f), f \in table)
            s == <<c>>
<1>1. /\ c \in CallType /\ c.f = f /\ c.pc \in {"lock", "original"}
      /\ c.due => f \in table
      /\ c.pc = "original" => ~c.due
  <2>1. table \subseteq live /\ (f \in table) \in BOOLEAN
    BY DEF DispatcherInv, StackOK
  <2>. QED  BY <2>1, NewCall, Zenon
<1>2. c.pc \notin InsideHandler /\ c.pc # "find"
  BY <1>1 DEF InsideHandler
<1>. HIDE DEF c
<1>3. s \in Seq(CallType) /\ Len(s) = 1 /\ s[1] = c /\ s # <<>> /\ Last(s) = c
  BY <1>1 DEF Last
<1>4. depth[t] # 1 /\ lock # t
  BY DEF CallFunction, DispatcherInv, DispatchInv, Calling
<1>5. calls' \in [Threads -> Nat] /\ \A u \in Threads : calls'[u] <= MaxCalls[u]
  <2>1. calls' = [calls EXCEPT ![t] = calls[t] + 1] /\ calls[t] < MaxCalls[t]
    BY DEF CallFunction
  <2>2. MaxCalls[t] \in Nat
    BY HarnessAssumption
  <2>. QED  BY <2>1, <2>2 DEF DispatcherInv, StackOK
<1>6. stack' = [stack EXCEPT ![t] = s] /\ UNCHANGED <<initVars, lock, depth, proc>>
  BY DEF CallFunction, c
<1>7. /\ Len(s) <= 2 /\ Len(s) # 2
      /\ \A k \in 1 .. Len(s) : k = 1 /\ s[k] = c
  BY <1>3
<1>8. /\ \A k \in 1 .. Len(s) : s[k].due => k = 1 /\ s[k].f \in table
      /\ \A k \in 1 .. Len(s) : s[k].pc \in InsideHandler => s[k].ran
      /\ \A k \in 1 .. Len(s) : s[k].pc = "original" /\ s[k].due => s[k].ran
  BY <1>1, <1>2, <1>7, Zenon
<1>. QED  BY <1>2, <1>3, <1>4, <1>5, <1>6, <1>7, <1>8, NewStack

(* The handler calls open or write.                                        *)
LEMMA NestedStep ==
  ASSUME DispatcherInv, NEW t \in Threads, Calling(t), Top(t).pc \in InsideHandler,
         NEW f \in Symbols, NEW p \in {"store", "clear"}, Nested(t, f, p),
         UNCHANGED <<initVars, lock, depth, calls, proc>>
  PROVE  /\ DispatcherInv'
         /\ \A u \in Threads \ {t} : stack'[u] = stack[u]
         /\ Calling(t)' /\ stack'[t][1] = [stack[t][1] EXCEPT !.pc = p]
<1>. DEFINE b == [Top(t) EXCEPT !.pc = p]
            c == Call(f, Enter(f), FALSE)
            r == Append(Front(stack[t]), b)
            s == r \o <<c>>
<1>1. Len(stack[t]) = 1 /\ Top(t) = stack[t][1] /\ depth[t] = 1 /\ 1 \in DOMAIN stack[t]
  BY HandlerIsFirst, StackType DEF DispatcherInv
<1>2. stack[t] \in Seq(CallType) /\ stack[t] # <<>> /\ Top(t) \in CallType
  BY StackType DEF DispatcherInv, Calling
<1>3. b \in CallType /\ b.pc = p /\ b.f = Top(t).f /\ b.due = Top(t).due /\ b.ran = Top(t).ran
  <2>1. p \in CallPCs
    BY DEF CallPCs
  <2>. QED  BY <1>2, <2>1, WithPC, Zenon
<1>4. c \in CallType /\ c.pc \in {"lock", "original"}
  BY NewCall DEF DispatcherInv, StackOK
<1>5. ~c.due
  BY DEF Call
<1>6. r \in Seq(CallType) /\ Len(r) = 1 /\ r[1] = b
  <2>1. r \in Seq(CallType) /\ Len(r) = Len(stack[t]) /\ r[Len(stack[t])] = b
    BY <1>2, <1>3, ReplaceTop
  <2>. QED  BY <1>1, <2>1
<1>7. s \in Seq(CallType) /\ Len(s) = 2 /\ s[1] = b /\ s[2] = c
  <2>. HIDE DEF b, c, r
  <2>1. r \in Seq(CallType) /\ c \in CallType
    BY <1>4, <1>6
  <2>2. /\ s \in Seq(CallType) /\ Len(s) = Len(r) + 1 /\ s[Len(r) + 1] = c
        /\ \A k \in 1 .. Len(r) : s[k] = r[k]
    BY <2>1, PushCall
  <2>. HIDE DEF s
  <2>. QED  BY <1>6, <2>2
<1>8. stack' = [stack EXCEPT ![t] = s]
  BY DEF Nested, Top
<1>. HIDE DEF s, r, b, c
<1>9. /\ b.pc \in InsideHandler /\ c.pc \notin InsideHandler /\ c.pc # "find"
      /\ b.pc # "original"
  BY <1>3, <1>4 DEF InsideHandler
<1>10. lock # t
  BY DEF DispatcherInv, DispatchInv, InsideHandler
<1>11. /\ stack[t][1].due => stack[t][1].f \in table
       /\ stack[t][1].ran
  BY <1>1 DEF DispatcherInv, DueInv
<1>12. s # <<>> /\ Last(s) = c
  BY <1>7, EmptySeq DEF Last
<1>13. \A k \in 1 .. Len(s) : \/ k = 1 /\ s[k] = b
                              \/ s[k] = c
  BY <1>7
<1>14. /\ \A k \in 1 .. Len(s) : s[k].due => k = 1 /\ s[k].f \in table
       /\ \A k \in 1 .. Len(s) : s[k].pc \in InsideHandler => s[k].ran
       /\ \A k \in 1 .. Len(s) : s[k].pc = "original" /\ s[k].due => s[k].ran
  <2>1. (b.due => b.f \in table) /\ b.ran
    BY <1>1, <1>3, <1>11
  <2>. QED  BY <1>5, <1>9, <1>13, <2>1, Zenon
<1>15. calls' \in [Threads -> Nat] /\ \A u \in Threads : calls'[u] <= MaxCalls[u]
  BY DEF DispatcherInv, StackOK
<1>16. DispatcherInv'
  <2>1. /\ Len(s) <= 2
        /\ Len(s) = 2 => s[1].pc \in {"store", "clear"} /\ s[2].pc \notin InsideHandler
        /\ depth[t] = 1 <=> s # <<>> /\ s[1].pc \in InsideHandler
        /\ lock # t /\ (s = <<>> \/ Last(s).pc # "find")
    BY <1>1, <1>3, <1>7, <1>9, <1>10, <1>12
  <2>. QED  BY <1>7, <1>8, <1>14, <1>15, <2>1, NewStack, Zenon
<1>17. stack'[t] = s /\ \A u \in Threads \ {t} : stack'[u] = stack[u]
  BY <1>8 DEF DispatcherInv, StackOK
<1>. QED  BY <1>1, <1>7, <1>12, <1>16, <1>17 DEF Calling, b

(* mtdis_init.                                                             *)
LEMMA InstallStep ==
  ASSUME DispatcherInv, Install
  PROVE  DispatcherInv'
<1>1. /\ i \in 1 .. Len(Registered) + 1 /\ Len(Registered) \in Nat
      /\ \A k \in 1 .. Len(Registered) : Registered[k] \in Symbols
  BY HarnessAssumption, ElementOfSeq, LenProperties DEF DispatcherInv, StackOK
<1>2. i <= Len(Registered) /\ i \in 1 .. Len(Registered) /\ i + 1 \in 1 .. Len(Registered) + 1
  BY <1>1 DEF Install, Resolve, PatchJump, LockToInsert, Insert, Installing
<1>3. Registered[i] \in Symbols
  BY <1>1, <1>2
<1>4. UNCHANGED <<stack, depth, calls, proc>>
  BY DEF Install, Resolve, PatchJump, LockToInsert, Insert, callVars
<1>5. /\ i' \in 1 .. Len(Registered) + 1 /\ ipc' \in {"resolve", "jump", "lock", "insert"}
      /\ live' \subseteq Symbols /\ live \subseteq live'
      /\ table' \subseteq live' /\ table \subseteq table'
      /\ lock' \in {lock, Loader, Free} /\ (lock' = lock \/ lock \in {Loader, Free})
      /\ InstallInv'
  <2>. USE <1>2, <1>3 DEF DispatcherInv, StackOK, InstallInv, Installing, NextHook
  <2>1. CASE Resolve
    BY <2>1 DEF Resolve
  <2>2. CASE PatchJump
    BY <2>2 DEF PatchJump
  <2>3. CASE LockToInsert
    BY <2>3 DEF LockToInsert
  <2>4. CASE Insert
    <3>1. lock' = Free /\ Free # Loader /\ lock = Loader
      BY <2>4, HarnessAssumption DEF Insert
    <3>. QED  BY <2>4, <3>1 DEF Insert
  <2>. QED  BY <2>1, <2>2, <2>3, <2>4 DEF Install
<1>6. StackOK'
  BY <1>4, <1>5 DEF DispatcherInv, StackOK
<1>7. DispatchInv'
  <2>1. \A t \in Threads : lock' = t <=> lock = t
    BY <1>5, HarnessAssumption
  <2>. QED  BY <1>4, <2>1 DEF DispatcherInv, DispatchInv, Calling, Top
<1>8. DueInv'
  <2>. SUFFICES ASSUME NEW t \in Threads, NEW k \in DOMAIN stack'[t]
                PROVE  /\ stack'[t][k].due => k = 1 /\ stack'[t][k].f \in table'
                       /\ stack'[t][k].pc \in InsideHandler => stack'[t][k].ran
                       /\ stack'[t][k].pc = "original" /\ stack'[t][k].due => stack'[t][k].ran
    BY DEF DueInv
  <2>1. stack' = stack /\ table \subseteq table'
    BY <1>4, <1>5
  <2>2. /\ stack[t][k].due => k = 1 /\ stack[t][k].f \in table
        /\ stack[t][k].pc \in InsideHandler => stack[t][k].ran
        /\ stack[t][k].pc = "original" /\ stack[t][k].due => stack[t][k].ran
    BY <2>1 DEF DispatcherInv, DueInv
  <2>. QED  BY <2>1, <2>2, Zenon
<1>. QED  BY <1>5, <1>6, <1>7, <1>8 DEF DispatcherInv

(* A handler goes on on its own thread, in the same call.                  *)
LEMMA HandlerGoes ==
  ASSUME DispatcherInv, NEW t \in Threads, Calling(t), Top(t).pc \in InsideHandler,
         NEW p \in InsideHandler, Goto(t, p),
         UNCHANGED <<initVars, lock, depth, calls, proc>>
  PROVE  /\ DispatcherInv'
         /\ \A u \in Threads \ {t} : stack'[u] = stack[u]
         /\ Calling(t)' /\ stack'[t][1] = [stack[t][1] EXCEPT !.pc = p]
<1>. DEFINE c == [Top(t) EXCEPT !.pc = p]
<1>1. Len(stack[t]) = 1 /\ Top(t) = stack[t][1] /\ Top(t) \in CallType
  BY HandlerIsFirst, StackType DEF DispatcherInv
<1>2. p \in CallPCs
  BY DEF InsideHandler, CallPCs
<1>3. /\ c \in CallType /\ c.pc = p /\ c.f = Top(t).f
      /\ c.due = Top(t).due /\ c.ran = Top(t).ran
  BY <1>1, <1>2, WithPC, Zenon
<1>4. stack' = Replace(t, c)
  BY DEF Goto
<1>5. DispatcherInv'
  <2>. HIDE DEF c
  <2>. QED  BY <1>3, <1>4, HandlerMove
<1>6. /\ \A u \in Threads \ {t} : stack'[u] = stack[u]
      /\ Len(stack'[t]) = Len(stack[t]) /\ stack'[t][Len(stack[t])] = c
  <2>. HIDE DEF c
  <2>. QED  BY <1>3, <1>4, TopMove DEF DispatcherInv
<1>7. Len(stack'[t]) = 1 /\ stack'[t][1] = c
  BY <1>1, <1>6
<1>. QED  BY <1>1, <1>5, <1>6, <1>7 DEF Calling

(* What a step of a thread's handler does to the place it is at and the    *)
(* line it is about: both are its own, and the line stays.                 *)
Moves(t, q) ==
  /\ Place(t)' = q /\ Line(t)' = Line(t)
  /\ \A u \in Threads \ {t} : Place(u)' = Place(u) /\ Line(u)' = Line(u)

LEMMA Moving ==
  ASSUME DispatcherInv, NEW t \in Threads, Calling(t), Top(t).pc \in InsideHandler,
         NEW q, \A u \in Threads \ {t} : stack'[u] = stack[u],
         Calling(t)', stack'[t][1] = [stack[t][1] EXCEPT !.pc = q]
  PROVE  Moves(t, q) /\ Place(t) = Top(t).pc
<1>1. stack[t][1] \in CallType /\ Place(t) = Top(t).pc /\ stack[t][1] = Top(t)
  BY HandlerIsFirst, StackType DEF DispatcherInv
<1>2. Place(t)' = q /\ Line(t)' = Line(t)
  BY <1>1 DEF Place, Line, CallType
<1>3. \A u \in Threads \ {t} : Place(u)' = Place(u) /\ Line(u)' = Line(u)
  BY DEF Place, Line, Calling
<1>. QED  BY <1>1, <1>2, <1>3 DEF Moves

(* The steps that keep a thread in its handler.                            *)
LEMMA HandlerStep ==
  ASSUME DispatcherInv, NEW t \in Threads, NEW p \in InsideHandler, At(t, p),
         NEW q \in InsideHandler, InHandler(t),
         \/ Goto(t, q)
         \/ q \in {"store", "clear"} /\ \E f \in {"open", "write"} : Nested(t, f, q)
  PROVE  DispatcherInv' /\ Moves(t, q) /\ Place(t) = p
<1>1. Calling(t) /\ Top(t).pc = p
  BY DEF At, Calling
<1>2. UNCHANGED <<initVars, lock, depth, calls, proc>>
  BY DEF InHandler
<1>3. /\ DispatcherInv'
      /\ \A u \in Threads \ {t} : stack'[u] = stack[u]
      /\ Calling(t)' /\ stack'[t][1] = [stack[t][1] EXCEPT !.pc = q]
  <2>1. CASE Goto(t, q)
    BY <1>1, <1>2, <2>1, HandlerGoes
  <2>2. CASE q \in {"store", "clear"} /\ \E f \in {"open", "write"} : Nested(t, f, q)
    <3>1. PICK f \in {"open", "write"} : Nested(t, f, q)
      BY <2>2
    <3>2. f \in Symbols /\ Top(t).pc \in InsideHandler /\ q \in {"store", "clear"}
      BY <1>1, <2>2, HarnessAssumption
    <3>3. /\ DispatcherInv'
          /\ Calling(t)' /\ stack'[t][1] = [stack[t][1] EXCEPT !.pc = q]
      BY <1>1, <1>2, <3>1, <3>2, NestedStep, ZenonT(60)
    <3>4. \A u \in Threads \ {t} : stack'[u] = stack[u]
      BY <3>1 DEF Nested, DispatcherInv, StackOK
    <3>. QED  BY <3>3, <3>4
  <2>. QED  BY <2>1, <2>2
<1>4. Moves(t, q) /\ Place(t) = Top(t).pc
  BY <1>1, <1>3, Moving, Zenon
<1>. QED  BY <1>1, <1>3, <1>4

-----------------------------------------------------------------------------
(* The log.                                                                *)

LogPCs == {"cap", "swap", "check", "store", "write", "clear"}

(* A step that touches none of the log's state, and moves no handler into, *)
(* out of or inside log_line.                                              *)
LEMMA LogKept ==
  ASSUME LogInv, UNCHANGED probeVars,
         \A u \in Threads : \/ Place(u)' = Place(u) /\ Line(u)' = Line(u)
                            \/ Place(u) \notin LogPCs /\ Place(u)' \notin LogPCs
  PROVE  LogInv'
<1>1. UNCHANGED <<counts, events, creating, file, opened, log>>
  BY DEF probeVars
<1>2. LogOK'
  BY <1>1 DEF LogOK, LogInv
<1>3. \A u \in Threads : Place(u) \in LogPCs \/ Place(u)' \in LogPCs =>
        Place(u)' = Place(u) /\ Line(u)' = Line(u)
  OBVIOUS
<1>4. CreatingInv'
  BY <1>1, <1>3 DEF CreatingInv, LogInv, LogPCs
<1>5. EventsInv'
  <2>1. Writers' = Writers
    BY <1>3 DEF Writers, LogPCs
  <2>. QED  BY <1>1, <2>1 DEF EventsInv, LogInv
<1>6. CountInv'
  BY <1>1, <1>3 DEF CountInv, LogInv, Pending, Counted, LogPCs
<1>. QED  BY <1>2, <1>4, <1>5, <1>6 DEF LogInv

(* The dispatcher's steps on a thread, and a handler that panics or        *)
(* returns without a word.                                                 *)
LEMMA QuietMove ==
  ASSUME DispatcherInv, LogInv, NEW t \in Threads, Calling(t), NEW c \in CallType,
         stack' = Replace(t, c), Top(t).pc \notin LogPCs, c.pc \notin LogPCs,
         UNCHANGED probeVars
  PROVE  LogInv'
<1>1. /\ \A u \in Threads \ {t} : stack'[u] = stack[u]
      /\ Len(stack'[t]) = Len(stack[t]) /\ stack'[t][Len(stack[t])] = c
      /\ \A k \in 1 .. Len(stack[t]) - 1 : stack'[t][k] = stack[t][k]
      /\ stack'[t] \in Seq(CallType)
  BY TopMove DEF DispatcherInv
<1>2. \A u \in Threads \ {t} : Place(u)' = Place(u) /\ Line(u)' = Line(u)
  BY <1>1 DEF Place, Line, Calling
<1>3. /\ Len(stack[t]) \in 0 .. 2 /\ Len(stack[t]) # 0
      /\ Top(t) = stack[t][Len(stack[t])]
  BY StackType DEF DispatcherInv
<1>4. Calling(t)'
  BY <1>1, <1>3, EmptySeq DEF Calling
<1>5. CASE Len(stack[t]) = 1
  BY <1>1, <1>2, <1>3, <1>4, <1>5, LogKept DEF Place
<1>6. CASE Len(stack[t]) = 2
  <2>1. stack'[t][1] = stack[t][1]
    BY <1>1, <1>6
  <2>2. Place(t)' = Place(t) /\ Line(t)' = Line(t)
    BY <1>4, <2>1 DEF Place, Line
  <2>. QED  BY <1>2, <2>2, LogKept
<1>. QED  BY <1>3, <1>5, <1>6

LEMMA DispatcherKeepsLog ==
  ASSUME DispatcherInv, LogInv, NEW t \in Threads,
         LockTable(t) \/ Find(t) \/ Guard(t) \/ Leave(t)
  PROVE  LogInv'
<1>1. Calling(t) /\ Top(t) \in CallType /\ Top(t).pc \in {"lock", "find", "guard", "leave"}
  BY StackType DEF LockTable, Find, Guard, Leave, At, Calling, DispatcherInv
<1>2. Top(t).pc \notin LogPCs /\ UNCHANGED probeVars
  BY <1>1 DEF LogPCs, LockTable, Find, Guard, Leave
<1>3. \/ \E p \in {"find", "guard", "original"} : Goto(t, p)
      \/ stack' = Replace(t, [Top(t) EXCEPT !.pc = "handler", !.ran = TRUE])
  BY DEF LockTable, Find, Guard, Leave
<1>4. \E c \in CallType : stack' = Replace(t, c) /\ c.pc \notin LogPCs
  <2>1. ASSUME NEW p \in {"find", "guard", "original"}, Goto(t, p)
        PROVE  \E c \in CallType : stack' = Replace(t, c) /\ c.pc \notin LogPCs
    <3>1. p \in CallPCs /\ p \notin LogPCs
      BY DEF CallPCs, LogPCs
    <3>2. [Top(t) EXCEPT !.pc = p] \in CallType /\ [Top(t) EXCEPT !.pc = p].pc = p
      BY <1>1, <3>1, WithPC, Zenon
    <3>. QED  BY <2>1, <3>1, <3>2 DEF Goto
  <2>2. ASSUME stack' = Replace(t, [Top(t) EXCEPT !.pc = "handler", !.ran = TRUE])
        PROVE  \E c \in CallType : stack' = Replace(t, c) /\ c.pc \notin LogPCs
    <3>1. "handler" \in CallPCs /\ "handler" \notin LogPCs
      BY DEF CallPCs, LogPCs
    <3>2. /\ [Top(t) EXCEPT !.pc = "handler", !.ran = TRUE] \in CallType
          /\ [Top(t) EXCEPT !.pc = "handler", !.ran = TRUE].pc = "handler"
      BY <1>1, <3>1, WithPCAndRan, Zenon
    <3>. QED  BY <2>2, <3>1, <3>2
  <2>. QED  BY <1>3, <2>1, <2>2
<1>. QED  BY <1>1, <1>2, <1>4, QuietMove

(* A function returns to the program, or to the handler that called it.    *)
LEMMA OriginalKeepsLog ==
  ASSUME DispatcherInv, LogInv, NEW t \in Threads, Original(t)
  PROVE  LogInv'
<1>1. /\ Calling(t) /\ Top(t).pc = "original" /\ stack[t] \in Seq(CallType)
      /\ stack[t] # <<>> /\ Len(stack[t]) \in 0 .. 2 /\ Len(stack[t]) # 0
      /\ Top(t) = stack[t][Len(stack[t])]
  BY StackType DEF Original, At, Calling, DispatcherInv
<1>2. stack'[t] = Front(stack[t]) /\ \A u \in Threads \ {t} : stack'[u] = stack[u]
  BY DEF Original, DispatcherInv, StackOK
<1>3. /\ stack'[t] \in Seq(CallType) /\ Len(stack'[t]) = Len(stack[t]) - 1
      /\ \A k \in 1 .. Len(stack[t]) - 1 : stack'[t][k] = stack[t][k]
  BY <1>1, <1>2, DropTop
<1>4. \A u \in Threads \ {t} : Place(u)' = Place(u) /\ Line(u)' = Line(u)
  BY <1>2 DEF Place, Line, Calling
<1>5. UNCHANGED probeVars
  BY DEF Original
<1>6. CASE Len(stack[t]) = 1
  <2>1. Place(t) = "original" /\ Place(t)' = "none"
    BY <1>1, <1>3, <1>6, EmptySeq DEF Place, Calling
  <2>. QED  BY <1>4, <1>5, <2>1, LogKept DEF LogPCs
<1>7. CASE Len(stack[t]) = 2
  <2>1. Calling(t)' /\ stack'[t][1] = stack[t][1]
    BY <1>3, <1>7, EmptySeq DEF Calling
  <2>2. Place(t)' = Place(t) /\ Line(t)' = Line(t)
    BY <1>1, <2>1 DEF Place, Line
  <2>. QED  BY <1>4, <1>5, <2>2, LogKept
<1>. QED  BY <1>1, <1>6, <1>7

LEMMA CallKeepsLog ==
  ASSUME DispatcherInv, LogInv, NEW t \in Threads, NEW f \in Symbols, CallFunction(t, f)
  PROVE  LogInv'
<1>1. stack' = [stack EXCEPT ![t] = <<Call(f, Enter(f), f \in table)>>]
      /\ stack[t] = <<>> /\ UNCHANGED probeVars
  BY DEF CallFunction
<1>2. \A u \in Threads \ {t} : stack'[u] = stack[u]
  BY <1>1 DEF DispatcherInv, StackOK
<1>3. Place(t) = "none" /\ Place(t)' \in {"lock", "original"}
  <2>1. stack'[t] = <<Call(f, Enter(f), f \in table)>>
    BY <1>1 DEF DispatcherInv, StackOK
  <2>2. stack'[t][1].pc = Enter(f) /\ Calling(t)'
    BY <2>1 DEF Calling, Call
  <2>. QED  BY <1>1, <2>2 DEF Place, Calling, Enter
<1>4. \A u \in Threads \ {t} : Place(u)' = Place(u) /\ Line(u)' = Line(u)
  BY <1>2 DEF Place, Line, Calling
<1>5. Place(t) \notin LogPCs /\ Place(t)' \notin LogPCs
  BY <1>3 DEF LogPCs
<1>. QED  BY <1>1, <1>4, <1>5, LogKept

LEMMA InstallKeepsLog ==
  ASSUME LogInv, Install
  PROVE  LogInv'
<1>1. stack' = stack /\ UNCHANGED probeVars
  BY DEF Install, Resolve, PatchJump, LockToInsert, Insert, callVars
<1>. QED  BY <1>1, LogKept DEF Place, Line, Calling

(* A handler that panics, or finds no string to read.                      *)
LEMMA PanicStep ==
  ASSUME DispatcherInv, LogInv, NEW t \in Threads, Panic(t)
  PROVE  DispatcherInv' /\ LogInv'
<1>1. UNCHANGED <<initVars, lock, depth, calls>> /\ UNCHANGED probeVars
  BY DEF Panic
<1>2. CASE Legacy
  <2>1. At(t, "handler") /\ Goto(t, "leave") /\ InHandler(t)
    BY <1>1, <1>2 DEF Panic, InHandler
  <2>2. "handler" \in InsideHandler /\ "leave" \in InsideHandler
    BY DEF InsideHandler
  <2>3. DispatcherInv' /\ Moves(t, "leave") /\ Place(t) = "handler"
    BY <2>1, <2>2, HandlerStep
  <2>. QED  BY <1>1, <2>3, LogKept DEF Moves, LogPCs
<1>3. CASE ~Legacy
  <2>1. stack' = stack /\ proc' = "aborted"
    BY <1>3 DEF Panic
  <2>2. StackOK' /\ InstallInv' /\ DispatchInv' /\ DueInv'
    <3>1. StackOK'
      BY <1>1, <2>1 DEF DispatcherInv, StackOK, initVars
    <3>2. InstallInv' /\ DispatchInv' /\ DueInv'
      BY <1>1, <2>1 DEF DispatcherInv, InstallInv, DispatchInv, DueInv, initVars,
                        Calling, Top
    <3>. QED  BY <3>1, <3>2
  <2>3. LogInv'
    BY <1>1, <2>1, LogKept DEF Place, Line, Calling
  <2>. QED  BY <2>2, <2>3 DEF DispatcherInv
<1>. QED  BY <1>2, <1>3

LEMMA UnreadableStep ==
  ASSUME DispatcherInv, LogInv, NEW t \in Threads, Unreadable(t)
  PROVE  DispatcherInv' /\ LogInv'
<1>1. At(t, "handler") /\ Goto(t, "leave") /\ InHandler(t) /\ UNCHANGED probeVars
  BY DEF Unreadable, HandledBy
<1>2. "handler" \in InsideHandler /\ "leave" \in InsideHandler
  BY DEF InsideHandler
<1>3. DispatcherInv' /\ Moves(t, "leave") /\ Place(t) = "handler"
  BY <1>1, <1>2, HandlerStep
<1>. QED  BY <1>1, <1>3, LogKept DEF Moves, LogPCs

LEMMA LineType ==
  ASSUME StackOK, NEW t \in Threads, Calling(t)
  PROVE  Line(t) \in [kind : {"open", "stat", "log"}, n : Nat]
<1>1. stack[t][1] \in CallType
  BY StackType
<1>2. stack[t][1].f \in Symbols /\ stack[t][1].n \in Nat
  BY <1>1 DEF CallType
<1>3. Handler[stack[t][1].f] \in {"open", "stat", "log"}
  BY <1>2, HarnessAssumption
<1>. QED  BY <1>2, <1>3 DEF Line

(* Threads that leave the line, or go on with it, do not disturb what the  *)
(* lines say.                                                              *)
LEMMA CountKept ==
  ASSUME CountInv, UNCHANGED <<counts, log>>,
         \A u \in Threads : Pending(u)' => Pending(u) /\ Line(u)' = Line(u)
  PROVE  CountInv'
  BY DEF CountInv, Counted

LEMMA EventsKept ==
  ASSUME EventsInv, LogOK, log' = log, events' \in Nat, events <= events',
         \A u \in Threads : u \in Writers' => u \in Writers
  PROVE  EventsInv'
<1>1. Writers' \subseteq Writers /\ IsFiniteSet(Writers)
  BY DEF Writers, EventsInv
<1>2. IsFiniteSet(Writers') /\ Cardinality(Writers') <= Cardinality(Writers)
  BY <1>1, FS_Subset
<1>3. /\ Cardinality(Writers) \in Nat /\ Cardinality(Writers') \in Nat
      /\ Len(log) \in Nat /\ events \in Nat /\ EventCap \in Nat
  BY <1>1, <1>2, FS_CardinalityType, HarnessAssumption DEF LogOK
<1>. QED  BY <1>2, <1>3 DEF EventsInv

(* Who is a writer, and who has a line, follows from the places.           *)
LEMMA MovesWriters ==
  ASSUME NEW t \in Threads, NEW q, Moves(t, q)
  PROVE  /\ \A u \in Threads \ {t} : u \in Writers' <=> u \in Writers
         /\ \A u \in Threads \ {t} : Pending(u)' <=> Pending(u)
         /\ \A u \in Threads \ {t} : Line(u)' = Line(u)
         /\ t \in Writers' <=> q \in {"swap", "check", "store", "write"}
         /\ Pending(t)' <=> q \in {"cap", "swap", "check", "store", "write"}
         /\ Line(t)' = Line(t)
  BY DEF Moves, Writers, Pending

(* A thread that stays in the section CREATING guards, or is outside it    *)
(* after its step.                                                         *)
LEMMA CreatingMove ==
  ASSUME CreatingInv, NEW t \in Threads, NEW q, Moves(t, q),
         UNCHANGED <<creating, file, opened>>,
         \/ q \notin {"check", "store", "write", "clear"}
         \/ Place(t) \in {"check", "store", "write", "clear"} /\ (q = "store" => ~file)
  PROVE  CreatingInv'
<1>1. \A u \in Threads : Place(u)' \in {"check", "store", "write", "clear"} =>
        Place(u) \in {"check", "store", "write", "clear"}
  BY DEF Moves
<1>2. \A u \in Threads : Place(u)' = "store" => ~file
  BY DEF Moves, CreatingInv
<1>. QED  BY <1>1, <1>2 DEF CreatingInv

(* log_line, step by step.                                                 *)
LEMMA NoteStep ==
  ASSUME DispatcherInv, LogInv, NEW t \in Threads, Note(t)
  PROVE  DispatcherInv' /\ LogInv'
<1>1. /\ At(t, "handler") /\ Handler[Top(t).f] = "log" /\ Goto(t, "cap")
      /\ InHandler(t) /\ UNCHANGED <<counts, events, creating, file, opened, log>>
  BY DEF Note, HandledBy, probeVars
<1>2. "handler" \in InsideHandler /\ "cap" \in InsideHandler
  BY DEF InsideHandler
<1>3. DispatcherInv' /\ Moves(t, "cap") /\ Place(t) = "handler"
  BY <1>1, <1>2, HandlerStep
<1>4. LogOK'
  BY <1>1 DEF LogInv, LogOK
<1>5. CreatingInv'
  BY <1>1, <1>3, CreatingMove DEF LogInv
<1>6. EventsInv'
  <2>1. events \in Nat /\ t \notin Writers' /\ events <= events
    BY <1>3, MovesWriters DEF LogInv, LogOK
  <2>. QED  BY <1>1, <1>3, <2>1, MovesWriters, EventsKept DEF LogInv
<1>7. ~Counted(Line(t)')
  <2>1. Calling(t) /\ Top(t) = stack[t][1]
    BY <1>1, <1>2, HandlerIsFirst DEF At, Calling, DispatcherInv
  <2>2. Line(t).kind = "log"
    BY <1>1, <2>1 DEF Line
  <2>. QED  BY <1>3, <2>2 DEF Moves, Counted
<1>8. CountInv'
  <2>1. \A u \in Threads : Pending(u)' /\ Counted(Line(u)') =>
          Pending(u) /\ Counted(Line(u)) /\ Line(u)' = Line(u) /\ u # t
    BY <1>3, <1>7, MovesWriters
  <2>2. UNCHANGED <<counts, log>> /\ CountInv
    BY <1>1 DEF LogInv
  <2>3. \A u, v \in Threads : Pending(u)' /\ Counted(Line(u)') /\ Pending(v)' /\ Line(v)' = Line(u)'
          => v = u
    BY <2>1, <2>2 DEF CountInv
  <2>. QED  BY <2>1, <2>2, <2>3 DEF CountInv, Counted
<1>. QED  BY <1>3, <1>4, <1>5, <1>6, <1>8 DEF LogInv

(* The count a handler takes is new: no line says it yet.                  *)
LEMMA CountStep ==
  ASSUME DispatcherInv, LogInv, NEW t \in Threads, Count(t)
  PROVE  DispatcherInv' /\ LogInv'
<1>. DEFINE kind == Handler[Top(t).f]
            n == counts[kind] + 1
            q == IF Worth(kind, n) THEN "cap" ELSE "leave"
            c == [Top(t) EXCEPT !.n = n, !.pc = q]
<1>1. /\ Calling(t) /\ Top(t).pc = "handler" /\ kind \in {"open", "stat"}
      /\ counts' = [counts EXCEPT ![kind] = n] /\ stack' = Replace(t, c)
      /\ UNCHANGED <<initVars, lock, depth, calls, proc>>
      /\ UNCHANGED <<events, creating, file, opened, log>>
  BY DEF Count, HandledBy, At, Calling, InHandler
<1>2. /\ Top(t).pc \in InsideHandler /\ q \in {"cap", "leave"}
      /\ q \in CallPCs /\ q \in InsideHandler
  BY <1>1 DEF InsideHandler, CallPCs
<1>3. /\ Len(stack[t]) = 1 /\ Top(t) = stack[t][1] /\ Place(t) = "handler"
      /\ Top(t) \in CallType
  BY <1>1, <1>2, HandlerIsFirst, StackType DEF DispatcherInv
<1>4. counts[kind] \in Nat /\ n \in Nat /\ counts' \in [{"open", "stat"} -> Nat]
  BY <1>1 DEF LogInv, LogOK
<1>5. /\ c \in CallType /\ c.pc = q /\ c.f = Top(t).f /\ c.n = n
      /\ c.due = Top(t).due /\ c.ran = Top(t).ran
  <2>. HIDE DEF q, n
  <2>1. q \in CallPCs /\ n \in Nat /\ Top(t) \in CallType
    BY <1>2, <1>3, <1>4
  <2>. QED  BY <2>1, WithPCAndN
<1>6. DispatcherInv'
  <2>. HIDE DEF c, q, n, kind
  <2>. QED  BY <1>1, <1>2, <1>5, HandlerMove
<1>7. /\ \A u \in Threads \ {t} : stack'[u] = stack[u]
      /\ Calling(t)' /\ stack'[t][1] = c
  <2>. HIDE DEF c, q, n, kind
  <2>1. /\ \A u \in Threads \ {t} : stack'[u] = stack[u]
        /\ Len(stack'[t]) = 1 /\ stack'[t][1] = c
    BY <1>1, <1>3, <1>5, TopMove DEF DispatcherInv
  <2>. QED  BY <2>1 DEF Calling
<1>8. /\ Place(t)' = q /\ Line(t)' = [kind |-> kind, n |-> n]
      /\ \A u \in Threads \ {t} : Place(u)' = Place(u) /\ Line(u)' = Line(u)
  BY <1>5, <1>7 DEF Place, Line, Calling
<1>. HIDE DEF c, q, n
<1>9. \A u \in Threads : Place(u)' # Place(u) => Place(u)' \in {"cap", "leave"}
  BY <1>2, <1>8
<1>10. LogOK'
  BY <1>1, <1>4 DEF LogInv, LogOK
<1>11. CreatingInv'
  <2>1. \A u \in Threads : Place(u)' \in {"check", "store", "write", "clear"} =>
          Place(u)' = Place(u)
    BY <1>9
  <2>. QED  BY <1>1, <2>1 DEF LogInv, CreatingInv
<1>12. EventsInv'
  <2>1. \A u \in Threads : u \in Writers' => u \in Writers
    BY <1>9 DEF Writers
  <2>. QED  BY <1>1, <2>1, EventsKept DEF LogInv, LogOK
<1>13. \A k \in {"open", "stat"} : counts[k] <= counts'[k] /\ counts[k] \in Nat
  BY <1>1, <1>4 DEF LogInv, LogOK, n
<1>14. CountInv'
  <2>1. ASSUME NEW u \in Threads, u # t, Pending(u)', Counted(Line(u)')
        PROVE  /\ Line(u)' = Line(u) /\ Pending(u) /\ Line(u).kind \in {"open", "stat"}
               /\ Line(u).n \in Nat /\ Line(u).n <= counts[Line(u).kind]
               /\ Line(u) # Line(t)'
    <3>1. Line(u)' = Line(u) /\ Pending(u) /\ Calling(u)
      BY <1>8, <2>1 DEF Pending, Place
    <3>2. Line(u) \in [kind : {"open", "stat", "log"}, n : Nat]
      BY <3>1, LineType DEF DispatcherInv
    <3>3. Line(u).kind \in {"open", "stat"} /\ Line(u).n \in Nat
      BY <2>1, <3>1, <3>2 DEF Counted
    <3>4. Line(u).n <= counts[Line(u).kind]
      BY <2>1, <3>1 DEF LogInv, CountInv
    <3>5. Line(u) # Line(t)'
      BY <1>4, <1>8, <3>3, <3>4 DEF n
    <3>. QED  BY <3>1, <3>3, <3>4, <3>5
  <2>2. ASSUME NEW k \in DOMAIN log, Counted(log[k])
        PROVE  /\ log[k].kind \in {"open", "stat"} /\ log[k].n \in Nat
               /\ log[k].n <= counts[log[k].kind] /\ log[k] # Line(t)'
    <3>1. log[k] \in [kind : {"open", "stat", "log"}, n : Nat]
      <4>1. log \in Seq([kind : {"open", "stat", "log"}, n : Nat])
        BY DEF LogInv, LogOK
      <4>2. k \in 1 .. Len(log)
        BY <4>1
      <4>. QED  BY <4>1, <4>2, ElementOfSeq
    <3>2. log[k].kind \in {"open", "stat"} /\ log[k].n \in Nat
      BY <2>2, <3>1 DEF Counted
    <3>3. log[k].n <= counts[log[k].kind]
      BY <2>2 DEF LogInv, CountInv
    <3>4. log[k] # Line(t)'
      BY <1>4, <1>8, <3>2, <3>3 DEF n
    <3>. QED  BY <3>2, <3>3, <3>4
  <2>3. /\ Line(t)'.kind \in {"open", "stat"} /\ Counted(Line(t)')
        /\ Line(t)'.n <= counts'[Line(t)'.kind]
    BY <1>1, <1>4, <1>8 DEF Counted, n, LogInv, LogOK
  <2>4. ASSUME NEW u \in Threads, Pending(u)', Counted(Line(u)')
        PROVE  /\ Line(u)'.n <= counts'[Line(u)'.kind]
               /\ \A v \in Threads : Pending(v)' /\ Line(v)' = Line(u)' => v = u
               /\ \A k \in DOMAIN log' : log'[k] # Line(u)'
    <3>1. CASE u = t
      <4>1. \A v \in Threads : Pending(v)' /\ Line(v)' = Line(u)' => v = u
        BY <2>1, <2>3, <3>1
      <4>2. \A k \in DOMAIN log' : log'[k] # Line(u)'
        BY <1>1, <2>2, <2>3, <3>1
      <4>. QED  BY <2>3, <3>1, <4>1, <4>2
    <3>2. CASE u # t
      <4>1. /\ Line(u)' = Line(u) /\ Pending(u) /\ Counted(Line(u))
            /\ Line(u).kind \in {"open", "stat"} /\ Line(u).n \in Nat
            /\ Line(u).n <= counts[Line(u).kind] /\ Line(u) # Line(t)'
        BY <2>1, <2>4, <3>2
      <4>2. Line(u)'.n <= counts'[Line(u)'.kind]
        <5>1. /\ counts[Line(u).kind] <= counts'[Line(u).kind]
              /\ counts[Line(u).kind] \in Nat /\ counts'[Line(u).kind] \in Nat
          BY <1>4, <1>13, <4>1
        <5>. QED  BY <4>1, <5>1
      <4>3. \A v \in Threads : Pending(v)' /\ Line(v)' = Line(u)' => v = u
        <5>1. ASSUME NEW v \in Threads, Pending(v)', Line(v)' = Line(u)' PROVE v = u
          <6>1. v # t
            BY <4>1, <5>1
          <6>2. Pending(v) /\ Line(v) = Line(u)
            BY <2>1, <2>4, <4>1, <5>1, <6>1
          <6>. QED  BY <4>1, <6>2 DEF LogInv, CountInv
        <5>. QED  BY <5>1
      <4>4. \A k \in DOMAIN log' : log'[k] # Line(u)'
        BY <1>1, <4>1 DEF LogInv, CountInv
      <4>. QED  BY <4>2, <4>3, <4>4
    <3>. QED  BY <3>1, <3>2
  <2>5. \A k \in DOMAIN log' : Counted(log'[k]) => log'[k].n <= counts'[log'[k].kind]
    <3>1. ASSUME NEW k \in DOMAIN log, Counted(log[k])
          PROVE  log[k].n <= counts'[log[k].kind]
      <4>1. /\ log[k].n \in Nat /\ log[k].n <= counts[log[k].kind]
            /\ log[k].kind \in {"open", "stat"}
        BY <2>2, <3>1
      <4>2. /\ counts[log[k].kind] <= counts'[log[k].kind]
            /\ counts[log[k].kind] \in Nat /\ counts'[log[k].kind] \in Nat
        BY <1>4, <1>13, <4>1
      <4>. QED  BY <4>1, <4>2
    <3>. QED  BY <1>1, <3>1 DEF Counted
  <2>6. \A j, k \in DOMAIN log' : Counted(log'[j]) /\ log'[j] = log'[k] => j = k
    BY <1>1 DEF LogInv, CountInv, Counted
  <2>. QED  BY <2>4, <2>5, <2>6 DEF CountInv
<1>. QED  BY <1>6, <1>10, <1>11, <1>12, <1>14 DEF LogInv

(* log_line takes one of the EVENT_CAP events, or none is left.            *)
LEMMA TakeEventStep ==
  ASSUME DispatcherInv, LogInv, NEW t \in Threads, TakeEvent(t)
  PROVE  DispatcherInv' /\ LogInv'
<1>. DEFINE q == IF events >= EventCap THEN "leave" ELSE "swap"
<1>1. /\ At(t, "cap") /\ Goto(t, q) /\ InHandler(t) /\ events' = events + 1
      /\ UNCHANGED <<counts, creating, file, opened, log>>
  BY DEF TakeEvent
<1>2. "cap" \in InsideHandler /\ q \in InsideHandler /\ q \in {"leave", "swap"}
  BY DEF InsideHandler
<1>3. DispatcherInv' /\ Moves(t, q) /\ Place(t) = "cap"
  <2>. HIDE DEF q
  <2>. QED  BY <1>1, <1>2, HandlerStep
<1>4. events \in Nat /\ EventCap \in Nat /\ Len(log) \in Nat
  BY HarnessAssumption DEF LogInv, LogOK
<1>5. LogOK'
  BY <1>1, <1>4 DEF LogInv, LogOK
<1>6. CreatingInv'
  <2>1. q \notin {"check", "store", "write", "clear"}
    BY <1>2
  <2>. HIDE DEF q
  <2>. QED  BY <1>1, <1>3, <2>1, CreatingMove DEF LogInv
<1>7. EventsInv'
  <2>1. CASE events >= EventCap
    <3>1. \A u \in Threads : u \in Writers' => u \in Writers
      BY <1>3, <2>1, MovesWriters
    <3>2. events' \in Nat /\ events <= events'
      BY <1>1, <1>4
    <3>. QED  BY <1>1, <3>1, <3>2, EventsKept DEF LogInv
  <2>2. CASE ~(events >= EventCap)
    <3>1. Writers' = Writers \cup {t} /\ t \notin Writers
      <4>1. t \in Writers' /\ \A u \in Threads \ {t} : u \in Writers' <=> u \in Writers
        BY <1>3, <2>2, MovesWriters
      <4>2. Writers' \subseteq Threads /\ Writers \subseteq Threads /\ t \notin Writers
        BY <1>3 DEF Writers
      <4>. QED  BY <4>1, <4>2
    <3>2. /\ IsFiniteSet(Writers') /\ IsFiniteSet(Writers)
          /\ Cardinality(Writers') = Cardinality(Writers) + 1
          /\ Cardinality(Writers) \in Nat
      BY <3>1, FS_AddElement, FS_CardinalityType DEF LogInv, EventsInv
    <3>. QED  BY <1>1, <1>4, <2>2, <3>2 DEF LogInv, EventsInv
  <2>. QED  BY <2>1, <2>2
<1>8. CountInv'
  <2>1. \A u \in Threads : Pending(u)' => Pending(u) /\ Line(u)' = Line(u)
    BY <1>3, MovesWriters DEF Pending
  <2>. QED  BY <1>1, <2>1, CountKept DEF LogInv
<1>. QED  BY <1>3, <1>5, <1>6, <1>7, <1>8 DEF LogInv

(* CREATING lets one thread in; another gives its line up.                 *)
LEMMA SwapCreatingStep ==
  ASSUME DispatcherInv, LogInv, NEW t \in Threads, SwapCreating(t)
  PROVE  DispatcherInv' /\ LogInv'
<1>. DEFINE q == IF creating THEN "leave" ELSE "check"
<1>1. /\ At(t, "swap") /\ Goto(t, q) /\ InHandler(t) /\ creating' = TRUE
      /\ UNCHANGED <<counts, events, file, opened, log>>
  BY DEF SwapCreating
<1>2. "swap" \in InsideHandler /\ q \in InsideHandler /\ q \in {"leave", "check"}
  BY DEF InsideHandler
<1>3. DispatcherInv' /\ Moves(t, q) /\ Place(t) = "swap"
  <2>. HIDE DEF q
  <2>. QED  BY <1>1, <1>2, HandlerStep
<1>4. LogOK'
  BY <1>1 DEF LogInv, LogOK
<1>5. CreatingInv'
  <2>1. CASE creating
    <3>1. \A u \in Threads : Place(u)' \in {"check", "store", "write", "clear"} =>
            Place(u)' = Place(u)
      BY <1>3, <2>1 DEF Moves
    <3>. QED  BY <1>1, <3>1 DEF LogInv, CreatingInv
  <2>2. CASE ~creating
    <3>1. \A u \in Threads : Place(u)' \in {"check", "store", "write", "clear"} => u = t
      BY <1>3, <2>2 DEF Moves, LogInv, CreatingInv
    <3>2. Place(t)' = "check"
      BY <1>3, <2>2 DEF Moves
    <3>3. \A u \in Threads : Place(u)' # "store"
      BY <3>1, <3>2
    <3>. QED  BY <1>1, <3>1, <3>3 DEF LogInv, CreatingInv
  <2>. QED  BY <2>1, <2>2
<1>6. EventsInv'
  <2>1. \A u \in Threads : u \in Writers' => u \in Writers
    BY <1>3, MovesWriters DEF Writers
  <2>. QED  BY <1>1, <2>1, EventsKept DEF LogInv, LogOK
<1>7. CountInv'
  <2>1. \A u \in Threads : Pending(u)' => Pending(u) /\ Line(u)' = Line(u)
    BY <1>3, MovesWriters DEF Pending
  <2>. QED  BY <1>1, <2>1, CountKept DEF LogInv
<1>. QED  BY <1>3, <1>4, <1>5, <1>6, <1>7 DEF LogInv

LEMMA CheckFileStep ==
  ASSUME DispatcherInv, LogInv, NEW t \in Threads, CheckFile(t)
  PROVE  DispatcherInv' /\ LogInv'
<1>. DEFINE q == IF file THEN "write" ELSE "store"
<1>1. /\ At(t, "check") /\ InHandler(t)
      /\ UNCHANGED <<counts, events, creating, file, opened, log>>
      /\ \/ Goto(t, q)
         \/ q \in {"store", "clear"} /\ \E f \in {"open", "write"} : Nested(t, f, q)
  <2>1. /\ At(t, "check") /\ InHandler(t)
        /\ UNCHANGED <<counts, events, creating, file, opened, log>>
    BY DEF CheckFile, probeVars
  <2>2. CASE file
    BY <2>1, <2>2, Zenon DEF CheckFile
  <2>3. CASE ~file
    <3>1. Nested(t, "open", "store")
      BY <2>3 DEF CheckFile
    <3>2. q = "store"
      BY <2>3
    <3>. HIDE DEF q
    <3>. QED  BY <2>1, <3>1, <3>2
  <2>. QED  BY <2>2, <2>3
<1>2. /\ "check" \in InsideHandler /\ q \in InsideHandler
      /\ q \in {"write", "store"} /\ (q = "store" => ~file)
  BY DEF InsideHandler
<1>. HIDE DEF q
<1>3. DispatcherInv' /\ Moves(t, q) /\ Place(t) = "check"
  BY <1>1, <1>2, HandlerStep
<1>4. LogOK'
  BY <1>1 DEF LogInv, LogOK
<1>5. CreatingInv'
  <2>1. Place(t) \in {"check", "store", "write", "clear"} /\ (q = "store" => ~file)
    BY <1>2, <1>3
  <2>. QED  BY <1>1, <1>3, <2>1, CreatingMove DEF LogInv
<1>6. EventsInv'
  <2>1. \A u \in Threads : u \in Writers' => u \in Writers
    BY <1>3, MovesWriters DEF Writers
  <2>. QED  BY <1>1, <2>1, EventsKept DEF LogInv, LogOK
<1>7. CountInv'
  <2>1. \A u \in Threads : Pending(u)' => Pending(u) /\ Line(u)' = Line(u)
    BY <1>3, MovesWriters DEF Pending
  <2>. QED  BY <1>1, <2>1, CountKept DEF LogInv
<1>. QED  BY <1>3, <1>4, <1>5, <1>6, <1>7 DEF LogInv

(* The file is opened at most once: only the thread inside CREATING opens  *)
(* it, and only when it was not open.                                      *)
LEMMA StoreFileStep ==
  ASSUME DispatcherInv, LogInv, NEW t \in Threads, StoreFile(t)
  PROVE  DispatcherInv' /\ LogInv'
<1>1. /\ At(t, "store") /\ InHandler(t) /\ Goto(t, "write")
      /\ UNCHANGED <<counts, events, creating, log>>
  BY DEF StoreFile
<1>2. "store" \in InsideHandler /\ "write" \in InsideHandler
  BY DEF InsideHandler
<1>3. DispatcherInv' /\ Moves(t, "write") /\ Place(t) = "store"
  BY <1>1, <1>2, HandlerStep
<1>4. ~file /\ opened = 0
  BY <1>3 DEF LogInv, CreatingInv
<1>5. file' \in BOOLEAN /\ opened' = (IF file' THEN 1 ELSE 0)
  <2>1. PICK ok \in BOOLEAN : file' = (file \/ ok) /\ opened' = IF ok THEN opened + 1 ELSE opened
    BY DEF StoreFile
  <2>. QED  BY <1>4, <2>1
<1>6. LogOK'
  <2>1. opened' \in Nat
    BY <1>5
  <2>. QED  BY <1>1, <1>5, <2>1 DEF LogInv, LogOK
<1>7. CreatingInv'
  <2>1. \A u \in Threads : Place(u)' \in {"check", "store", "write", "clear"} =>
          Place(u) \in {"check", "store", "write", "clear"} /\ u = t
    BY <1>3 DEF Moves, LogInv, CreatingInv
  <2>2. Place(t)' = "write" /\ creating' = creating
    BY <1>1, <1>3 DEF Moves
  <2>3. \A u \in Threads : Place(u)' # "store"
    BY <2>1, <2>2
  <2>. QED  BY <1>5, <2>1, <2>2, <2>3 DEF LogInv, CreatingInv
<1>8. EventsInv'
  <2>1. \A u \in Threads : u \in Writers' => u \in Writers
    BY <1>3, MovesWriters DEF Writers
  <2>. QED  BY <1>1, <2>1, EventsKept DEF LogInv, LogOK
<1>9. CountInv'
  <2>1. \A u \in Threads : Pending(u)' => Pending(u) /\ Line(u)' = Line(u)
    BY <1>3, MovesWriters DEF Pending
  <2>. QED  BY <1>1, <2>1, CountKept DEF LogInv
<1>. QED  BY <1>3, <1>6, <1>7, <1>8, <1>9 DEF LogInv

(* The line goes into the log and stops being pending, in one step.        *)
LEMMA WriteLineStep ==
  ASSUME DispatcherInv, LogInv, NEW t \in Threads, WriteLine(t)
  PROVE  DispatcherInv' /\ LogInv'
<1>1. /\ At(t, "write") /\ InHandler(t)
      /\ UNCHANGED <<counts, events, creating, file, opened>>
  BY DEF WriteLine
<1>2. "write" \in InsideHandler /\ "clear" \in InsideHandler
  BY DEF InsideHandler
<1>3. \/ Goto(t, "clear") /\ log' = log
      \/ /\ Nested(t, "write", "clear")
         /\ log' = Append(log, [kind |-> Handler[Top(t).f], n |-> Top(t).n])
  BY DEF WriteLine
<1>4. DispatcherInv' /\ Moves(t, "clear") /\ Place(t) = "write"
  BY <1>1, <1>2, <1>3, HandlerStep
<1>5. Calling(t) /\ Top(t) = stack[t][1]
  BY <1>1, <1>2, HandlerIsFirst DEF At, Calling, DispatcherInv
<1>6. /\ Line(t) \in [kind : {"open", "stat", "log"}, n : Nat]
      /\ log \in Seq([kind : {"open", "stat", "log"}, n : Nat])
  BY <1>5, LineType DEF LogInv, LogOK, DispatcherInv
<1>7. log' = log \/ log' = Append(log, Line(t))
  BY <1>3, <1>5 DEF Line
<1>8. LogOK'
  <2>. DEFINE Lines == [kind : {"open", "stat", "log"}, n : Nat]
  <2>1. log' \in Seq(Lines)
    <3>1. log \in Seq(Lines) /\ Line(t) \in Lines
      BY <1>6
    <3>. HIDE DEF Lines
    <3>. QED  BY <1>7, <3>1, AppendProperties
  <2>. QED  BY <1>1, <2>1 DEF LogInv, LogOK
<1>9. CreatingInv'
  BY <1>1, <1>4, CreatingMove DEF LogInv
<1>10. /\ \A u \in Threads : u \in Writers' => u \in Writers
       /\ \A u \in Threads : Pending(u)' => Pending(u) /\ Line(u)' = Line(u) /\ u # t
  BY <1>4, MovesWriters DEF Pending, Writers
<1>11. CASE log' = log
  <2>1. EventsInv'
    BY <1>1, <1>10, <1>11, EventsKept DEF LogInv, LogOK
  <2>2. CountInv'
    BY <1>1, <1>10, <1>11, CountKept DEF LogInv
  <2>. QED  BY <1>4, <1>8, <1>9, <2>1, <2>2 DEF LogInv
<1>12. CASE log' = Append(log, Line(t))
  <2>1. /\ Len(log') = Len(log) + 1 /\ log'[Len(log) + 1] = Line(t)
        /\ \A k \in 1 .. Len(log) : log'[k] = log[k]
        /\ Len(log) \in Nat /\ DOMAIN log = 1 .. Len(log)
        /\ DOMAIN log' = 1 .. Len(log) + 1
    BY <1>6, <1>12, AppendProperties
  <2>2. EventsInv'
    <3>1. Writers' = Writers \ {t} /\ t \in Writers
      <4>1. t \notin Writers' /\ \A u \in Threads \ {t} : u \in Writers' <=> u \in Writers
        BY <1>4, MovesWriters
      <4>2. Writers' \subseteq Threads /\ Writers \subseteq Threads /\ t \in Writers
        BY <1>4 DEF Writers
      <4>. QED  BY <4>1, <4>2
    <3>2. /\ IsFiniteSet(Writers') /\ IsFiniteSet(Writers)
          /\ Cardinality(Writers') = Cardinality(Writers) - 1
          /\ Cardinality(Writers) \in Nat
      BY <3>1, FS_RemoveElement, FS_CardinalityType DEF LogInv, EventsInv
    <3>. QED  BY <1>1, <2>1, <3>2 DEF LogInv, LogOK, EventsInv
  <2>3. Pending(t) /\ Line(t)' = Line(t)
    BY <1>4 DEF Pending, Moves
  <2>4. \A k \in DOMAIN log' : \/ k \in DOMAIN log /\ log'[k] = log[k]
                               \/ k = Len(log) + 1 /\ log'[k] = Line(t)
    <3>1. ASSUME NEW k \in DOMAIN log'
          PROVE  \/ k \in DOMAIN log /\ log'[k] = log[k]
                 \/ k = Len(log) + 1 /\ log'[k] = Line(t)
      <4>1. k \in 1 .. Len(log) \/ k = Len(log) + 1
        BY <2>1, <3>1
      <4>2. CASE k \in 1 .. Len(log)
        BY <2>1, <4>2, Zenon
      <4>3. CASE k = Len(log) + 1
        BY <2>1, <4>3, Zenon
      <4>. QED  BY <4>1, <4>2, <4>3, Zenon
    <3>. QED  BY <3>1
  <2>5. Counted(Line(t)) => /\ Line(t).n <= counts[Line(t).kind]
                            /\ \A k \in DOMAIN log : log[k] # Line(t)
                            /\ \A u \in Threads : Pending(u) /\ Line(u) = Line(t) => u = t
    BY <2>3 DEF LogInv, CountInv
  <2>6. CountInv'
    <3>1. ASSUME NEW u \in Threads, Pending(u)', Counted(Line(u)')
          PROVE  /\ Line(u)'.n <= counts'[Line(u)'.kind]
                 /\ \A v \in Threads : Pending(v)' /\ Line(v)' = Line(u)' => v = u
                 /\ \A k \in DOMAIN log' : log'[k] # Line(u)'
      <4>1. /\ Pending(u) /\ Line(u)' = Line(u) /\ u # t /\ Counted(Line(u))
            /\ counts' = counts
        BY <1>1, <1>10, <3>1
      <4>2. /\ Line(u).n <= counts[Line(u).kind]
            /\ \A v \in Threads : Pending(v) /\ Line(v) = Line(u) => v = u
            /\ \A k \in DOMAIN log : log[k] # Line(u)
        BY <4>1 DEF LogInv, CountInv
      <4>3. Line(u) # Line(t)
        BY <2>3, <4>1, <4>2
      <4>4. \A k \in DOMAIN log' : log'[k] # Line(u)
        BY <2>4, <4>2, <4>3
      <4>5. \A v \in Threads : Pending(v)' /\ Line(v)' = Line(u)' => v = u
        BY <1>10, <4>1, <4>2
      <4>. QED  BY <4>1, <4>2, <4>4, <4>5
    <3>2. \A k \in DOMAIN log' : Counted(log'[k]) => log'[k].n <= counts'[log'[k].kind]
      BY <1>1, <2>4, <2>5 DEF LogInv, CountInv
    <3>3. \A j, k \in DOMAIN log' : Counted(log'[j]) /\ log'[j] = log'[k] => j = k
      BY <2>4, <2>5 DEF LogInv, CountInv
    <3>. QED  BY <3>1, <3>2, <3>3 DEF CountInv, Counted
  <2>. QED  BY <1>4, <1>8, <1>9, <2>2, <2>6 DEF LogInv
<1>. QED  BY <1>7, <1>11, <1>12

LEMMA ClearCreatingStep ==
  ASSUME DispatcherInv, LogInv, NEW t \in Threads, ClearCreating(t)
  PROVE  DispatcherInv' /\ LogInv'
<1>1. /\ At(t, "clear") /\ InHandler(t) /\ Goto(t, "leave") /\ creating' = FALSE
      /\ UNCHANGED <<counts, events, file, opened, log>>
  BY DEF ClearCreating
<1>2. "clear" \in InsideHandler /\ "leave" \in InsideHandler
  BY DEF InsideHandler
<1>3. DispatcherInv' /\ Moves(t, "leave") /\ Place(t) = "clear"
  BY <1>1, <1>2, HandlerStep
<1>4. LogOK'
  BY <1>1 DEF LogInv, LogOK
<1>5. CreatingInv'
  <2>1. \A u \in Threads : Place(u)' \notin {"check", "store", "write", "clear"}
    BY <1>3 DEF Moves, LogInv, CreatingInv
  <2>. QED  BY <1>1, <2>1 DEF LogInv, CreatingInv
<1>6. EventsInv'
  <2>1. \A u \in Threads : u \in Writers' => u \in Writers
    BY <1>3, MovesWriters DEF Writers
  <2>. QED  BY <1>1, <2>1, EventsKept DEF LogInv, LogOK
<1>7. CountInv'
  <2>1. \A u \in Threads : Pending(u)' => Pending(u) /\ Line(u)' = Line(u)
    BY <1>3, MovesWriters DEF Pending
  <2>. QED  BY <1>1, <2>1, CountKept DEF LogInv
<1>. QED  BY <1>3, <1>4, <1>5, <1>6, <1>7 DEF LogInv

-----------------------------------------------------------------------------
(* The theorems.                                                           *)

LEMMA HarnessInit ==
  ASSUME Init
  PROVE  DispatcherInv /\ LogInv
<1>. USE DEF Init
<1>1. Len(Registered) \in Nat
  BY HarnessAssumption, LenProperties
<1>2. \A t \in Threads : stack[t] = <<>> /\ ~Calling(t) /\ Place(t) = "none"
  BY DEF Calling, Place
<1>3. StackOK
  <2>1. /\ i \in 1 .. Len(Registered) + 1 /\ ipc \in {"resolve", "jump", "lock", "insert"}
        /\ live \subseteq Symbols /\ table \subseteq live
        /\ lock \in Threads \cup {Loader, Free} /\ proc \in {"alive", "aborted"}
    BY <1>1
  <2>2. stack \in [Threads -> Seq(CallType)] /\ \A t \in Threads : Len(stack[t]) <= 2
    <3>1. <<>> \in Seq(CallType) /\ Len(<<>>) <= 2
      OBVIOUS
    <3>. QED  BY <3>1
  <2>3. depth \in [Threads -> {0, 1}]
    OBVIOUS
  <2>4. calls \in [Threads -> Nat] /\ \A t \in Threads : calls[t] <= MaxCalls[t]
    BY HarnessAssumption
  <2>. QED  BY <2>1, <2>2, <2>3, <2>4 DEF StackOK
<1>4. InstallInv
  BY HarnessAssumption DEF InstallInv
<1>5. DispatchInv /\ DueInv
  <2>1. \A t \in Threads : Len(stack[t]) = 0 /\ depth[t] = 0 /\ lock # t /\ DOMAIN stack[t] = {}
    BY <1>2, HarnessAssumption
  <2>. QED  BY <1>2, <2>1 DEF DispatchInv, DueInv
<1>6. LogOK
  <2>1. counts \in [{"open", "stat"} -> Nat]
    OBVIOUS
  <2>2. events \in Nat /\ creating \in BOOLEAN /\ file \in BOOLEAN /\ opened \in Nat
    OBVIOUS
  <2>3. log \in Seq([kind : {"open", "stat", "log"}, n : Nat])
    <3>1. log = <<>>
      OBVIOUS
    <3>. QED  BY <3>1
  <2>. QED  BY <2>1, <2>2, <2>3 DEF LogOK
<1>7. CreatingInv
  BY <1>2 DEF CreatingInv
<1>8. EventsInv
  <2>1. Writers = {}
    BY <1>2 DEF Writers
  <2>2. IsFiniteSet(Writers) /\ Cardinality(Writers) = 0
    BY <2>1, FS_EmptySet
  <2>3. EventCap \in Nat /\ Len(log) = 0
    BY HarnessAssumption
  <2>. QED  BY <2>2, <2>3 DEF EventsInv
<1>9. CountInv
  BY <1>2 DEF CountInv, Pending
<1>. QED  BY <1>3, <1>4, <1>5, <1>6, <1>7, <1>8, <1>9 DEF DispatcherInv, LogInv

LEMMA HarnessNext ==
  ASSUME DispatcherInv, LogInv, [Next]_vars
  PROVE  DispatcherInv' /\ LogInv'
<1>1. CASE Install
  BY <1>1, InstallStep, InstallKeepsLog
<1>2. ASSUME NEW t \in Threads, NEW f \in Symbols \ Missing, CallFunction(t, f)
      PROVE  DispatcherInv' /\ LogInv'
  BY <1>2, CallStep, CallKeepsLog
<1>3. ASSUME NEW t \in Threads, Run(t)
      PROVE  DispatcherInv' /\ LogInv'
  <2>1. CASE LockTable(t) \/ Find(t) \/ Guard(t) \/ Leave(t)
    <3>1. DispatcherInv'
      BY <2>1, LockTableStep, FindStep, GuardStep, LeaveStep
    <3>. QED  BY <2>1, <3>1, DispatcherKeepsLog
  <2>2. CASE Original(t)
    BY <2>2, OriginalStep, OriginalKeepsLog
  <2>3. CASE Panic(t)
    BY <2>3, PanicStep
  <2>4. CASE Unreadable(t)
    BY <2>4, UnreadableStep
  <2>5. CASE Count(t)
    BY <2>5, CountStep
  <2>6. CASE Note(t)
    BY <2>6, NoteStep
  <2>7. CASE TakeEvent(t)
    BY <2>7, TakeEventStep
  <2>8. CASE SwapCreating(t)
    BY <2>8, SwapCreatingStep
  <2>9. CASE CheckFile(t)
    BY <2>9, CheckFileStep
  <2>10. CASE StoreFile(t)
    BY <2>10, StoreFileStep
  <2>11. CASE WriteLine(t)
    BY <2>11, WriteLineStep
  <2>12. CASE ClearCreating(t)
    BY <2>12, ClearCreatingStep
  <2>. QED  BY <1>3, <2>1, <2>2, <2>3, <2>4, <2>5, <2>6, <2>7, <2>8, <2>9, <2>10, <2>11, <2>12
            DEF Run
<1>4. CASE UNCHANGED vars
  <2>1. /\ UNCHANGED <<i, ipc, live, table, lock, stack, depth, calls, proc>>
        /\ UNCHANGED probeVars
    BY <1>4 DEF vars, initVars, callVars
  <2>2. StackOK' /\ InstallInv' /\ DispatchInv' /\ DueInv'
    BY <2>1 DEF DispatcherInv, StackOK, InstallInv, DispatchInv, DueInv, Calling, Top
  <2>3. LogInv'
    BY <2>1, LogKept DEF Place, Line, Calling
  <2>. QED  BY <2>2, <2>3 DEF DispatcherInv
<1>. QED  BY <1>1, <1>2, <1>3, <1>4 DEF Next, Finished

(* What the stack, the guard and the mutex owe each other gives the rest:  *)
(* the first call of a thread is the one that has a handler.               *)
LEMMA Nesting ==
  ASSUME DispatcherInv
  PROVE  HandlersDoNotNest /\ DepthIsNesting /\ OnlyHandlersCall /\ NoSelfWait
<1>1. ASSUME NEW t \in Threads, NEW k \in DOMAIN stack[t], stack[t][k].pc \in InsideHandler
      PROVE  k = 1
  <2>1. k \in 1 .. Len(stack[t]) /\ Len(stack[t]) \in 0 .. 2
    BY StackType DEF DispatcherInv
  <2>2. k = 1 \/ (k = 2 /\ Len(stack[t]) = 2)
    BY <2>1
  <2>3. ~(k = 2 /\ Len(stack[t]) = 2)
    BY <1>1 DEF DispatcherInv, DispatchInv
  <2>. QED  BY <2>2, <2>3
<1>2. HandlersDoNotNest
  BY <1>1 DEF HandlersDoNotNest
<1>3. DepthIsNesting
  <2>1. ASSUME NEW t \in Threads
        PROVE  depth[t] = 1 <=> \E c \in Range(stack[t]) : c.pc \in InsideHandler
    <3>1. depth[t] = 1 <=> Calling(t) /\ stack[t][1].pc \in InsideHandler
      BY DEF DispatcherInv, DispatchInv
    <3>2. Range(stack[t]) = {stack[t][k] : k \in DOMAIN stack[t]}
      BY DEF Range
    <3>3. Calling(t) <=> 1 \in DOMAIN stack[t]
      BY StackType DEF DispatcherInv
    <3>. QED  BY <1>1, <3>1, <3>2, <3>3
  <2>. QED  BY <2>1 DEF DepthIsNesting
<1>4. OnlyHandlersCall
  <2>1. ASSUME NEW t \in Threads, NEW j \in 1 .. Len(stack[t]) - 1
        PROVE  stack[t][j].pc \in InsideHandler
    <3>1. Len(stack[t]) \in 0 .. 2
      BY StackType DEF DispatcherInv
    <3>2. Len(stack[t]) = 2 /\ j = 1
      <4>1. \A n \in 0 .. 2 : \A k \in 1 .. n - 1 : n = 2 /\ k = 1
        OBVIOUS
      <4>. QED  BY <2>1, <3>1, <4>1, Zenon
    <3>. QED  BY <3>2 DEF DispatcherInv, DispatchInv, InsideHandler
  <2>. QED  BY <2>1 DEF OnlyHandlersCall
<1>5. NoSelfWait
  BY DEF NoSelfWait, At, Calling, DispatcherInv, DispatchInv
<1>. QED  BY <1>2, <1>3, <1>4, <1>5

(* The stack of calls, the recursion guard, the mutex of HOOKS, CREATING,  *)
(* the counts and the log stay in step, and so handlers do not nest, leave *)
(* the guard as they found it and never wait for their own thread          *)
(* (compiler.rs:310-337, probe_bughunt.rs:26-79).                          *)
THEOREM HarnessInvariant == Spec => []HarnessInv
<1>1. Init => DispatcherInv /\ LogInv
  BY HarnessInit
<1>2. DispatcherInv /\ LogInv /\ [Next]_vars => DispatcherInv' /\ LogInv'
  BY HarnessNext
<1>3. DispatcherInv /\ LogInv => HarnessInv
  BY Nesting DEF HarnessInv
<1>. QED  BY <1>1, <1>2, <1>3, PTL DEF Spec

(* A call the program makes of a function in the table has reached its     *)
(* handler when it goes on to the function (compiler.rs:310-337).          *)
THEOREM NoCallIsMissed == Spec => []NoneMissed
<1>1. DispatcherInv => NoneMissed
  <2>1. ASSUME DispatcherInv, NEW t \in Threads,
               At(t, "original"), Len(stack[t]) = 1, Top(t).due
        PROVE  Top(t).ran
    <3>1. 1 \in DOMAIN stack[t] /\ Top(t) = stack[t][1] /\ Top(t).pc = "original"
      BY <2>1, StackType DEF At, Calling, DispatcherInv
    <3>. QED  BY <2>1, <3>1 DEF DispatcherInv, DueInv
  <2>. QED  BY <2>1 DEF NoneMissed
<1>2. HarnessInv => NoneMissed
  BY <1>1 DEF HarnessInv
<1>. QED  BY <1>2, HarnessInvariant, PTL

(* However the threads race through bump_count and log_line, the log is    *)
(* opened once, has at most EVENT_CAP lines and no count in it twice       *)
(* (probe_bughunt.rs:26-79).                                               *)
THEOREM LogStaysFaithful == Spec => []LogFaithful
<1>1. HarnessInv => LogFaithful
  <2>. SUFFICES ASSUME LogInv PROVE LogFaithful
    BY DEF HarnessInv
  <2>1. Len(log) <= EventCap
    <3>1. /\ Len(log) \in Nat /\ EventCap \in Nat /\ Cardinality(Writers) \in Nat
          /\ Len(log) + Cardinality(Writers) <= EventCap
      BY HarnessAssumption, FS_CardinalityType DEF LogInv, LogOK, EventsInv
    <3>. QED  BY <3>1
  <2>2. opened <= 1
    BY DEF LogInv, CreatingInv
  <2>3. \A j, k \in DOMAIN log : Counted(log[j]) /\ log[j] = log[k] => j = k
    BY DEF LogInv, CountInv
  <2>. QED  BY <2>1, <2>2, <2>3 DEF LogFaithful
<1>. QED  BY <1>1, HarnessInvariant, PTL

=============================================================================
