----------------------------- MODULE TraceOutput -----------------------------
(***************************************************************************)
(* What reaches the log (src/src/lib.rs): the constructor reads its        *)
(* environment, opens the log, announces itself and maps the rings, while  *)
(* in attach mode threads of the target already make hooked calls; a call  *)
(* is copied into a slot, and the reader prints the slot as a line.        *)
(*                                                                         *)
(* The rings are one bounded queue here (EventRing shows that they behave  *)
(* like one).  A name is a class of characters and a length in bytes;      *)
(* everything in a line but the names is a length.                         *)
(***************************************************************************)
EXTENDS Naturals, Sequences, SequencesExt, FiniteSets

CONSTANTS
  Names,      \* names and messages callers pass: [cls, len]
  Filters,    \* values of MTDI_FILTER: sets of words
  NameMax,    \* bytes of a name that are copied
  SlotText,   \* bytes of a slot's str_data
  LineMax,    \* bytes of the reader's buffer
  Rest,       \* lengths of the part of a line that is not a name
  RingSize    \* slots of the queue

(* Bytes a byte of a name becomes; a name that is not UTF-8 is replaced    *)
(* before it is escaped.                                                   *)
Width == [plain |-> 1, quote |-> 2, newline |-> 2, control |-> 6, wide |-> 1,
          broken |-> 1]

ASSUME OutputAssumption ==
  /\ Names \subseteq [cls : DOMAIN Width, len : Nat]
  /\ {NameMax, SlotText, LineMax} \subseteq Nat
  /\ Rest \subseteq Nat /\ RingSize \in Nat \ {0}

(* The sizes the code chose: a slot holds two names, the reader's buffer   *)
(* two escaped copies of one.                                              *)
ASSUME SizeAssumption ==
  /\ 2 <= NameMax /\ 2 * NameMax <= SlotText
  /\ \A rest \in Rest : rest + 12 * NameMax <= LineMax

(* Functions with a bit in FILTER_MASK, by the number of names they print. *)
Arity == [open |-> 1, rename |-> 2, write |-> 0, mmap |-> 0, mtdi_log |-> 1]
Traceable == DOMAIN Arity \ {"mtdi_log"}

Call(f, names) == [f |-> f, names |-> names]

(* What spawn_target sets.  A target that is attached to has none of it,   *)
(* except a terminal, and a TMPDIR that can be written.                    *)
Unset == {"unset"}
Environments ==
  {e \in [own : BOOLEAN, output : {"unset", "opens", "fails"}, filter : Filters \cup {Unset},
          json : BOOLEAN, ecs : BOOLEAN, swap : BOOLEAN, tty : BOOLEAN, tmp : BOOLEAN] :
     IF e.own THEN e.tty /\ e.tmp
     ELSE e.output = "unset" /\ e.filter = Unset /\ ~e.json /\ ~e.ecs /\ ~e.swap}

Nothing == [kind |-> "none"]
Idle    == [pc |-> "idle"]

VARIABLES
  env,      \* the environment
  pc,       \* what the constructor does next
  swapped,  \* is USER_ON_OPEN set?
  log_fd,   \* where LOG_FD leads
  mask,     \* FILTER_MASK, as the functions whose bit is set
  json,     \* JSON_OUTPUT
  ecs,      \* ECS_OUTPUT
  mapped,   \* is THREAD_QUEUES set?
  reader,   \* does the reader thread run?
  ring,     \* records published and not yet printed
  app,      \* the hooked call a thread of the program is in
  line      \* the last line written to the log

setup == <<env, swapped, log_fd, mask, json, ecs, mapped, reader>>
vars  == <<setup, pc, ring, app, line>>

Init ==
  /\ env \in Environments /\ pc = "swap" /\ swapped = FALSE
  /\ log_fd = "stderr" /\ mask = Traceable /\ json = FALSE /\ ecs = FALSE
  /\ mapped = FALSE /\ reader = FALSE /\ ring = <<>> /\ app = Idle /\ line = Nothing

-----------------------------------------------------------------------------
(* Slots.                                                                  *)

AtMost(a, b) == IF a < b THEN a ELSE b

(* Mutants: the terminating zero is copied too; the two names share the    *)
(* limit of one.                                                           *)
Copied_Terminated(n, room) == [n EXCEPT !.len = AtMost(AtMost(n.len, NameMax), room) + 1]

Copied(n, room) == [n EXCEPT !.len = AtMost(AtMost(n.len, NameMax), room)]

FillStrings_OneLimit(names) ==
  [i \in DOMAIN names |->
     Copied(names[i], IF i = 1 THEN NameMax ELSE NameMax - Copied(names[1], NameMax).len)]

FillStrings(names) ==
  [i \in DOMAIN names |->
     Copied(names[i], IF i = 1 THEN SlotText ELSE SlotText - Copied(names[1], SlotText).len)]

(* push_binary_event, for a call of the program or of the constructor.     *)
Record(c, own) == [call |-> c, own |-> own, text |-> FillStrings(c.names)]

Push(c, own) ==
  ring' = IF mapped /\ Len(ring) < RingSize THEN Append(ring, Record(c, own)) ELSE ring

-----------------------------------------------------------------------------
(* Lines.                                                                  *)

Utf8(s) == s.cls # "broken" /\ (s.cls = "wide" => s.len % 3 = 0)

(* get_str1 and get_str2: what is not UTF-8 is printed as "<invalid>".     *)
Invalid == [cls |-> "plain", len |-> 9]
Shown(s) == IF s.len = 0 \/ Utf8(s) THEN s ELSE Invalid

Format == IF ecs THEN "ecs" ELSE IF json THEN "json" ELSE "text"

(* JsonEscape; plain text is not escaped.                                  *)
Printed(s) == IF Format = "text" THEN s.len ELSE s.len * Width[s.cls]

(* The sum over the names of a call, at most two.                          *)
Total(lens) ==
  (IF 1 \in DOMAIN lens THEN lens[1] ELSE 0) + (IF 2 \in DOMAIN lens THEN lens[2] ELSE 0)

(* The 26 fmt_* functions: ECS prints the arguments twice, in "message"    *)
(* and in "mtdi".                                                          *)
Length(shown, rest) ==
  rest + Total([i \in DOMAIN shown |-> Printed(shown[i])]) * (IF ecs THEN 2 ELSE 1)

(* Mutant: the buffer of earlier versions.                                 *)
Fits_OldBuffer(length) == length <= LineMax \div 2

Fits(length) == length <= LineMax

LineBreaks(shown) ==
  IF Format = "text"
  THEN Total([i \in DOMAIN shown |-> IF shown[i].cls = "newline" THEN shown[i].len ELSE 0])
  ELSE 0

(* The reader's writeln! into its buffer: what does not fit is lost, the   *)
(* line break that ends the line first.                                    *)
EventLine(r, rest) ==
  LET shown == [i \in DOMAIN r.text |-> Shown(r.text[i])]
  IN [kind |-> "event", to |-> log_fd, format |-> Format, call |-> r.call, own |-> r.own,
      shown |-> shown,
      breaks |-> LineBreaks(shown) + (IF Fits(Length(shown, rest)) THEN 1 ELSE 0)]

OwnLine(kind) == [kind |-> kind, to |-> log_fd, format |-> Format, breaks |-> 1]

-----------------------------------------------------------------------------
(* The constructor.                                                        *)

(* Mutants: the rings are mapped first; the notes are written before the   *)
(* log is open.                                                            *)
Order_RingsFirst ==
  <<"swap", "rings", "output", "notes", "filter", "flags", "banner", "reader", "done">>
Order_NotesFirst ==
  <<"swap", "notes", "output", "filter", "flags", "banner", "rings", "reader", "done">>

Order == <<"swap", "output", "notes", "filter", "flags", "banner", "rings", "reader", "done">>

Step(s) ==
  /\ pc = s
  /\ pc' = Order[1 + CHOOSE i \in DOMAIN Order : Order[i] = s]
  /\ UNCHANGED <<env, app>>

(* A call the constructor makes itself goes through its own handler.       *)
OwnCall(f) ==
  IF f \in mask /\ ~(f = "open" /\ swapped)
  THEN Push(Call(f, [i \in 1..Arity[f] |-> [cls |-> "plain", len |-> 1]]), TRUE)
  ELSE UNCHANGED ring

(* dlopen or dlsym may fail.                                               *)
LoadSwap ==
  /\ Step("swap")
  /\ \E found \in BOOLEAN : swapped' = (env.swap /\ found)
  /\ UNCHANGED <<log_fd, mask, json, ecs, mapped, reader, ring, line>>

OpenLog(file, opens) ==
  /\ log_fd' = IF opens THEN file ELSE log_fd
  /\ OwnCall("open")

(* The log is opened with the hooked open: on_open answers if there is one.*)
OpenOutput ==
  /\ Step("output")
  /\ \/ /\ env.output # "unset"
        /\ \E opens \in BOOLEAN :
             /\ swapped \/ opens = (env.output = "opens")
             /\ OpenLog("file", opens)
     \/ /\ env.output = "unset" /\ ~env.own /\ ~env.tty
        /\ OpenLog("tmp", env.tmp)
     \/ /\ env.output = "unset" /\ (env.own \/ env.tty)
        /\ UNCHANGED <<log_fd, ring>>
  /\ UNCHANGED <<swapped, mask, json, ecs, mapped, reader, line>>

(* mtdi_log before the rings exist writes the line itself.                 *)
WriteNotes ==
  /\ Step("notes")
  /\ IF ~env.own /\ mapped
     THEN Push(Call("mtdi_log", <<[cls |-> "plain", len |-> 1]>>), TRUE)
     ELSE UNCHANGED ring
  /\ line' = IF ~env.own /\ ~mapped THEN OwnLine("note") ELSE line
  /\ UNCHANGED <<swapped, log_fd, mask, json, ecs, mapped, reader>>

(* Mutant: the default mask is added to.                                   *)
ParseFilter_NoReset ==
  /\ Step("filter")
  /\ mask' = mask \cup (env.filter \cap Traceable)
  /\ UNCHANGED <<swapped, log_fd, json, ecs, mapped, reader, ring, line>>

(* Words that name no function are ignored.                                *)
ParseFilter ==
  /\ Step("filter")
  /\ mask' = IF env.filter = Unset THEN mask ELSE env.filter \cap Traceable
  /\ UNCHANGED <<swapped, log_fd, json, ecs, mapped, reader, ring, line>>

SetFlags ==
  /\ Step("flags")
  /\ json' = env.json /\ ecs' = env.ecs
  /\ UNCHANGED <<swapped, log_fd, mask, mapped, reader, ring, line>>

WriteBanner ==
  /\ Step("banner")
  /\ line' = OwnLine("banner") /\ OwnCall("write")
  /\ UNCHANGED <<swapped, log_fd, mask, json, ecs, mapped, reader>>

MapRings ==
  /\ Step("rings")
  /\ mapped' = TRUE /\ OwnCall("mmap")
  /\ UNCHANGED <<swapped, log_fd, mask, json, ecs, reader, line>>

StartReader ==
  /\ Step("reader")
  /\ reader' = TRUE
  /\ UNCHANGED <<swapped, log_fd, mask, json, ecs, mapped, ring, line>>

Constructor ==
  LoadSwap \/ OpenOutput \/ WriteNotes \/ ParseFilter \/ SetFlags \/ WriteBanner
  \/ MapRings \/ StartReader

-----------------------------------------------------------------------------
(* The program and the reader.                                             *)

(* A handler that goes on to push_binary_event: my_open does not if there  *)
(* is an on_open, none does if its bit is not set.  Before the constructor *)
(* has returned only an attached target runs, and mtdi_log is not found.   *)
EnterHandler(f) ==
  /\ app = Idle
  /\ ~env.own \/ pc = "done"
  /\ IF f = "mtdi_log" THEN pc = "done" ELSE f \in mask
  /\ ~(f = "open" /\ swapped)
  /\ app' = [pc |-> "push", f |-> f]
  /\ UNCHANGED <<setup, pc, ring, line>>

LeaveHandler(names) ==
  /\ app # Idle
  /\ Push(Call(app.f, names), FALSE)
  /\ app' = Idle
  /\ UNCHANGED <<setup, pc, line>>

PrintRecord(rest) ==
  /\ reader /\ ring # <<>>
  /\ line' = EventLine(Head(ring), rest)
  /\ ring' = Tail(ring)
  /\ UNCHANGED <<setup, pc, app>>

Next ==
  \/ Constructor
  \/ \E f \in {"open", "rename", "write", "mtdi_log"} : EnterHandler(f)
  \/ app # Idle /\ \E names \in [1..Arity[app.f] -> Names] : LeaveHandler(names)
  \/ \E rest \in Rest : PrintRecord(rest)

Spec == Init /\ [][Next]_vars

-----------------------------------------------------------------------------
(* Properties.                                                             *)

(* A record's two names share the text of the slot.                        *)
TypeOK ==
  /\ env \in Environments /\ pc \in ToSet(Order)
  /\ {swapped, json, ecs, mapped, reader} \subseteq BOOLEAN
  /\ log_fd \in {"stderr", "file", "tmp"} /\ mask \subseteq Traceable
  /\ app = Idle \/ app.f \in DOMAIN Arity
  /\ line = Nothing \/ line.kind \in {"note", "banner", "event"}

SlotsHold ==
  /\ ring \in Seq(ToSet(ring)) /\ Len(ring) <= RingSize
  /\ \A r \in ToSet(ring) :
       Total([i \in DOMAIN r.text |-> r.text[i].len]) <= SlotText

(* Where the environment sends the log.                                    *)
Destination ==
  IF env.output = "opens" THEN "file"
  ELSE IF env.output = "unset" /\ ~env.own /\ ~env.tty /\ env.tmp THEN "tmp"
  ELSE "stderr"

(* What the constructor has set up, by the steps it has taken.             *)
Opened   == pc \notin {"swap", "output"}
Filtered == pc \notin {"swap", "output", "notes", "filter"}
Flagged  == pc \in {"banner", "rings", "reader", "done"}

StageInv ==
  /\ mapped = (pc \in {"reader", "done"}) /\ reader = (pc = "done")
  /\ pc = "swap" => ~swapped
  /\ mask = IF Filtered /\ env.filter # Unset THEN env.filter \cap Traceable
            ELSE Traceable
  /\ json = (Flagged /\ env.json) /\ ecs = (Flagged /\ env.ecs)
  /\ ~Opened => line = Nothing /\ log_fd = "stderr"
  /\ Opened /\ ~swapped => log_fd = Destination

(* May a call of f be printed?                                             *)
Wanted(f) == env.filter = Unset \/ f \in env.filter \/ f = "mtdi_log"

(* A thread in a handler is one of an attached target, which has no        *)
(* filter, or entered it when the filter was set.                          *)
AppInv ==
  app # Idle =>
    /\ env.own => pc = "done"
    /\ Wanted(app.f)

(* A record is a call of the program, its names cut to their room.         *)
OfProgram(r) ==
  /\ r = Record(r.call, FALSE)
  /\ \E f \in DOMAIN Arity : \E names \in [1 .. Arity[f] -> Names] : r.call = Call(f, names)
  /\ Wanted(r.call.f)

RingInv == \A r \in ToSet(ring) : OfProgram(r)

(* A line was written when the format was known, or had none to follow.    *)
LineInv ==
  /\ line # Nothing =>
       /\ ~swapped => line.to = Destination
       /\ env.json \/ env.ecs => line.format = IF env.ecs THEN "ecs" ELSE "json"
  /\ line.kind \in {"note", "banner"} => line.breaks = 1
  /\ line.kind = "event" =>
       /\ reader /\ OfProgram(Record(line.call, FALSE))
       /\ \E rest \in Rest : line = EventLine(Record(line.call, FALSE), rest)

(* The relations between the constructor's progress, the environment, the  *)
(* records under way and the line last written are inductive.              *)
OutputInv ==
  TypeOK /\ SlotsHold /\ StageInv /\ AppInv /\ RingInv /\ LineInv

(* The constructor opens, writes and maps through the functions it has     *)
(* already hooked: nothing it does itself is taken for a call of the       *)
(* program.                                                                *)
OwnCallsUntraced == \A r \in ToSet(ring) : ~r.own

(* Only what MTDI_FILTER names is written, whatever was called first.      *)
Selected ==
  line.kind = "event" =>
    \/ env.filter = Unset \/ line.call.f \in env.filter
    \/ line.call.f = "mtdi_log"

(* Every line, the notes and the banner included, goes where the           *)
(* environment says; with an on_open it is the user's function that opens  *)
(* the log.                                                                *)
RightLog ==
  line # Nothing /\ ~swapped => line.to = Destination

(* With -j or -e every line of the log is one whole object in that format, *)
(* however long and odd the names of the call; a rename in ECS, which      *)
(* prints two names twice, is the exception.                               *)
OneObjectPerLine ==
  line # Nothing /\ (env.json \/ env.ecs) =>
    /\ line.format = IF env.ecs THEN "ecs" ELSE "json"
    /\ line.breaks = 1 \/ (line.kind = "event" /\ line.call.f = "rename" /\ env.ecs)

(* A name that is UTF-8 and within the limit is printed as it was passed,  *)
(* and the second does not pay for the first.                              *)
NamesKept ==
  line.kind = "event" =>
    \A i \in DOMAIN line.call.names :
      LET n == line.call.names[i]
      IN Utf8(n) /\ n.len <= NameMax => line.shown[i] = n

=============================================================================
