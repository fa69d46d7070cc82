--------------------------- MODULE TraceOutputProofs ---------------------------
(***************************************************************************)
(* What the constructor, the slots and the reader guarantee for every      *)
(* environment, filter, name and interleaving, for any capacity of the     *)
(* rings and any sizes that keep the proportions of the code's.            *)
(* OutputInv is inductive: it says what the constructor has set up by the  *)
(* steps it has taken, what every record under way is, and which record    *)
(* the last line was printed from.                                         *)
(***************************************************************************)
EXTENDS TraceOutput, SequenceTheorems, TLAPS

-----------------------------------------------------------------------------
(* The constructor's order.                                                *)

LEMMA NextStage ==
  ASSUME NEW s, Step(s)
  PROVE  /\ pc = s /\ env' = env /\ app' = app
         /\ s = "swap" => pc' = "output"
         /\ s = "output" => pc' = "notes"
         /\ s = "notes" => pc' = "filter"
         /\ s = "filter" => pc' = "flags"
         /\ s = "flags" => pc' = "banner"
         /\ s = "banner" => pc' = "rings"
         /\ s = "rings" => pc' = "reader"
         /\ s = "reader" => pc' = "done"
<1>1. /\ DOMAIN Order = 1 .. 9
      /\ Order[1] = "swap" /\ Order[2] = "output" /\ Order[3] = "notes"
      /\ Order[4] = "filter" /\ Order[5] = "flags" /\ Order[6] = "banner"
      /\ Order[7] = "rings" /\ Order[8] = "reader" /\ Order[9] = "done"
  BY DEF Order
<1>. DEFINE place == CHOOSE i \in DOMAIN Order : Order[i] = s
<1>2. \A n \in 1 .. 9 : s = Order[n] => place = n
  <2>1. \A n, m \in 1 .. 9 : Order[n] = Order[m] => n = m
    BY <1>1
  <2>2. ASSUME NEW n \in 1 .. 9, s = Order[n] PROVE place = n
    <3>1. \E i \in DOMAIN Order : Order[i] = s
      BY <1>1, <2>2
    <3>2. place \in DOMAIN Order /\ Order[place] = s
      BY <3>1
    <3>. QED  BY <1>1, <2>1, <2>2, <3>2
  <2>. QED  BY <2>2
<1>3. pc' = Order[1 + place]
  BY DEF Step
<1>. HIDE DEF place
<1>4. /\ s = Order[1] => pc' = Order[2]
      /\ s = Order[2] => pc' = Order[3]
      /\ s = Order[3] => pc' = Order[4]
      /\ s = Order[4] => pc' = Order[5]
      /\ s = Order[5] => pc' = Order[6]
      /\ s = Order[6] => pc' = Order[7]
      /\ s = Order[7] => pc' = Order[8]
      /\ s = Order[8] => pc' = Order[9]
  BY <1>2, <1>3
<1>5. pc = s /\ env' = env /\ app' = app
  BY DEF Step
<1>. QED  BY <1>1, <1>4, <1>5, Zenon

(* What the environments of the tool and of an attached target share.      *)
LEMMA EnvFacts ==
  ASSUME env \in Environments
  PROVE  /\ env.own \in BOOLEAN /\ env.json \in BOOLEAN /\ env.ecs \in BOOLEAN
         /\ env.swap \in BOOLEAN /\ env.tty \in BOOLEAN /\ env.tmp \in BOOLEAN
         /\ env.output \in {"unset", "opens", "fails"}
         /\ env.own => env.tty /\ env.tmp
         /\ ~env.own => env.output = "unset" /\ env.filter = Unset /\ ~env.json /\ ~env.ecs
  BY DEF Environments

-----------------------------------------------------------------------------
(* The constructor.                                                        *)

(* It calls its own handlers only before the rings are mapped.             *)
LEMMA OwnCallQuiet ==
  ASSUME ~mapped, NEW f, OwnCall(f)
  PROVE  ring' = ring
  BY DEF OwnCall, Push

LEMMA DestinationType ==
  Destination \in {"stderr", "file", "tmp"}
  BY DEF Destination

LEMMA StageStep ==
  ASSUME TypeOK, StageInv, Constructor
  PROVE  /\ StageInv' /\ pc # "done" /\ pc' \in ToSet(Order)
         /\ UNCHANGED <<env, app, ring>>
         /\ log_fd' \in {"stderr", "file", "tmp"} /\ mask' \subseteq Traceable
         /\ {swapped', json', ecs', mapped', reader'} \subseteq BOOLEAN
         /\ pc # "swap" => swapped' = swapped
<1>. USE EnvFacts, DestinationType DEF TypeOK
<1>1. ToSet(Order) = {"swap", "output", "notes", "filter", "flags", "banner", "rings",
                      "reader", "done"}
  <2>1. /\ DOMAIN Order = 1 .. 9
        /\ Order[1] = "swap" /\ Order[2] = "output" /\ Order[3] = "notes"
        /\ Order[4] = "filter" /\ Order[5] = "flags" /\ Order[6] = "banner"
        /\ Order[7] = "rings" /\ Order[8] = "reader" /\ Order[9] = "done"
    BY DEF Order
  <2>2. \A n : n \in DOMAIN Order <=> n \in {1, 2, 3, 4, 5, 6, 7, 8, 9}
    BY <2>1
  <2>3. ToSet(Order) = {Order[n] : n \in DOMAIN Order}
    BY DEF ToSet
  <2>. QED  BY <2>1, <2>2, <2>3
<1>2. CASE LoadSwap
  <2>1. pc = "swap" /\ pc' = "output" /\ env' = env /\ app' = app
    BY <1>2, NextStage DEF LoadSwap
  <2>2. UNCHANGED <<log_fd, mask, json, ecs, mapped, reader, ring, line>>
    BY <1>2 DEF LoadSwap
  <2>3. swapped' \in BOOLEAN
    BY <1>2 DEF LoadSwap
  <2>. QED  BY <1>1, <2>1, <2>2, <2>3 DEF StageInv, Opened, Filtered, Flagged, Destination
<1>3. CASE OpenOutput
  <2>1. pc = "output" /\ pc' = "notes" /\ env' = env /\ app' = app
    BY <1>3, NextStage DEF OpenOutput
  <2>2. UNCHANGED <<swapped, mask, json, ecs, mapped, reader, line>>
    BY <1>3 DEF OpenOutput
  <2>3. ring' = ring
    BY <1>3, <2>1, OwnCallQuiet DEF OpenOutput, OpenLog, StageInv
  <2>4. log_fd' \in {"stderr", "file", "tmp"} /\ (~swapped => log_fd' = Destination)
    BY <1>3, <2>1 DEF OpenOutput, OpenLog, StageInv, Opened, Destination
  <2>. QED  BY <1>1, <2>1, <2>2, <2>3, <2>4 DEF StageInv, Opened, Filtered, Flagged, Destination
<1>4. CASE WriteNotes
  <2>1. pc = "notes" /\ pc' = "filter" /\ env' = env /\ app' = app
    BY <1>4, NextStage DEF WriteNotes
  <2>2. UNCHANGED <<swapped, log_fd, mask, json, ecs, mapped, reader>>
    BY <1>4 DEF WriteNotes
  <2>3. ring' = ring
    BY <1>4, <2>1, OwnCallQuiet DEF WriteNotes, OpenLog, StageInv
  <2>. QED  BY <1>1, <2>1, <2>2, <2>3 DEF StageInv, Opened, Filtered, Flagged, Destination
<1>5. CASE ParseFilter
  <2>1. pc = "filter" /\ pc' = "flags" /\ env' = env /\ app' = app
    BY <1>5, NextStage DEF ParseFilter
  <2>2. UNCHANGED <<swapped, log_fd, json, ecs, mapped, reader, ring, line>>
    BY <1>5 DEF ParseFilter
  <2>3. mask' = IF env.filter = Unset THEN mask ELSE env.filter \cap Traceable
    BY <1>5 DEF ParseFilter
  <2>. QED  BY <1>1, <2>1, <2>2, <2>3 DEF StageInv, Opened, Filtered, Flagged, Destination
<1>6. CASE SetFlags
  <2>1. pc = "flags" /\ pc' = "banner" /\ env' = env /\ app' = app
    BY <1>6, NextStage DEF SetFlags
  <2>2. UNCHANGED <<swapped, log_fd, mask, mapped, reader, ring, line>>
    BY <1>6 DEF SetFlags
  <2>3. json' = env.json /\ ecs' = env.ecs
    BY <1>6 DEF SetFlags
  <2>. QED  BY <1>1, <2>1, <2>2, <2>3 DEF StageInv, Opened, Filtered, Flagged, Destination
<1>7. CASE WriteBanner
  <2>1. pc = "banner" /\ pc' = "rings" /\ env' = env /\ app' = app
    BY <1>7, NextStage DEF WriteBanner
  <2>2. UNCHANGED <<swapped, log_fd, mask, json, ecs, mapped, reader>>
    BY <1>7 DEF WriteBanner
  <2>3. ring' = ring
    BY <1>7, <2>1, OwnCallQuiet DEF WriteBanner, OpenLog, StageInv
  <2>. QED  BY <1>1, <2>1, <2>2, <2>3 DEF StageInv, Opened, Filtered, Flagged, Destination
<1>8. CASE MapRings
  <2>1. pc = "rings" /\ pc' = "reader" /\ env' = env /\ app' = app
    BY <1>8, NextStage DEF MapRings
  <2>2. UNCHANGED <<swapped, log_fd, mask, json, ecs, reader, line>>
    BY <1>8 DEF MapRings
  <2>3. mapped' = TRUE
    BY <1>8 DEF MapRings
  <2>4. ring' = ring
    BY <1>8, <2>1, OwnCallQuiet DEF MapRings, OpenLog, StageInv
  <2>. QED  BY <1>1, <2>1, <2>2, <2>3, <2>4 DEF StageInv, Opened, Filtered, Flagged, Destination
<1>9. CASE StartReader
  <2>1. pc = "reader" /\ pc' = "done" /\ env' = env /\ app' = app
    BY <1>9, NextStage DEF StartReader
  <2>2. UNCHANGED <<swapped, log_fd, mask, json, ecs, mapped, ring, line>>
    BY <1>9 DEF StartReader
  <2>3. reader' = TRUE
    BY <1>9 DEF StartReader
  <2>. QED  BY <1>1, <2>1, <2>2, <2>3 DEF StageInv, Opened, Filtered, Flagged, Destination
<1>. QED  BY <1>2, <1>3, <1>4, <1>5, <1>6, <1>7, <1>8, <1>9 DEF Constructor

LEMMA ConstructorStep ==
  ASSUME OutputInv, Constructor
  PROVE  OutputInv'
<1>1. /\ StageInv' /\ pc # "done" /\ pc' \in ToSet(Order)
      /\ UNCHANGED <<env, app, ring>>
      /\ log_fd' \in {"stderr", "file", "tmp"} /\ mask' \subseteq Traceable
      /\ {swapped', json', ecs', mapped', reader'} \subseteq BOOLEAN
      /\ pc # "swap" => swapped' = swapped
  BY StageStep DEF OutputInv
<1>2. SlotsHold'
  BY <1>1 DEF OutputInv, SlotsHold
<1>3. AppInv'
  BY <1>1, EnvFacts DEF OutputInv, TypeOK, AppInv, Wanted
<1>4. RingInv'
  BY <1>1 DEF OutputInv, RingInv, OfProgram, Wanted, Record
<1>5. Destination' = Destination
  BY <1>1 DEF Destination
<1>6. ~reader /\ line.kind # "event"
  BY <1>1 DEF OutputInv, StageInv, LineInv
<1>7. \/ line' = line
      \/ line' = OwnLine("note") /\ ~env.own /\ pc = "notes"
      \/ line' = OwnLine("banner") /\ pc = "banner"
  <2>1. CASE LoadSwap \/ OpenOutput \/ ParseFilter \/ SetFlags \/ MapRings \/ StartReader
    BY <2>1 DEF LoadSwap, OpenOutput, ParseFilter, SetFlags, MapRings, StartReader
  <2>2. CASE WriteNotes
    BY <2>2 DEF WriteNotes, Step
  <2>3. CASE WriteBanner
    BY <2>3 DEF WriteBanner, Step
  <2>. QED  BY <2>1, <2>2, <2>3 DEF Constructor
<1>8. CASE line' = line
  <2>1. line # Nothing => pc # "swap"
    BY DEF OutputInv, StageInv, Opened
  <2>2. LineInv'
    <3>1. /\ line # Nothing => /\ ~swapped => line.to = Destination
                               /\ env.json \/ env.ecs =>
                                    line.format = IF env.ecs THEN "ecs" ELSE "json"
          /\ line.kind \in {"note", "banner"} => line.breaks = 1
      BY DEF OutputInv, LineInv
    <3>2. line # Nothing => swapped' = swapped
      BY <1>1, <2>1
    <3>3. line' = line /\ env' = env /\ line'.kind # "event"
      BY <1>1, <1>6, <1>8
    <3>. QED  BY <1>5, <3>1, <3>2, <3>3, Zenon DEF LineInv
  <2>3. TypeOK'
    BY <1>1, <1>8 DEF OutputInv, TypeOK
  <2>. QED  BY <1>1, <1>2, <1>3, <1>4, <2>2, <2>3 DEF OutputInv
<1>9. CASE line' # line
  <2>1. PICK kind \in {"note", "banner"} :
          /\ line' = OwnLine(kind)
          /\ kind = "note" => ~env.own /\ pc = "notes"
          /\ kind = "banner" => pc = "banner"
    BY <1>7, <1>9
  <2>2. /\ line'.kind = kind /\ line'.to = log_fd /\ line'.format = Format
        /\ line'.breaks = 1
    BY <2>1 DEF OwnLine
  <2>3. pc \in {"notes", "banner"} /\ swapped' = swapped
    BY <1>1, <2>1
  <2>4. ~swapped => log_fd = Destination
    BY <2>3 DEF OutputInv, StageInv, Opened
  <2>5. env.json \/ env.ecs => Format = IF env.ecs THEN "ecs" ELSE "json"
    <3>1. CASE kind = "note"
      BY <2>1, <3>1, EnvFacts DEF OutputInv, TypeOK
    <3>2. CASE kind = "banner"
      BY <2>1, <3>2, EnvFacts DEF OutputInv, TypeOK, StageInv, Flagged, Format
    <3>. QED  BY <3>1, <3>2
  <2>6. LineInv'
    BY <1>1, <1>5, <2>2, <2>3, <2>4, <2>5 DEF LineInv
  <2>7. TypeOK'
    BY <1>1, <2>2 DEF OutputInv, TypeOK
  <2>. QED  BY <1>1, <1>2, <1>3, <1>4, <2>6, <2>7 DEF OutputInv
<1>. QED  BY <1>8, <1>9

-----------------------------------------------------------------------------
(* The program.                                                            *)

(* A handler is entered when its bit is set: by a target with a filter     *)
(* only after the constructor.                                             *)
LEMMA EnterStep ==
  ASSUME OutputInv, NEW f \in {"open", "rename", "write", "mtdi_log"}, EnterHandler(f)
  PROVE  OutputInv'
<1>1. /\ UNCHANGED <<env, swapped, log_fd, mask, json, ecs, mapped, reader, pc, ring, line>>
      /\ app' = [pc |-> "push", f |-> f] /\ (~env.own \/ pc = "done")
      /\ f = "mtdi_log" \/ f \in mask
  BY DEF EnterHandler, setup
<1>2. TypeOK' /\ StageInv' /\ SlotsHold'
  <2>1. TypeOK'
    <3>1. app'.f \in DOMAIN Arity
      BY <1>1 DEF Arity
    <3>. QED  BY <1>1, <3>1 DEF OutputInv, TypeOK
  <2>2. StageInv' /\ SlotsHold'
    BY <1>1 DEF OutputInv, StageInv, SlotsHold, Opened, Filtered, Flagged, Destination
  <2>. QED  BY <2>1, <2>2
<1>3. RingInv' /\ LineInv'
  BY <1>1 DEF OutputInv, RingInv, LineInv, OfProgram, Wanted, Record, Destination,
              EventLine, Format, Length, LineBreaks, Printed
<1>4. AppInv'
  <2>1. Wanted(f)
    <3>1. CASE env.own
      <4>1. mask = IF env.filter # Unset THEN env.filter \cap Traceable ELSE Traceable
        BY <1>1, <3>1 DEF OutputInv, StageInv, Filtered
      <4>. QED  BY <1>1, <4>1 DEF Wanted
    <3>2. CASE ~env.own
      BY <3>2, EnvFacts DEF Wanted, OutputInv, TypeOK
    <3>. QED  BY <3>1, <3>2
  <2>2. app'.f = f
    BY <1>1
  <2>. QED  BY <1>1, <2>1, <2>2 DEF AppInv, Wanted
<1>. QED  BY <1>2, <1>3, <1>4 DEF OutputInv

-----------------------------------------------------------------------------
(* Slots.                                                                  *)

LEMMA ArityType ==
  ASSUME NEW f \in DOMAIN Arity
  PROVE  Arity[f] \in {0, 1, 2}
  BY DEF Arity

(* A name that is copied keeps its class and as much as it has room for.   *)
LEMMA CopiedName ==
  ASSUME NEW n \in Names, NEW room \in Nat
  PROVE  /\ Copied(n, room).cls = n.cls /\ n.cls \in DOMAIN Width
         /\ Copied(n, room).len \in 0 .. NameMax /\ Copied(n, room).len <= room
         /\ NameMax <= room => Copied(n, room).len = AtMost(n.len, NameMax)
         /\ NameMax <= room /\ n.len <= NameMax => Copied(n, room) = n
<1>1. n \in [cls : DOMAIN Width, len : Nat] /\ NameMax \in Nat
  BY OutputAssumption
<1>2. AtMost(AtMost(n.len, NameMax), room) \in 0 .. NameMax
  BY <1>1 DEF AtMost
<1>3. /\ AtMost(AtMost(n.len, NameMax), room) <= room
      /\ NameMax <= room => AtMost(AtMost(n.len, NameMax), room) = AtMost(n.len, NameMax)
      /\ NameMax <= room /\ n.len <= NameMax => AtMost(AtMost(n.len, NameMax), room) = n.len
  BY <1>1 DEF AtMost
<1>4. Copied(n, room) = [cls |-> n.cls, len |-> AtMost(AtMost(n.len, NameMax), room)]
  BY <1>1 DEF Copied
<1>5. n = [cls |-> n.cls, len |-> n.len]
  BY <1>1
<1>. HIDE DEF AtMost
<1>. QED  BY <1>1, <1>2, <1>3, <1>4, <1>5

(* Each of the two names has room for NameMax bytes.                       *)
LEMMA Text ==
  ASSUME NEW k \in {0, 1, 2}, NEW names \in [1 .. k -> Names]
  PROVE  /\ DOMAIN FillStrings(names) = 1 .. k
         /\ \A i \in 1 .. k : \E room \in Nat :
              /\ NameMax <= room
              /\ FillStrings(names)[i] = Copied(names[i], room)
         /\ Total([i \in DOMAIN FillStrings(names) |-> FillStrings(names)[i].len]) <= SlotText
<1>. DEFINE text == FillStrings(names)
            first == Copied(names[1], SlotText).len
<1>1. /\ SlotText \in Nat /\ NameMax \in Nat /\ NameMax <= SlotText
      /\ NameMax <= SlotText - NameMax
  BY OutputAssumption, SizeAssumption
<1>2. 1 \in 1 .. k => first \in 0 .. NameMax
  BY <1>1, CopiedName
<1>3. /\ DOMAIN text = 1 .. k
      /\ \A i \in 1 .. k :
           text[i] = Copied(names[i], IF i = 1 THEN SlotText ELSE SlotText - first)
  BY DEF FillStrings
<1>4. \A i \in 1 .. k : i = 1 \/ (i = 2 /\ 1 \in 1 .. k)
  OBVIOUS
<1>5. 1 \in 1 .. k => SlotText - first \in Nat /\ NameMax <= SlotText - first
  BY <1>1, <1>2
<1>6. 1 \in 1 .. k => names[1] \in Names
  OBVIOUS
<1>7. 2 \in 1 .. k => names[2] \in Names /\ 1 \in 1 .. k
  OBVIOUS
<1>. HIDE DEF text, first
<1>8. \A i \in 1 .. k : \E room \in Nat :
        NameMax <= room /\ text[i] = Copied(names[i], room)
  BY <1>1, <1>3, <1>4, <1>5
<1>9. Total([i \in DOMAIN text |-> text[i].len]) <= SlotText
  <2>1. 1 \in 1 .. k => text[1].len = first /\ first \in 0 .. NameMax
    BY <1>2, <1>3 DEF first
  <2>2. 2 \in 1 .. k => text[2].len \in 0 .. NameMax /\ text[2].len <= SlotText - first
    <3>1. ASSUME 2 \in 1 .. k
          PROVE  text[2] = Copied(names[2], SlotText - first)
      <4>1. 2 # 1
        OBVIOUS
      <4>. QED  BY <1>3, <3>1, <4>1, Zenon
    <3>2. ASSUME 2 \in 1 .. k
          PROVE  /\ Copied(names[2], SlotText - first).len \in 0 .. NameMax
                 /\ Copied(names[2], SlotText - first).len <= SlotText - first
      <4>1. names[2] \in Names /\ SlotText - first \in Nat
        BY <1>5, <1>7, <3>2
      <4>. QED  BY <4>1, CopiedName
    <3>. QED  BY <3>1, <3>2
  <2>. DEFINE lens == [i \in DOMAIN text |-> text[i].len]
  <2>3. /\ DOMAIN lens = 1 .. k
        /\ 1 \in 1 .. k => lens[1] = text[1].len
        /\ 2 \in 1 .. k => lens[2] = text[2].len
    BY <1>3
  <2>. HIDE DEF lens
  <2>4. Total(lens) <= SlotText
    BY <1>1, <1>7, <2>1, <2>2, <2>3 DEF Total
  <2>. QED  BY <2>4 DEF lens
<1>. QED  BY <1>3, <1>8, <1>9 DEF text


LEMMA LeaveStep ==
  ASSUME OutputInv, app # Idle, NEW names \in [1 .. Arity[app.f] -> Names],
         LeaveHandler(names)
  PROVE  OutputInv'
<1>. DEFINE c == Call(app.f, names)
            r == Record(c, FALSE)
<1>1. /\ UNCHANGED <<env, swapped, log_fd, mask, json, ecs, mapped, reader, pc, line>>
      /\ app' = Idle
      /\ ring' = IF mapped /\ Len(ring) < RingSize THEN Append(ring, r) ELSE ring
  BY DEF LeaveHandler, setup, Push
<1>2. TypeOK' /\ StageInv' /\ AppInv'
  <2>1. TypeOK'
    BY <1>1 DEF OutputInv, TypeOK
  <2>2. StageInv' /\ AppInv'
    BY <1>1 DEF OutputInv, StageInv, AppInv, Opened, Filtered, Flagged, Destination
  <2>. QED  BY <2>1, <2>2
<1>3. LineInv'
  BY <1>1, SMTT(30) DEF OutputInv, LineInv, OfProgram, Wanted, Record, Destination,
              EventLine, Format, Length, LineBreaks, Printed
<1>4. app.f \in DOMAIN Arity /\ Wanted(app.f)
  BY DEF OutputInv, TypeOK, AppInv
<1>5. c.f = app.f /\ c.names = names /\ r.call = c /\ r.own = FALSE /\ r.text = FillStrings(names)
  BY DEF Call, Record
<1>6. OfProgram(r)
  <2>1. \E f \in DOMAIN Arity : \E ns \in [1 .. Arity[f] -> Names] : r.call = Call(f, ns)
    BY <1>4, <1>5
  <2>2. r = Record(r.call, FALSE)
    BY <1>5
  <2>. HIDE DEF r, c
  <2>. QED  BY <1>4, <1>5, <2>1, <2>2 DEF OfProgram
<1>7. Total([i \in DOMAIN r.text |-> r.text[i].len]) <= SlotText
  BY <1>4, <1>5, ArityType, Text
<1>. HIDE DEF r, c
<1>8. CASE ring' = ring
  BY <1>1, <1>2, <1>3, <1>8 DEF OutputInv, SlotsHold, RingInv, OfProgram, Wanted, Record
<1>9. CASE mapped /\ Len(ring) < RingSize /\ ring' = Append(ring, r)
  <2>1. /\ Len(ring') = Len(ring) + 1 /\ Len(ring) \in Nat
        /\ ToSet(ring') = ToSet(ring) \cup {r}
        /\ ring' \in Seq(ToSet(ring) \cup {r})
    <3>. DEFINE S == ToSet(ring) \cup {r}
    <3>1. ring \in Seq(S) /\ r \in S
      <4>1. ring \in Seq(ToSet(ring))
        BY DEF OutputInv, SlotsHold
      <4>. QED  BY <4>1, SeqMonotonic
    <3>. HIDE DEF S
    <3>2. /\ ring' \in Seq(S) /\ Len(ring') = Len(ring) + 1
          /\ ring'[Len(ring) + 1] = r /\ \A k \in 1 .. Len(ring) : ring'[k] = ring[k]
      BY <1>9, <3>1, AppendProperties
    <3>3. DOMAIN ring = 1 .. Len(ring) /\ DOMAIN ring' = 1 .. Len(ring) + 1 /\ Len(ring) \in Nat
      BY <3>1, <3>2
    <3>4. ToSet(ring') = ToSet(ring) \cup {r}
      BY <3>2, <3>3 DEF ToSet
    <3>. QED  BY <3>2, <3>3, <3>4 DEF S
  <2>2. SlotsHold'
    <3>1. Len(ring') <= RingSize
      BY <1>9, <2>1, OutputAssumption
    <3>. QED  BY <1>7, <2>1, <3>1 DEF OutputInv, SlotsHold
  <2>3. RingInv'
    <3>1. \A q \in ToSet(ring') : OfProgram(q)
      BY <1>6, <2>1 DEF OutputInv, RingInv
    <3>. QED  BY <1>1, <3>1 DEF RingInv, OfProgram, Wanted, Record
  <2>. QED  BY <1>2, <1>3, <2>2, <2>3 DEF OutputInv
<1>. QED  BY <1>1, <1>8, <1>9

(* The reader prints what was recorded, in the format and to the log the   *)
(* constructor has long settled.                                           *)
LEMMA PrintStep ==
  ASSUME OutputInv, NEW rest \in Rest, PrintRecord(rest)
  PROVE  OutputInv'
<1>. DEFINE r == Head(ring)
<1>1. /\ UNCHANGED <<env, swapped, log_fd, mask, json, ecs, mapped, reader, pc, app>>
      /\ reader /\ ring # <<>> /\ line' = EventLine(r, rest) /\ ring' = Tail(ring)
  BY DEF PrintRecord, setup
<1>2. /\ r \in ToSet(ring) /\ ToSet(ring') \subseteq ToSet(ring)
      /\ ring' \in Seq(ToSet(ring')) /\ Len(ring') <= Len(ring)
      /\ Len(ring) \in Nat /\ Len(ring') \in Nat
  <2>. DEFINE S == ToSet(ring)
  <2>1. ring \in Seq(S) /\ S = {ring[k] : k \in DOMAIN ring}
    BY DEF OutputInv, SlotsHold, ToSet
  <2>2. ToSet(ring') = {ring'[k] : k \in DOMAIN ring'}
    BY DEF ToSet
  <2>. HIDE DEF S
  <2>3. Len(ring) \in Nat \ {0} /\ DOMAIN ring = 1 .. Len(ring)
    BY <1>1, <2>1, EmptySeq
  <2>4. r = ring[1]
    BY <2>1
  <2>5. /\ Tail(ring) \in Seq(S) /\ Len(Tail(ring)) = Len(ring) - 1
        /\ \A k \in 1 .. Len(Tail(ring)) : Tail(ring)[k] = ring[k + 1]
    BY <1>1, <2>1, HeadTailProperties
  <2>6. DOMAIN ring' = 1 .. Len(ring') /\ Len(ring') = Len(ring) - 1
    BY <1>1, <2>5
  <2>7. \A k \in 1 .. Len(ring') : k + 1 \in 1 .. Len(ring)
    BY <2>3, <2>6
  <2>8. ToSet(ring') \subseteq S
    BY <1>1, <2>1, <2>2, <2>3, <2>5, <2>6, <2>7
  <2>9. ring' \in Seq(ToSet(ring'))
    <3>1. \A k \in 1 .. Len(ring') : ring'[k] \in ToSet(ring')
      BY <2>2, <2>6
    <3>2. Len(ring') \in Nat
      BY <2>3, <2>6
    <3>3. ring' = [k \in 1 .. Len(ring') |-> ring'[k]]
      <4>1. ring' \in [1 .. Len(ring') -> S]
        BY <1>1, <2>5, LenProperties
      <4>. QED  BY <4>1
    <3>. QED  BY <3>1, <3>2, <3>3, IsASeq
  <2>10. r \in S
    BY <2>1, <2>3, <2>4
  <2>11. Len(ring') <= Len(ring) /\ Len(ring') \in Nat
    BY <2>3, <2>6
  <2>. QED  BY <2>3, <2>8, <2>9, <2>10, <2>11 DEF S
<1>3. OfProgram(r) /\ r = Record(r.call, FALSE)
  BY <1>2 DEF OutputInv, RingInv, OfProgram
<1>. HIDE DEF r
<1>4. /\ line'.kind = "event" /\ line'.call = r.call /\ line'.to = log_fd
      /\ line'.format = Format
  BY <1>1 DEF EventLine
<1>5. TypeOK'
  BY <1>1, <1>4 DEF OutputInv, TypeOK
<1>6. StageInv' /\ AppInv'
  <2>1. pc = "done"
    BY <1>1 DEF OutputInv, StageInv
  <2>. QED  BY <1>1, <2>1 DEF OutputInv, StageInv, AppInv, Wanted, Opened, Filtered, Flagged,
                              Destination
<1>7. SlotsHold'
  <2>1. Len(ring') <= RingSize
    BY <1>2, OutputAssumption DEF OutputInv, SlotsHold
  <2>. QED  BY <1>2, <2>1 DEF OutputInv, SlotsHold
<1>8. RingInv'
  BY <1>1, <1>2 DEF OutputInv, RingInv, OfProgram, Wanted, Record
<1>9. LineInv'
  <2>1. ~swapped => log_fd = Destination
    BY <1>1 DEF OutputInv, StageInv, Opened
  <2>2. env.json \/ env.ecs => Format = IF env.ecs THEN "ecs" ELSE "json"
    BY <1>1, EnvFacts DEF OutputInv, TypeOK, StageInv, Flagged, Format
  <2>3. Record(line'.call, FALSE) = r
    BY <1>3, <1>4
  <2>4. OfProgram(Record(line.call, FALSE))'
    BY <1>1, <1>3, <2>3 DEF OfProgram, Wanted, Record
  <2>5. (\E x \in Rest : line = EventLine(Record(line.call, FALSE), x))'
    <3>1. PICK q : q = r
      OBVIOUS
    <3>2. line' = EventLine(q, rest)
      BY <1>1, <3>1 DEF r
    <3>3. EventLine(q, rest)' = EventLine(q, rest)
      BY <1>1 DEF EventLine, Format, Length, LineBreaks, Printed
    <3>4. Record(line.call, FALSE)' = q
      BY <2>3, <3>1
    <3>. QED  BY <3>2, <3>3, <3>4
  <2>6. Destination' = Destination
    BY <1>1 DEF Destination
  <2>. QED  BY <1>1, <1>4, <2>1, <2>2, <2>4, <2>5, <2>6 DEF LineInv
<1>. QED  BY <1>5, <1>6, <1>7, <1>8, <1>9 DEF OutputInv

-----------------------------------------------------------------------------
(* Lines.                                                                  *)

(* A name, or what is printed for it, takes at most six bytes for each of  *)
(* the NameMax that were copied.                                           *)
LEMMA NameFits ==
  ASSUME NEW n \in Names, NEW room \in Nat, NameMax <= room, Format # "text"
  PROVE  /\ Printed(Shown(Copied(n, room))) \in Nat
         /\ Printed(Shown(Copied(n, room))) <= 6 * NameMax
<1>. DEFINE s == Shown(Copied(n, room))
<1>1. NameMax \in Nat /\ 2 <= NameMax
  BY OutputAssumption, SizeAssumption
<1>2. /\ Copied(n, room).cls \in DOMAIN Width /\ Copied(n, room).len \in Nat
      /\ Copied(n, room).len <= NameMax
  <2>1. /\ Copied(n, room).cls \in DOMAIN Width
        /\ Copied(n, room).len \in 0 .. NameMax
    BY CopiedName
  <2>. QED  BY <1>1, <2>1
<1>3. \/ s = Copied(n, room)
      \/ s.cls = "plain" /\ s.len = 9
  BY DEF Shown, Invalid
<1>4. Width[s.cls] \in {1, 2, 6}
  BY <1>2, <1>3 DEF Width
<1>5. s.len \in Nat /\ (s.len <= NameMax \/ (s.len = 9 /\ Width[s.cls] = 1))
  BY <1>2, <1>3 DEF Width
<1>. HIDE DEF s
<1>6. s.len * Width[s.cls] \in Nat /\ s.len * Width[s.cls] <= 6 * NameMax
  <2>1. CASE Width[s.cls] = 1
    BY <1>1, <1>5, <2>1
  <2>2. CASE Width[s.cls] = 2
    BY <1>1, <1>5, <2>2
  <2>3. CASE Width[s.cls] = 6
    BY <1>1, <1>5, <2>3
  <2>. QED  BY <1>4, <2>1, <2>2, <2>3
<1>. QED  BY <1>6 DEF Printed, s

(* One name twice, or two names once, fit the reader's buffer.             *)
LEMMA LineFits ==
  ASSUME NEW f \in DOMAIN Arity, NEW names \in [1 .. Arity[f] -> Names], NEW rest \in Rest,
         ecs \in BOOLEAN, Format # "text", ~ecs \/ f # "rename"
  PROVE  LET text == FillStrings(names)
         IN  Length([i \in DOMAIN text |-> Shown(text[i])], rest) <= LineMax
<1>. DEFINE text == FillStrings(names)
            shown == [i \in DOMAIN text |-> Shown(text[i])]
            lens == [i \in DOMAIN shown |-> Printed(shown[i])]
            k == Arity[f]
<1>1. k \in {0, 1, 2} /\ (f # "rename" => k \in {0, 1})
  BY DEF Arity
<1>2. DOMAIN text = 1 .. k /\ \A i \in 1 .. k : \E room \in Nat :
        NameMax <= room /\ text[i] = Copied(names[i], room)
  <2>. HIDE DEF k
  <2>. QED  BY <1>1, Text DEF k
<1>3. NameMax \in Nat /\ LineMax \in Nat /\ rest \in Nat /\ rest + 12 * NameMax <= LineMax
  BY OutputAssumption, SizeAssumption
<1>4. DOMAIN lens = 1 .. k
  BY <1>2
<1>. HIDE DEF text, k
<1>5. ASSUME NEW i \in 1 .. k
      PROVE  lens[i] \in Nat /\ lens[i] <= 6 * NameMax
  <2>1. PICK room \in Nat : NameMax <= room /\ text[i] = Copied(names[i], room)
    BY <1>2
  <2>2. names[i] \in Names
    BY DEF k
  <2>3. lens[i] = Printed(Shown(text[i]))
    BY <1>2
  <2>. QED  BY <2>1, <2>2, <2>3, NameFits
<1>6. 1 \in 1 .. k => lens[1] \in Nat /\ lens[1] <= 6 * NameMax
  BY <1>5
<1>7. 2 \in 1 .. k => lens[2] \in Nat /\ lens[2] <= 6 * NameMax
  BY <1>5
<1>. HIDE DEF lens, shown
<1>8. Total(lens) \in Nat /\ Total(lens) <= 12 * NameMax
  BY <1>3, <1>4, <1>6, <1>7 DEF Total
<1>9. ecs => Total(lens) <= 6 * NameMax
  <2>1. ecs => 2 \notin DOMAIN lens
    BY <1>1, <1>4
  <2>. QED  BY <1>3, <1>4, <1>6, <2>1 DEF Total
<1>10. Length(shown, rest) = rest + Total(lens) * (IF ecs THEN 2 ELSE 1)
  BY DEF Length, lens
<1>11. Length(shown, rest) <= LineMax
  <2>1. CASE ecs
    BY <1>3, <1>8, <1>9, <1>10, <2>1
  <2>2. CASE ~ecs
    BY <1>3, <1>8, <1>10, <2>2
  <2>. QED  BY <2>1, <2>2
<1>. QED  BY <1>11 DEF shown, text

(* What a record is printed as.                                            *)
LEMMA EventFields ==
  ASSUME NEW r, NEW rest, NEW shown, shown = [i \in DOMAIN r.text |-> Shown(r.text[i])]
  PROVE  /\ EventLine(r, rest).shown = shown
         /\ EventLine(r, rest).breaks =
              LineBreaks(shown) + (IF Fits(Length(shown, rest)) THEN 1 ELSE 0)
  BY DEF EventLine

LEMMA WholeObjects ==
  ASSUME OutputInv
  PROVE  OneObjectPerLine
<1>. SUFFICES ASSUME line # Nothing, env.json \/ env.ecs
              PROVE  /\ line.format = IF env.ecs THEN "ecs" ELSE "json"
                     /\ \/ line.breaks = 1
                        \/ line.kind = "event" /\ line.call.f = "rename" /\ env.ecs
  BY DEF OneObjectPerLine
<1>1. line.format = IF env.ecs THEN "ecs" ELSE "json"
  BY DEF OutputInv, LineInv
<1>2. CASE line.kind \in {"note", "banner"}
  <2>1. line.breaks = 1
    BY <1>2 DEF OutputInv, LineInv
  <2>. QED  BY <1>1, <2>1
<1>3. CASE line.kind = "event"
  <2>1. CASE line.call.f = "rename" /\ env.ecs
    BY <1>1, <1>3, <2>1
  <2>2. CASE ~(line.call.f = "rename" /\ env.ecs)
    <3>1. PICK rest \in Rest : line = EventLine(Record(line.call, FALSE), rest)
      BY <1>3 DEF OutputInv, LineInv
    <3>2. OfProgram(Record(line.call, FALSE)) /\ reader
      BY <1>3 DEF OutputInv, LineInv
    <3>3. PICK c : c = line.call
      OBVIOUS
    <3>4. Record(c, FALSE).call = c /\ Record(c, FALSE).text = FillStrings(c.names)
      BY DEF Record
    <3>5. PICK f \in DOMAIN Arity : \E names \in [1 .. Arity[f] -> Names] : c = Call(f, names)
      BY <3>2, <3>3, <3>4 DEF OfProgram
    <3>5a. PICK names \in [1 .. Arity[f] -> Names] : c = Call(f, names)
      BY <3>5
    <3>6. c.f = f /\ c.names = names
      BY <3>5a DEF Call
    <3>7. Format # "text" /\ ecs \in BOOLEAN /\ (~ecs \/ f # "rename")
      BY <2>2, <3>2, <3>3, <3>6, EnvFacts DEF OutputInv, TypeOK, StageInv, Flagged, Format
    <3>. DEFINE text == FillStrings(names)
                shown == [i \in DOMAIN text |-> Shown(text[i])]
    <3>8. Fits(Length(shown, rest))
      BY <3>7, LineFits DEF Fits
    <3>9. LineBreaks(shown) = 0
      BY <3>7 DEF LineBreaks
    <3>10. line.breaks = LineBreaks(shown) + (IF Fits(Length(shown, rest)) THEN 1 ELSE 0)
      <4>1. PICK r : r = Record(c, FALSE)
        OBVIOUS
      <4>2. line = EventLine(r, rest) /\ r.text = text
        BY <3>1, <3>3, <3>4, <3>6, <4>1
      <4>3. shown = [i \in DOMAIN r.text |-> Shown(r.text[i])]
        BY <4>2
      <4>. HIDE DEF text, shown
      <4>. QED  BY <4>2, <4>3, EventFields
    <3>. QED  BY <1>1, <3>8, <3>9, <3>10
  <2>. QED  BY <2>1, <2>2
<1>. QED  BY <1>2, <1>3 DEF OutputInv, TypeOK

(* A name within the limit is in the slot as it was passed.                *)
LEMMA WholeNames ==
  ASSUME OutputInv
  PROVE  NamesKept
<1>. SUFFICES ASSUME line.kind = "event", NEW j \in DOMAIN line.call.names,
                     Utf8(line.call.names[j]), line.call.names[j].len <= NameMax
              PROVE  line.shown[j] = line.call.names[j]
  BY DEF NamesKept
<1>1. PICK rest \in Rest : line = EventLine(Record(line.call, FALSE), rest)
  BY DEF OutputInv, LineInv
<1>2. OfProgram(Record(line.call, FALSE))
  BY DEF OutputInv, LineInv
<1>3. PICK c : c = line.call
  OBVIOUS
<1>4. Record(c, FALSE).call = c /\ Record(c, FALSE).text = FillStrings(c.names)
  BY DEF Record
<1>5. PICK f \in DOMAIN Arity : \E names \in [1 .. Arity[f] -> Names] : c = Call(f, names)
  BY <1>2, <1>3, <1>4 DEF OfProgram
<1>5a. PICK names \in [1 .. Arity[f] -> Names] : c = Call(f, names)
  BY <1>5
<1>6. c.f = f /\ c.names = names
  BY <1>5a DEF Call
<1>7. j \in 1 .. Arity[f] /\ names[j] \in Names
  BY <1>3, <1>6
<1>8. PICK room \in Nat : NameMax <= room /\ FillStrings(names)[j] = Copied(names[j], room)
  BY <1>7, ArityType, Text
<1>9. Copied(names[j], room) = names[j]
  BY <1>3, <1>6, <1>7, <1>8, CopiedName
<1>10. line.shown[j] = Shown(FillStrings(names)[j])
  <2>1. DOMAIN FillStrings(names) = 1 .. Arity[f]
    BY ArityType, Text
  <2>2. line.shown = [n \in DOMAIN FillStrings(names) |-> Shown(FillStrings(names)[n])]
    <3>1. PICK r : r = Record(c, FALSE)
      OBVIOUS
    <3>2. line = EventLine(r, rest) /\ r.text = FillStrings(names)
      BY <1>1, <1>3, <1>4, <1>6, <3>1
    <3>. DEFINE shown == [n \in DOMAIN FillStrings(names) |-> Shown(FillStrings(names)[n])]
    <3>3. shown = [i \in DOMAIN r.text |-> Shown(r.text[i])]
      BY <3>2
    <3>4. line.shown = shown
      <4>. HIDE DEF shown
      <4>. QED  BY <3>2, <3>3, EventFields
    <3>. QED  BY <3>4
  <2>. QED  BY <1>7, <2>1, <2>2
<1>. QED  BY <1>3, <1>6, <1>8, <1>9, <1>10 DEF Shown

-----------------------------------------------------------------------------
(* The theorems.                                                           *)

LEMMA OutputInit ==
  ASSUME Init
  PROVE  OutputInv
<1>. USE DEF Init
<1>1. TypeOK
  <2>1. pc \in ToSet(Order)
    <3>1. 1 \in DOMAIN Order /\ Order[1] = "swap"
      BY DEF Order
    <3>. QED  BY <3>1 DEF ToSet
  <2>. QED  BY <2>1 DEF TypeOK
<1>2. SlotsHold
  <2>1. ring = <<>> /\ ToSet(ring) = {} /\ Len(ring) = 0 /\ ring \in Seq({})
    BY DEF ToSet
  <2>. QED  BY <2>1, OutputAssumption DEF SlotsHold
<1>3. StageInv
  <2>1. ~Opened /\ ~Filtered /\ ~Flagged /\ pc \notin {"reader", "done"} /\ pc # "done"
    BY DEF Opened, Filtered, Flagged
  <2>2. ~mapped /\ ~reader /\ ~json /\ ~ecs /\ ~swapped
    OBVIOUS
  <2>3. mapped = FALSE /\ reader = FALSE /\ json = FALSE /\ ecs = FALSE
    OBVIOUS
  <2>4. (pc \in {"reader", "done"}) = FALSE /\ (pc = "done") = FALSE
    BY <2>1
  <2>5. (Flagged /\ env.json) = FALSE /\ (Flagged /\ env.ecs) = FALSE
    BY <2>1
  <2>6. /\ ~Opened => line = Nothing /\ log_fd = "stderr"
        /\ mask = IF Filtered /\ env.filter # Unset THEN env.filter \cap Traceable ELSE Traceable
    BY <2>1
  <2>. QED  BY <2>1, <2>2, <2>3, <2>4, <2>5, <2>6 DEF StageInv
<1>4. AppInv /\ RingInv /\ LineInv
  BY DEF AppInv, RingInv, LineInv, ToSet, Nothing
<1>. QED  BY <1>1, <1>2, <1>3, <1>4 DEF OutputInv

LEMMA OutputNext ==
  ASSUME OutputInv, [Next]_vars
  PROVE  OutputInv'
<1>1. CASE Constructor
  BY <1>1, ConstructorStep
<1>2. ASSUME NEW f \in {"open", "rename", "write", "mtdi_log"}, EnterHandler(f)
      PROVE  OutputInv'
  BY <1>2, EnterStep
<1>3. ASSUME app # Idle, NEW names \in [1 .. Arity[app.f] -> Names], LeaveHandler(names)
      PROVE  OutputInv'
  BY <1>3, LeaveStep
<1>4. ASSUME NEW rest \in Rest, PrintRecord(rest)
      PROVE  OutputInv'
  BY <1>4, PrintStep
<1>5. CASE UNCHANGED vars
  <2>1. UNCHANGED <<env, swapped, log_fd, mask, json, ecs, mapped, reader, pc, ring, app, line>>
    BY <1>5 DEF vars, setup
  <2>2. TypeOK' /\ SlotsHold' /\ AppInv'
    BY <2>1 DEF OutputInv, TypeOK, SlotsHold, AppInv, Wanted
  <2>3. StageInv'
    BY <2>1 DEF OutputInv, StageInv, Opened, Filtered, Flagged, Destination
  <2>4. RingInv'
    BY <2>1 DEF OutputInv, RingInv, OfProgram, Wanted, Record
  <2>5. LineInv'
    BY <2>1 DEF OutputInv, LineInv, OfProgram, Wanted, Record, Destination,
                EventLine, Format, Length, LineBreaks, Printed
  <2>. QED  BY <2>2, <2>3, <2>4, <2>5 DEF OutputInv
<1>. QED  BY <1>1, <1>2, <1>3, <1>4, <1>5 DEF Next

(* The constructor's progress, the environment, the records under way and  *)
(* the last line stay in step (lib.rs:137-336).                            *)
THEOREM OutputInvariant == Spec => []OutputInv
<1>. QED  BY OutputInit, OutputNext, PTL DEF Spec

(* What the constructor opens, writes and maps itself is never taken for a *)
(* call of the program (lib.rs:137-268).                                   *)
THEOREM OwnCallsStayOut == Spec => []OwnCallsUntraced
<1>1. OutputInv => OwnCallsUntraced
  <2>1. ASSUME OutputInv, NEW r \in ToSet(ring) PROVE ~r.own
    <3>1. r = Record(r.call, FALSE)
      BY <2>1 DEF OutputInv, RingInv, OfProgram
    <3>. QED  BY <3>1 DEF Record
  <2>. QED  BY <2>1 DEF OwnCallsUntraced
<1>. QED  BY <1>1, OutputInvariant, PTL

(* Only calls MTDI_FILTER names, and the target's own messages, are        *)
(* printed, also while the filter is being read (lib.rs:192-228, 471-484). *)
THEOREM FilterIsKept == Spec => []Selected
<1>1. OutputInv => Selected
  <2>. SUFFICES ASSUME OutputInv, line.kind = "event" PROVE Wanted(line.call.f)
    BY DEF Selected, Wanted
  <2>1. OfProgram(Record(line.call, FALSE))
    BY DEF OutputInv, LineInv
  <2>2. Record(line.call, FALSE).call = line.call
    BY DEF Record
  <2>. QED  BY <2>1, <2>2 DEF OfProgram
<1>. QED  BY <1>1, OutputInvariant, PTL

(* Every line goes where the environment sends the log (lib.rs:150-190).   *)
THEOREM LogGoesRight == Spec => []RightLog
<1>1. OutputInv => RightLog
  BY DEF OutputInv, LineInv, RightLog
<1>. QED  BY <1>1, OutputInvariant, PTL

(* A line in JSON or ECS is one whole object, whatever bytes are in the    *)
(* names, for every slot and buffer in the proportions of the code's       *)
(* (lib.rs:297-331, 370-386); the rename in ECS is the exception.          *)
THEOREM LinesAreWhole == Spec => []OneObjectPerLine
<1>. QED  BY WholeObjects, OutputInvariant, PTL

(* A UTF-8 name within NameMax bytes is printed as it was passed, whatever *)
(* the other name is (lib.rs:37-46, 430-447).                              *)
THEOREM NamesArePrinted == Spec => []NamesKept
<1>. QED  BY WholeNames, OutputInvariant, PTL
=============================================================================
