---------------------------- MODULE ProbeCompiler ----------------------------
(***************************************************************************)
(* compile_script (src/src/script/compiler.rs): several mtdi processes     *)
(* turn a probe's source into a dylib.  The files they write are named     *)
(* after a hash of the source and lie in /tmp, so two runs of one probe    *)
(* share them; whoever edits the probe meanwhile is part of the module.    *)
(* rustc, which reads one file and writes the other, is modelled by that.  *)
(***************************************************************************)
CONSTANTS
  Runs,     \* mtdi processes that compile the probe
  Texts,    \* what the probe may say
  Safe      \* those that the verifier accepts

VARIABLES
  legacy,   \* legacy[r]: was -u given?
  script,   \* what the probe's file says now
  at,       \* at[r]: where compile_script is, "ok" or "err" once it returned
  code,     \* code[r]: user_code
  unit,     \* unit[r]: what rustc read
  wrapper,  \* wrapper[k]: /tmp/mtdis_wrap_k.rs
  lib,      \* lib[k]: /tmp/mtdis_lib_k.dylib
  got       \* got[r]: what dyld loaded for the run

vars == <<legacy, script, at, code, unit, wrapper, lib, got>>

(* The contents of a file: nothing yet, an empty or half-written file, or  *)
(* the harness around a text, compiled with -u or without.                 *)
None  == <<>>
Empty == <<"empty">>
Part  == <<"part">>
Harness(text, l) == <<text, l>>
Harnesses == Texts \X BOOLEAN

Init ==
  /\ legacy \in [Runs -> BOOLEAN]
  /\ script \in Texts
  /\ at = [r \in Runs |-> "read"]
  /\ code \in [Runs -> {script}]
  /\ unit = [r \in Runs |-> None]
  /\ wrapper = [k \in Texts |-> None] /\ lib = [k \in Texts |-> None]
  /\ got = [r \in Runs |-> None]

At(r, s) == at[r] = s

Goto(r, s) == at' = [at EXCEPT ![r] = s]

(* Someone saves another version of the probe.                             *)
Edit ==
  /\ script' \in Texts \ {script}
  /\ UNCHANGED <<legacy, at, code, unit, wrapper, lib, got>>

(* The file is read once; what is verified and compiled is what was read.  *)
Read(r) ==
  /\ At(r, "read")
  /\ code' = [code EXCEPT ![r] = script] /\ Goto(r, "verify")
  /\ UNCHANGED <<legacy, script, unit, wrapper, lib, got>>

(* The probe is not there or cannot be read, a write or rustc fails.       *)
Fail(r) ==
  /\ at[r] \in {"read", "write", "fill", "rustc", "link"}
  /\ Goto(r, "err")
  /\ UNCHANGED <<legacy, script, code, unit, wrapper, lib, got>>

(* -u skips the verifier.                                                  *)
Verify(r) ==
  /\ At(r, "verify")
  /\ Goto(r, IF legacy[r] \/ code[r] \in Safe THEN "write" ELSE "err")
  /\ UNCHANGED <<legacy, script, code, unit, wrapper, lib, got>>

(* Mutant: the files are named after the probe's file, not its contents.   *)
Key_OneFile(r) == CHOOSE k \in Texts : TRUE

(* code_hash: of the source alone, whatever the options.                   *)
Key(r) == code[r]

(* fs::write truncates the file, then fills it.                            *)
Truncate(r) ==
  /\ At(r, "write")
  /\ wrapper' = [wrapper EXCEPT ![Key(r)] = Empty] /\ Goto(r, "fill")
  /\ UNCHANGED <<legacy, script, code, unit, lib, got>>

Fill(r) ==
  /\ At(r, "fill")
  /\ wrapper' = [wrapper EXCEPT ![Key(r)] = Harness(code[r], legacy[r])]
  /\ Goto(r, "rustc")
  /\ UNCHANGED <<legacy, script, code, unit, lib, got>>

(* rustc reads the wrapper, which another run may have just truncated.     *)
RustcReads(r) ==
  /\ At(r, "rustc")
  /\ unit' = [unit EXCEPT ![r] = wrapper[Key(r)]] /\ Goto(r, "link")
  /\ UNCHANGED <<legacy, script, code, wrapper, lib, got>>

RustcLinks(r) ==
  /\ At(r, "link")
  /\ lib' = [lib EXCEPT ![Key(r)] = Part] /\ Goto(r, "linking")
  /\ UNCHANGED <<legacy, script, code, unit, wrapper, got>>

RustcEnds(r) ==
  /\ At(r, "linking")
  /\ lib' = [lib EXCEPT ![Key(r)] = unit[r]] /\ Goto(r, "ok")
  /\ UNCHANGED <<legacy, script, code, unit, wrapper, got>>

(* dyld maps the dylib into the target, unless a run is writing it.        *)
Load(r) ==
  /\ At(r, "ok") /\ lib[Key(r)] # Part
  /\ got' = [got EXCEPT ![r] = lib[Key(r)]]
  /\ UNCHANGED <<legacy, script, at, code, unit, wrapper, lib>>

Step(r) ==
  \/ Read(r) \/ Fail(r) \/ Verify(r) \/ Truncate(r) \/ Fill(r)
  \/ RustcReads(r) \/ RustcLinks(r) \/ RustcEnds(r)

-----------------------------------------------------------------------------
TypeOK ==
  /\ legacy \in [Runs -> BOOLEAN] /\ script \in Texts
  /\ at \in [Runs -> {"read", "verify", "write", "fill", "rustc", "link", "linking",
                      "ok", "err"}]
  /\ code \in [Runs -> Texts]
  /\ \A r \in Runs : unit[r] \in {None, Empty} \cup Harnesses
  /\ \A k \in Texts : wrapper[k] \in {None, Empty} \cup Harnesses
  /\ \A k \in Texts : lib[k] \in {None, Empty, Part} \cup Harnesses
  /\ \A r \in Runs : got[r] \in {None, Empty} \cup Harnesses

(* The inductive invariant.  Every file and everything read from one holds *)
(* the text it is named after, or no text at all; and a run that was not   *)
(* given -u gets past the verifier with a safe text only.                  *)
FilesInv ==
  /\ unit \in [Runs -> {None, Empty} \cup Harnesses]
  /\ wrapper \in [Texts -> {None, Empty} \cup Harnesses]
  /\ lib \in [Texts -> {None, Empty, Part} \cup Harnesses]
  /\ got \in [Runs -> {None, Empty} \cup Harnesses]
  /\ \A k \in Texts : wrapper[k] \in Harnesses => wrapper[k][1] = k
  /\ \A k \in Texts : lib[k] \in Harnesses => lib[k][1] = k

RunInv(r) ==
  /\ unit[r] \in Harnesses => unit[r][1] = code[r] /\ at[r] # "read"
  /\ got[r] \in Harnesses => got[r][1] = code[r] /\ at[r] = "ok"
  /\ at[r] \in {"write", "fill", "rustc", "link", "linking", "ok"} =>
       legacy[r] \/ code[r] \in Safe

CompilerInv == TypeOK /\ FilesInv /\ \A r \in Runs : RunInv(r)

(* A run without -u puts no text into the target that the verifier would   *)
(* reject, although another run, with -u or of an edited probe, may write  *)
(* the same files meanwhile and after (compiler.rs:62-124).                *)
RunsVerified ==
  \A r \in Runs : got[r] \in Harnesses /\ ~legacy[r] => got[r][1] \in Safe
=============================================================================
