# Verification project for mtdi

`mtdi` injects a dylib into a macOS process, overwrites the prologues of libc
functions with jumps to its own handlers, and traces the calls through
lock-free per-thread rings that a reader thread formats and writes; with `-s`
it compiles a probe in Rust into a dylib that hooks functions of the user's
choice. This directory holds TLA+ models of its parts, the TLC configurations
that check them, and TLAPS proofs, for every value of the constants, of nearly
all their safety properties. All paths below are relative to the repository.

## 1. Inventory

| component | state | operations | what must hold |
|---|---|---|---|
| **Event ring** `src/lib.rs` | 128 `ThreadQueue`s (slots with a `ready` flag, `write_head`), `ACTIVE_QUEUES`, `THREAD_KEY`, the reader's cursors, `READER_WRITING`, `SHUTDOWN`, `READER_DONE` | `push_binary_event`, the reader's passes, `flush_on_exit`, `handle_terminate`, `my_write`, `my_fork`, `my_execve`, `my_exit`, `mtdi_log` | one queue per thread, no slot filled while it is formatted, whole records in order, the reader never traces itself, hooked calls never wait, dying ends within its budget |
| **Hook installer** `src/hook/{mod,manager}.rs`, `trampoline/{allocator,builder}.rs`, `install!` | `HOOKS`, `PROBED_PAGES`, `TRAMPOLINE_OFFSET`, page protections, the code of each function, the `TRAMP_*` statics | `install_hook`, `probe_page`, `build_trampoline`, `overwrite_with_jump` | table and code agree, sealed pages are never written, trampolines re-execute original bytes, nobody runs a page that is not executable |
| **Full-context thunk** `trampoline/thunk.rs` | registers on the stack, `HOOKS` | `hook_dispatcher` | the handler found is the one installed; no deadlock on the table |
| **Relocator and classifier** `trampoline/{relocator,disasm,builder}.rs`, and their copy in `script/compiler.rs` | none (pure) | `is_pc_relative`, `relocate_instruction`, trampoline, stub, jump | a hooked function does what it did |
| **Start-up** `lib.rs` constructor | environment switches, `LOG_FD`, `FILTER_MASK`, `JSON_OUTPUT`, `ECS_OUTPUT`, `USER_ON_OPEN`, `THREAD_QUEUES` | constructor, `mtdi_log`, `MTDI_SWAP_DYLIB` | the tool's own calls are not traced, nothing reaches a log, in a format or through a filter not asked for |
| **Record formatting** `lib.rs` `fmt_*`, `JsonEscape` | a slot's 1024 bytes of text, the reader's 8192 | 26 formatters | names are kept, a line is one whole object |
| **Injector** `src/injector/mach.rs` | a remote allocation (path, markers, ack, error word), the stub page, a raw thread and the pthread it creates | `inject_into_pid` | through the bootstrap the target is unharmed; what is reported is what happened |
| **Command line session** `src/main.rs`, `src/cli` | parsed arguments, `CHILD_PID`, the signal handlers | `main`, `spawn_target`, `handle_signal` | status 0 says what was done; the program is not left behind |
| **Probe compiler and verifier** `src/script` | files under `/tmp`, the AST | `compile_script`, the verifier's rules | what a safe run loads was verified, whatever other runs write |
| **Probe harness** (generated dylib, text in `script/compiler.rs`), probes such as `probes/probe_bughunt.rs` | `HOOKS` under a mutex, `HOOK_DEPTH` per thread; `CREATING`, `LOG`, `EVENTS` and the counts of the probe | `mtdis_init`, `raw_install_hook`, `hook_dispatcher`, the handlers, `log_line` | handlers do not nest, no call is missed, nobody waits for its own mutex, the log is right |
| **MCP server** `src/mcp_server.py` | trace files, child processes | `trace_process`, `launch_with_dyld`, query tools | a timed-out trace leaves nothing running |
| **Benchmarks, examples** | none the tool depends on | | |

How they interact. The session chooses a dylib and either spawns the program
with `DYLD_INSERT_LIBRARIES` (launch mode) or calls the injector (attach mode).
In both cases the dylib's constructor runs the `install!` list, reads its
environment, maps the rings, starts the reader and registers `flush_on_exit`;
the components share the program's address space, and every handler is called on
whatever thread of the program calls the function. The reader writes through
the *hooked* `write`; the installer forks and writes through the *hooked*
`fork` and `write`. On a signal the session forwards SIGTERM, which
`handle_terminate` turns into a drain.

What is hard here: the reader and the producers share one flag per slot and
nothing else; the claim of a queue is a compare-exchange race; the program may
exit, fork, exec or be terminated at any point of a handler; hooks become live
one memory write at a time while (in attach mode) other threads run; the
injector learns what a remote thread did by polling words that the thread
stores one by one; a probe's handlers call the functions they hook; two runs
of one probe share its files under `/tmp`; pc-relative offsets of four widths
are taken apart by masks, twice. `PROJECT.json` lists these hazards at their
lines.

## 2. Modules

| module | models | abstracted |
|---|---|---|
| `EventRing` | handlers, rings, reader, exit/SIGTERM drain, fork, execve | arguments and text: a record is a head and a string part that are stored by two separate steps and must match |
| `LossyTrace` | the abstract promise: a bounded FIFO per queue; events may be refused, never duplicated, reordered or invented | |
| `TraceOutput` | the constructor after the hooks, slots, lines and the log | the rings are one bounded queue; a name is a class of characters and a length, the rest of a line a length |
| `HookInstall` | the `install!` list, probe and cache, allocator, builder, code overwrite, table, in both modes, with the program's threads | the first 16 bytes of a function are "original" or "jump"; relocation is a length per function |
| `Relocator` | classifier, relocator, trampoline, stub, jump, of the engine and of the harness | the values computed are symbols; a test has the same outcome whenever it is made |
| `Arm64` | the processor, as far as `Relocator` runs it (external) | a word is its top byte and the other 24 bits |
| `ProbeHarness` | `mtdis_init`, dispatcher, recursion guard, handlers that log | code is live from one step to the next; one path |
| `Session` | argument combinations, mode choice, spawn, `CHILD_PID`, signals, Ctrl-C | compile, verify, codesign and injection are each a choice of succeeding or failing |
| `ProbeCompiler` | `compile_script` of several runs, the shared files, an editor | what the verifier forbids is the set `Safe` |
| `Injector` | `inject_into_pid`, bootstrap stub, the two remote threads, overlap of path and scratch words | addresses; words are named by what they hold |
| `Tool` | `Session`, `ProbeCompiler` and `Injector` composed | |
| `MC*` | constants for TLC | |
| `EventRingProofs`, `NestingProofs`, `LineProofs` | TLAPS proofs about `EventRing`: without nested handlers, with any number of them, and the refinement of `LossyTrace` | |
| `TraceOutputProofs`, `HookInstallProofs`, `RelocatorProofs`, `ProbeHarnessProofs`, `ToolProofs` | TLAPS proofs about the module they are named after (`ToolProofs`: about the three parts and their composition) | |

### EventRing

One action per step another thread can observe. `frame[t]` is the handler
running on task `t`: its `pc`, the call, the record, `q_ptr`, `slot_idx`. The
path of `push_binary_event` (lib.rs:397-451) is `GetQueue` (pthread_getspecific),
`LoadActive`/`NoQueueLeft`, `ClaimQueue`/`ClaimFails` (the weak
compare-exchange, which may fail for no reason), `BindQueue`
(pthread_setspecific), `LoadHead`, `DropFull`/`SlotFree`, `FillHead`,
`FillStrings`, `Advance`, `Publish`. The reader's loop (lib.rs:268-352) is
`StartPass`, `TakeSlot`/`NextQueue`/`EndPass`, `Format`, `SetGuard`,
`CallWrite` (it enters `my_write` itself, as an ordinary frame on the reader
task), `Emit`, `ClearGuard`, `Release`, then `Sleep` or `Finish`.
`flush_on_exit` and `handle_terminate` are `RunAtExit`/`Terminate`,
`FlushInChild`, `RequestDrain`, `Poll`, `Die`. `ForkChild` continues as the
child: a copy of memory in which only the forking thread is left. An
application signal handler that makes a hooked call is `Interrupt`/`Resume`,
nested at most `MaxNest` deep. The publishing store is a release and the
reader's load an acquire, as is the release of the slot, so sequentially
consistent interleavings are the ones the code can show for what the flag
guards; both cursors are used by one thread only and are kept reduced modulo
the ring, as every use of them is masked.

`LossyTrace` is refined by mapping `pending[q]` to `Waiting[q]`: what the slots
from the reader's cursor up to the first unpublished one hold (`Unreleased`,
`Contents`), less the one that was written but not yet released (`Emitted`);
and `written` to the last record that reached `LOG_FD` with its queue.

### HookInstall

`pc` follows one `install!` call: `Lock`, `CheckDuplicate`,
`ProbeCached`/`ProbePage`, `OpenTrampoline`, `FillTrampoline`, for full-context
hooks `OpenStub`, `FillStub`, then the second probe inside
`overwrite_with_jump`, `Unprotect`/`UnprotectFails`, `WriteJump`, `Protect`,
`Insert`, `Store`; refusals go to `Skip`, which writes a line through the
possibly hooked `write`. `ProbePage` and `Skip` require that the installer
really gets through the functions it calls (`Reaches`). A trampoline is an interval of the
shared page with what was written there, so an overlap or a build from an
already overwritten prologue shows. In attach mode the program's threads call
the functions throughout; in launch mode only after the list.
The `install!` macro never asks for `FullContext`; the public `install_hook`
does, and the run includes one such function because it exercises the two
allocations per hook and the dispatcher's lock.

### TraceOutput

The constructor's steps follow `Order`: `LoadSwap`, `OpenOutput`, `WriteNotes`,
`ParseFilter`, `SetFlags`, `WriteBanner`, `MapRings`, `StartReader`, each with
the hooked calls it makes itself (`OwnCall`). `env` is the environment that
`spawn_target` builds, or that of an attached target, which has no `MTDI_*`
variable. In an attached target threads make hooked calls throughout:
`EnterHandler` is the test of the filter (and of `USER_ON_OPEN`),
`LeaveHandler` the push, with the constructor going on between the two. A name
is cut by `Copied`, replaced by `Shown` if it is not UTF-8, widened by
`Printed`, and lost to the buffer's end by `Fits`.

### Relocator and Arm64

A behaviour chooses a builder, four instruction words, where the stub lies and
the outcome of tests; runs the stolen words on one core; builds trampoline,
stub and jump as segments of memory; and runs the function on a second core
through them. `Arm64` interprets the words in both runs by the architecture's
own description of the encodings (sets of top bytes, signed fields), which
shares nothing with the masks and shifts of `relocate_instruction`.
What a run leaves (`Effect`) is the sequence of tests, calls and other
instructions with the values they used, the registers other than x16 and x17
(which the linker's own stubs may change between functions) and where it left.
An instruction that does not depend on the pc is copied whole, so it is only
noted in the log; loads, `adr`, branches and returns are executed. Memory that
the program came with (`Own`) is told apart from what the hook wrote: a literal
read from the prologue's own words is the same value in both runs.
`LayoutAssumption` and `FreshAssumption` say what an allocator gives: trampoline,
stub and thunk lie apart from the function, from each other, and from every
address that the prologue names.

### ProbeHarness

A thread is a stack of calls, at most two deep, because handlers call hooked
functions: `LockTable`, `Find`, `Guard`, the handler, `Leave`, `Original`.
`mtdis_init` is `Resolve`, `PatchJump`, `LockToInsert`, `Insert`, on the
loader's thread. Handlers are of three kinds, after `probe_bughunt.rs`: those
that count and log each time (`on_open`), count and log seldom (`on_stat`), and
only log; `log_line` is `TakeEvent`, `SwapCreating`, `CheckFile`, `StoreFile`,
`WriteLine`, `ClearCreating`, and its `open` and `write` are hooked calls of
their own. A panic is caught under `-u` and kills the process otherwise.

### Session, ProbeCompiler, Injector and Tool

`Session`: one action per decision of `main` and per step of `spawn_target`,
the child, and a signal (to mtdi alone, or Ctrl-C to the group) at every point.
An argument of `-p` that is no number ends mtdi by a panic, with status 101.
The flag `-h` is left out. What `Session` leaves to others is in `Delegated`.
`ProbeCompiler`: `Read`, `Verify`, `Truncate` and `Fill` (`fs::write`),
`RustcReads`, `RustcLinks`, `RustcEnds`, or `Fail`; the files are named by
`Key`, the hash of the text, so runs of one text share them; `Edit` is the
user's editor and `Load` dyld.
`Injector`: the tool's steps are `Attach` ... `Return`, with `Fail` for every
exit(1) on the way; the target's are `Enter` (raw thread on the stub), `Start`
(marker `R`), `DlOpen`, `Acknowledge`, `StoreError` and `StoreDone` (marker
`D`) on the pthread, and its death at any point. Without a bootstrap the raw
thread begins in dlopen itself: there it faults (`RawFaults`, as dyld4's does
without TLS), or gets through (`RawDlOpen`, before dyld4) and faults in
pthread_exit, as mach.rs:102-104 and 117-118 say. `length` is the length of the
path, which begins at offset 0 of the allocation that holds the markers at
0x100, a timespec at 0x110 (`nap` says whether it is the second it should be)
and the ack at 0x160. A parked thread calls nanosleep again and again; whether
the system call 34 of mach.rs:138 is nanosleep is taken from its comment.
dlerror's answer is read in two steps, `ReadErrorWord` and `ReadText`, of which
the second may fail although the target lives: it reads 256 bytes from wherever
the text is.
`Tool` runs the three: `Compile` takes the compiler's steps until it returns,
which is `S!Resolve` or `S!ProbeRejected`; `Inject` takes the injector's, whose
end is `S!Inject`; a signal may end mtdi between any two of them, and the
target goes on. `Others` is a second mtdi with the same probe, and the editor.
`ImplementsSession` states that the composition does nothing `Session` forbids.

## 3. Runs

| run | instance | shows |
|---|---|---|
| `ring_order` | 1 thread, 1 queue of 3 slots, batch 2, 2 payloads; calls that are filtered out, traced and internal | `LineInv`, which `LineProofs` proves inductive; whole records, drop only when every slot is published, the refinement of `LossyTrace`; hooked calls return with no assumption on the reader |
| `ring_nested` | 1 thread that comes and goes, forks and exits, the reader, 2 queues, nested handlers | `NestInv`, which `NestingProofs` proves inductive; queues belong to one thread; the reader's own write is never traced |
| `ring_flood` | 2 threads that come and go, 2 queues of 1 slot, batch 1 | producer and reader are never in one slot; with a scheduled reader every published record is written, even if the other queue is always full |
| `ring_exit` | 2 threads, 1 queue of one slot, exit, SIGTERM, fork, execve | a forked child never polls; a flushing process dies |
| `output` | the code's sizes, names at and beyond them, every environment | `OutputInv`; own calls are not traced; only the selected functions are; every line goes to the right log; one whole object per line in JSON and ECS; names are kept |
| `hook_install` | 5 functions on 3 pages (one sealed), 7 `install!` calls with duplicates, cache of 2, trampoline page of 232 bytes, 2 threads, both modes | `HookInv` and the four safety properties; the list is worked through or the process has died |
| `relocate` | each class of instruction at both ends of its offset, in each place, alone and beside another that moves; every top byte; near and far stubs | `RelocatorInv`, with it that the engine's panic is unreachable; a hooked function does what it did; every pc-relative encoding is moved and no other word is |
| `harness` | 2 threads, 5 registrations (one unknown, one sealed), handlers that log and may panic under `-u`, cap of 2 events, 3 calls | `HarnessInv`: handlers do not nest and the guard is set exactly while one runs; no missed call, a faithful log; every call returns |
| `tool` | every option combination MCTool does not leave out as alike, paths of 255 to 257, 280, 281, 352, 353 and 369 bytes, with and without a bootstrap, 2 polls, a probe with a version the verifier rejects | `ToolInv`; what status 0 means (`SuccessAccounted`); a handled signal reaches the program; through the bootstrap the target is unharmed; "loaded" is true of paths short of the ack, failures have their reason; a safe run loads nothing unverified; `mtdi -p` ends once its prompt is answered; the composition refines `Session` |
| `ring_tail` | one call, then exit | *violation* of `DoneMeansDrained` |
| `hook_null` | attach mode, 2 hooks | *violation* of `HandlersForward` |
| `relocate_call` | a `bl` among the first four instructions | *violation* of `TrampolineReexecutes` |

The three violations are disagreements between the code and its own text:

* `lib.rs:340-341` says that the atexit drain keeps short-lived processes from
  losing their tail. `READER_DONE` does not imply that: the reader finds a pass
  idle (or has loaded `ACTIVE_QUEUES` before the thread's first call claimed a
  queue), the thread pushes and sets `SHUTDOWN`, the reader then loads
  `SHUTDOWN` and stops (`DoneMeansDrained`).
* `lib.rs:710` says that a detour forwards through its trampoline. The jump is
  live before `install!` stores the trampoline, so in attach mode a thread can
  forward to null (`HandlersForward`).
* `builder.rs:5` says that a trampoline re-executes the stolen instructions and
  branches back. A relocated `bl` returns to the address after the original
  one (`relocator.rs:60`), which for the first three words is inside the jump
  (`TrampolineReexecutes`). The harness has the same code, but with a near stub
  it steals one word only, after which the return address is intact.

Met while modelling, visible in the models with other constants or by reading a
trace, and not given runs of their own:

* With `MaxNest = 1` in `ring_order`, `WholeRecords` and `NoSlotRace` fail:
  `push_binary_event` is not re-entrant, and a signal handler that makes a
  hooked call between the load of `write_head` and its store fills the same
  slot. This is why the theorems about slots and lines assume `MaxNest = 0`;
  those of `NestingProofs` do not.
* `READER_WRITING` is process-wide: an application's `write` during the
  reader's own is not traced (lib.rs:826, 518). `CallWrite` ... `ClearGuard`
  against `SkipTrace`.
* Queues are never handed back (lib.rs:254), so after 128 threads that made a
  traced call no further thread is traced (`NoQueueLeft`, `ReplaceThread`).
* SIGTERM delivered to the reader thread waits out the whole budget and drains
  nothing (lib.rs:545-547): `Terminate(Reader)`. `FlushEnds` still holds.
* In attach mode the code of a function is replaced under threads that may be
  inside it, contrary to the safety comment at `hook/mod.rs:96-97`; this is why
  `NeverFaults` speaks of launch mode.
* A failed `fork` of the page probe is remembered as "not writable" for all
  functions on that page (hook/mod.rs:19, 54-58).
* `SameEffect` leaves out six kinds of prologue (`OutOfReach`): besides a `bl`
  before the last stolen word, a branch to one of the stolen words after the
  first (relocator.rs:76 gives it the old address) and an `adr` or `adrp` of one
  (relocator.rs:27), `b.al` and `b.nv`, whose inverse is not an opposite
  (relocator.rs:79), 16-byte literals, of which eight bytes are copied
  (relocator.rs:142), and words that test or jump to what the caller left in x16
  or x17. Each exclusion is needed: without it TLC finds the run. A loop to the
  function's first word is not excluded; it goes through the hook again. A
  literal is also copied once, when the hook is made.
* x16 and x17 do not survive a hook in the first words of a function: the jump,
  the stub and every relocated branch use them.
* The line of an ECS `rename` of two long names of control characters exceeds
  8192 bytes and is cut without its line break (lib.rs:297), so the next event
  continues it; `OneObjectPerLine` excepts it.
* A name cut at 512 bytes in the middle of a character is printed as
  `<invalid>` as a whole (lib.rs:38, 432); plain text does not escape line
  breaks (lib.rs:461).
* With `MTDI_SWAP_DYLIB` the log is opened through the user's `on_open`
  (lib.rs:154, 471-476); `RightLog` is stated without one.
* While one thread is in `log_line`, the lines of all other threads are dropped
  (probe_bughunt.rs:31): the guard against the log's own `open` is one flag for
  the process. `LogFaithful` says that what is written is right.
* `set_return_val` stores x0 before the function runs, which overwrites it
  (compiler.rs:533), where README.md:132 says that it mutates the return value.
* The engine's dispatcher holds its mutex across the handler (thunk.rs:135): in
  `ProbeHarness` that order is `Find_KeepsLock`, and `CallsReturn` fails with it.
* A safe run may load the `-u` build of its own text, or an empty crate, if
  another run writes the shared files at the wrong moment (compiler.rs:90-96);
  `RunsVerified` says that it is never a text the verifier would reject.
* `mach.rs:330` prints that the dylib did NOT load; `dlopen` may still return
  after the last poll (`loaded` beside a report of failure in `tool`).
* After that warning the exit status is 0 all the same (main.rs:64-76): with
  `-p`, `SuccessAccounted` promises that the outcome was printed and no more.
* `args.rs:142` and `README.md:70` say that `-c` exits without injecting, and
  `README.md:84` that it is rejected in attach mode. `main.rs:55-65` never looks
  at it there: the process is injected. `tool` has such command lines
  (without a probe), and `SuccessAccounted` counts them as injections.
* `README.md:80-83` says that the crash of a raw mach thread in dyld4 is fixed,
  and `mach.rs:117-118` that the raw thread never terminates, because
  pthread_exit crashes. Where dlsym does not find
  `pthread_create_from_mach_thread` the fallback starts a raw thread in dlopen
  with pthread_exit as its return address (`mach.rs:225-231`): it takes one
  crash or the other (`RawFaults`). `TargetUnharmed` is about the bootstrap.
* `mach.rs:254` says that injections "fail loudly, not silently". In the
  fallback nothing is waited for or printed, and the status is 0: the `~Bootstrap`
  of `SuccessAccounted`.
* `mach.rs:153` says of the ack "non-null = loaded". A path of 353 bytes or more
  reaches the ack's word, and its own bytes are read as the handle
  (`mach.rs:80`): mtdi prints "Dylib loaded" although nothing was. The run of
  `tool` has such paths; `LoadedIsLoaded` excepts them and fails without that.
* Paths of 256 bytes or more never load (the marker is stored inside the
  path). Of 281 bytes or more, what follows the seconds in the timespec is the
  path (mach.rs:189-202), and nanosleep may refuse it at once: parked threads
  then spin. `TargetUnharmed` excepts such paths from its second half.
* A signal before the handlers are installed kills mtdi and leaves the program
  running (spawn.rs:108-114); `CHILD_PID` is still set for a moment after
  `wait` (spawn.rs:116-117); Ctrl-C also sends SIGINT to the program itself,
  which may end it before the drain of the forwarded SIGTERM.

### Bounds, and why they are enough

* Ring: the cursors are modular, so three slots give every relative position of
  producer and reader including full, empty and wrapped, and batch 2 < 3 makes
  a pass end inside the queue; two payloads tell a stale record from a fresh
  one. The invariants about several threads need two threads and fewer or as
  many queues; slots interact only with their own queue, so these runs use one.
  `MaxWait = 1` distinguishes "answered in time" from "gave up".
* Output: the sizes are the code's. Names are at the limit, beyond it with the
  widest escape, cut inside a character, with a line break, and not UTF-8; the
  rest of a line is short or longer than any formatter's. One slot is enough,
  as a record is printed without regard to others.
* Hooks: the list contains each situation the installer distinguishes (first
  and second hook on a page, duplicate, sealed page, cached and uncached
  verdict, full cache, full-context hook, last hook that does not fit).
  Two threads suffice because threads interact only through the installer and
  the table's lock. 16 and 112 bytes are the two extremes of a relocated window
  (four words of four bytes; four `bl` of 28).
* Relocator: words are moved one by one, so a window with one or two words of
  interest shows each case and each neighbourhood; offsets are at both ends of
  their field and on both sides of zero. `MaxSteps` is more than the longest
  trampoline.
* Harness: two threads race for each step of `log_line`; `t1` makes two calls,
  so that what a first call leaves behind shows in the second; cap 2 < 3 calls.
* For the properties listed in section 4 the proofs remove these bounds.
* Tool: the options are enumerated but for those that differ only in what is
  not looked at (MCTool says which). The path lengths lie on both sides of the
  markers, of the timespec's nanoseconds, of the ack and beyond the error word;
  two polls give before and after. Two runs suffice for the files, which a step
  reads or replaces as a whole.

### Fairness

* `ReaderSpec`: weak fairness of the reader, a thread the system schedules. No
  fairness of the application.
* `ThreadSpec`: each application thread is scheduled inside the handlers, and
  (strong fairness) a weak compare-exchange that could succeed infinitely often
  does. No fairness of the reader.
* `FlushSpec`: a thread that sleeps between two polls wakes.
* `HookInstall`: the constructor keeps running.
* `ProbeHarness`: the loader and each thread run; weak fairness is enough for
  the mutex, because calls are finitely many.
* `Tool`: mtdi itself keeps running, and so does rustc, but for `Asking`: in
  task_for_pid mtdi "blocks until a human clicks Allow" (mach.rs:44-48), and
  nothing says that somebody does. `Ends` therefore has two halves: `mtdi -p`
  ends or comes to the prompt, and once the prompt is answered it ends. Nothing
  is assumed of that person, the target, the signals, the editor or the second
  mtdi.
* `TraceOutput` and `Relocator` have no liveness property.

## 4. Proofs

Every theorem holds for every value of the constants that satisfies the named
`ASSUME`s of its module; TLC evaluates these in each run. Nothing is assumed
beyond them but `MaxNest = 0` where the table says so. None of the properties
is inductive alone: each module has an invariant that is, made of named parts,
which a run checks (it is the first in the run's list) and from which the
others follow.

| module, assumptions | theorem | property |
|---|---|---|
| `EventRingProofs`: `SizeAssumption`, `NameAssumption`, `ModeAssumption`; `MaxNest = 0` | `RingInvariant` | `RingInv` |
| | `SlotsNeverRace` | `NoSlotRace` |
| | `RecordsStayWhole` | `WholeRecords` |
| `NestingProofs`: the same, every `MaxNest` | `NestInvariant` | `NestInv` |
| | `TypeCorrect` | `TypeOK` |
| | `QueuesStayExclusive` | `QueueExclusive` |
| | `ReaderNeverTraced` | `NoSelfTrace` |
| | `ChildrenNeverWait` | `ChildNeverWaits` |
| `LineProofs`: the same, `MaxNest = 0` | `LineInvariant` | `LineInv` |
| | `DropsOnlyWhenFull` | `DropOnlyWhenFull` (action property) |
| | `LossyTraceImplemented` | `ImplementsLossyTrace` (refinement) |
| `TraceOutputProofs`: `OutputAssumption`, `SizeAssumption` | `OutputInvariant` | `OutputInv` |
| | `OwnCallsStayOut` | `OwnCallsUntraced` |
| | `FilterIsKept` | `Selected` |
| | `LogGoesRight` | `RightLog` |
| | `LinesAreWhole` | `OneObjectPerLine` |
| | `NamesArePrinted` | `NamesKept` |
| `HookInstallProofs`: `PlanAssumption`, `PageAssumption`, `LimitAssumption` | `HookInvariant` | `HookInv` |
| | `LaunchNeverFaults` | `NeverFaults` |
| | `SealedStayUntouched` | `SealedUntouched` |
| | `TableAlwaysMatches` | `TableMatchesCode` |
| | `TrampolinesStayIntact` | `TrampolinesIntact` |
| `RelocatorProofs`: `WindowAssumption`, `StepsAssumption`, `LayoutAssumption`, `FreshAssumption` | `RelocatorInvariant` | `RelocatorInv` |
| | `EveryEncodingMoved` | `MovesWhatItMust` |
| | `HookedDoesTheSame` | `SameEffect` |
| | `MovedWordsDecode`, `TestsAgree`, `NearJumpLands` | (about the operators) |
| `ProbeHarnessProofs`: `HarnessAssumption` | `HarnessInvariant` | `HarnessInv` |
| | `NoCallIsMissed` | `NoneMissed` |
| | `LogStaysFaithful` | `LogFaithful` |
| `ToolProofs`: `ToolAssumption` | `ToolInvariant` | `ToolInv` |
| | `SessionImplemented` | `ImplementsSession` (refinement) |
| | `SuccessIsAccounted` | `SuccessAccounted` |
| | `HandlersReachChild` | `HandlerReachesChild` |
| | `TargetStaysUnharmed` | `TargetUnharmed` |
| | `LoadedMeansLoaded` | `LoadedIsLoaded` |
| | `FailuresExplained` | `FailureExplained` |
| | `LoadsAreVerified` | `RunsVerified` |

### EventRing, without nested handlers

`RingInv` adds to the properties:

* `OwnQueue`: a thread claims only without a queue and pushes to the one its
  key holds; with `QueueExclusive` this makes the producer of a slot unique;
* `OwnSlot`: the slot being filled is unpublished and already holds what was
  stored so far, which is what `Publish` turns into `PublishedWhole`;
* `ReaderOwnsSlot`: while the reader formats, the slot is published, so no
  producer can be past its check of the flag for that slot; the record it
  carries stays whole up to the write;
* `ReaderGuarded`: the guard is up whenever the reader may be inside `write`,
  so its own handler takes the untraced path.

The proof has one lemma per action, grouped by how an action can disturb the
invariant: steps that only move a frame (`QuietStep`), steps on keys
(`KeyStep`), steps on a slot (`FillStep`, `PublishInv`, `ReleaseInv`), steps of
the reader alone (`ReaderOnly`), and steps of processes that die or fork
(`AwayStep`). `NextInv` assembles them.

### EventRing, with nested handlers

`push_binary_event` is not re-entrant for its slot, but the queues stay with
their threads. `NestInv` therefore speaks of `Stack(t)`, every activation on a
thread. A thread owns the queue its key holds and every queue that an
activation, interrupted or not, is about to bind: an interrupted claim leaves
one behind that is bound later over the nested one. `OwnedOnce` says that all of
these are below `active_queues` and belong to one thread. `StackInv` says that
only calls and writes interrupt, so a fork has its thread to itself and a child
has no poll on any stack; `ReaderInv` says what is at the bottom of the
reader's, which is how its own write is told from a handler that interrupted
it.

### The ring as a lossy line

`InLine(q)` is the inductive form of "published slots lie in one stretch": from
the reader's cursor there are n published slots and the rest are not, and the
stretch ends at the producer's cursor or, between its advance and its publish,
just behind it (`EndsAt`). A thread that dies while it pushes leaves a gap for
good, but pushes no more and nobody claims its queue again, so the reader stops
there. From it: a producer that finds its slot published finds the ring full,
as n = 0 is the only other way round (`DropsOnlyWhenFull`); and `Unreleased`,
defined by the flags alone, is that n, so each step of the ring maps to a step
of `LossyTrace` or to none: publishing appends, writing takes the first,
releasing moves cursor and flag together (`Carried` ties the record written to
its slot). The modular arithmetic is in the lemmas about `From`. With nested
handlers two activations of one thread have the same slot, and the property
fails.

### TraceOutput

`StageInv` says what the constructor has set up, from the steps it has taken:
destination, mask and format as functions of the environment. `AppInv` and
`RingInv` say that a thread in a handler, and a record under way, are calls of
the program that the filter lets through: in a launched process none starts
before the constructor is done, and an attached one has no filter.
`LineInv` says of the last line which record it was printed from. What a line
may be is then a computation: `WholeObjects` and `WholeNames` need the
proportions of the buffers, `2 * NameMax <= SlotText` and `rest + 12 * NameMax
<= LineMax` (one name of six-byte escapes printed twice, or two printed once),
which the code's 512, 1024 and 8192 satisfy and `SizeAssumption` states.

### HookInstall

`MemoryInv`: the pieces written to the trampoline page are pairwise disjoint and
below the offset, and so is the one about to be written; an intact trampoline
stays so. `TableInv` describes the half-done window: between `WriteJump` and
`Insert` exactly the current function carries a jump and is not in the table,
and every entry leads to a copy of its own function's bytes. That copy was made
from the original because a function that carries a jump is in the table and
`CheckDuplicate` refuses it. `ForwardInv` gives the same of the `TRAMP_*`
statics, up to the window between `Insert` and `Store`. `PageInv`: past the
probe the page is not sealed, cached verdicts included. `LaunchInv` uses all of
them: threads start after the list, when every jump has its trampoline, and the
installer's own `fork` and `write` go through hooks that are complete.

### Relocator

The masks and shifts of the relocator are arithmetic on the words here, so that
the solver can decide them. `Field14`, `Field19`, `Field21` and `Field26` show,
for all 2^32 words, that what `relocate_instruction` takes out of a word is the
architecture's signed field; `Classes` and `ClassesCopy` that both classifiers
accept exactly the pc-relative encodings. From the lengths of the pieces
(`MovedLength`) follows that no word reaches the panic, that no moved word
equals the original and that the trampoline fits. `MovedWordsDecode` says what
each class becomes, in the architecture's terms. `TestsAgree` says of two cores
that agree on the tested register: after `b.cond`, `cbz` or `tbz` on one and
the inverted test on the other, the logs agree, and the second goes to the jump
that follows exactly when the first branches. It needs `Cond(w) < 14`: `b.al`
and `b.nv` are the exception found above. `NearJumpLands` is the round trip of
`make_branch_26` through the architecture's decoding, for word-aligned addresses
within reach.

`HookedDoesTheSame` compares two whole runs, by a simulation. `Follows(m, n)`
relates a core `m` of the untouched run to a core `n` of the hooked one, by
where they are:

* `Entering`: `m` is at the function's entry and `n` between the jump and the
  trampoline, with what the next instruction loads or needs;
* `AtStart(m, n, i)`: `m` has executed the first i stolen words and `n` what
  became of them; `Skipping`: `n` has yet to jump over a literal;
* `Jumping`, `Branching`: `m` has left the prologue, and `n` has to load x16 and
  branch, or to branch, to the same address;
* `Out`: both have left, or ended, in the same place.

In all of them the cores agree (`Agree`) in log and registers but for x16 and
x17, and no register holds the address of a stolen word. What the stolen words
themselves put in x16 and x17 stays there while the words are executed
(`Carries`), so only a word that asks for what the caller left there sees a
difference. `FollowStep` shows that a step of `n` is none or one step of `m`:
one lemma for each class of word (`OpMoves`, `AdrMoves`, `LiteralMoves`,
`TestMoves`, `JumpMoves`, `CallMoves`, `Leaves`), for the way in (`EnteringStep`)
and out (`EndStep`, `OutStep`). They rest on `CodeCells` and `InCode`, `InStub`,
`InJump`, `InOriginal`: which cell of which segment is at which address, by
arithmetic on pages and offsets. The untouched run is over when the hooked one
begins, so the invariant (`SameInv`) cannot step both. It says that some core
follows and leads to the untouched run's last one; `Leads` states that without
an induction, as membership in every set that holds the core and, with a core
not at its end, the next one. At the end of the hooked run the follower is at
its end too, and is that last core (`SameEnds`). Each of the six exclusions is
used in one place: `LinksInside` in `CallMoves`, `NoOpposite` in `TestMoves`,
`WideLiteral` in `LiteralMoves`, `BranchesInside` and `PointsInside` in
`NamesFree`, `ReadsScratch` in `Known`. `Follows` was found with TLC on the
run's instance before it was proved; `SameInv` itself quantifies over all sets
of cores and is only proved.

### ProbeHarness

`DispatchInv` is the shape of a thread's stack: at most two calls, of which only
the first can be in its handler, at one of the two places of `log_line` that
call `open` or `write`; the guard is set exactly then, and the mutex of `HOOKS`
is held exactly while the top call searches the table. `DueInv` follows a call
that finds its entry to its handler. `LogInv` treats `CREATING` as the mutex it
is used as, counts the threads that took one of the `EVENT_CAP` events and have
not written (`Writers`), and keeps lines and pending lines distinct (`CountInv`).
A handler that panics leaves through `catch_unwind`, which comes before the
guard is cleared.

### Tool

Each part has an invariant over its own variables (`SessionInv`, `InjectorInv`,
`CompilerInv`). `SessionRefined`, `InjectorRefined` and `CompilerRefined` show
that every step of the composition is, for each part, one of that part's steps
or none; so the invariants carry over, and `SessionImplemented` is the first of
the three. `PartsInv` says what the parts know of each other: no target is
touched before main is in `inject_into_pid`, which ends as mtdi does, and main
goes past `compile_script` with a compiled probe only. `SuccessIsAccounted`
needs all of them: from status 0 follows where main is, from that where the
injector and the compiler are, and from that what was done in the target.
In `InjectorInv` what the tool has read is tied to what is still true of the
target (`ReadInv`), whatever the order of the worker's stores and the tool's
reads. `TargetStaysUnharmed` rests on `SetupInv`: when a thread enters the stub
or parks, the stub has been made executable and the timespec written, and a raw
thread in dlopen means that there is no bootstrap. The property says nothing of
that fallback. `LoadedIsLoaded` carries its exception: a path of 353 bytes or
more does deceive the tool (see section 3), and no shorter one can. In
`CompilerInv` every file named after a text holds that text or none, whoever
writes it.

### Only model-checked

* All liveness: `EventuallyEmitted`, `CallsReturn` (twice), `FlushEnds`,
  `Settles`, `Ends`. Fairness and ENABLED are outside the prover's reach.
* The three violations, which are counterexamples.

## 5. Not modelled

* The MCP server: it runs the command and system tools and returns their text.
  Its one stateful behaviour, ending mtdi by a signal after a delay, is the
  signal that `Session` takes at every point; that it does not read the pipes
  while it sleeps, and gives up two seconds after `terminate`
  (mcp_server.py:128-134), is between it and the operating system.
* The wording of the 26 formatters and the rules of the AST verifier: text and
  syntax, of which the models keep what the properties tell apart.
* The single saves and loads of the thunk; instruction-cache effects; the
  calling convention of variadic functions, because of which the mode `my_open`
  passes on may not be the caller's (lib.rs:482-485).
* `mach_vm_allocate` for the trampoline page and `mmap` for the rings are taken
  to succeed (their results are ignored at `allocator.rs:18`, `lib.rs:259`).
* Allocation inside the harness' critical sections: an allocator that calls a
  hooked function with `HOOKS` locked waits for itself (compiler.rs:317, 509);
  fork while another thread holds one of the probe's mutexes.
* Signal handlers of the program that call a hooked function while their thread
  holds `HOOKS` in the harness' dispatcher: such a thread waits for itself
  (compiler.rs:317). A function registered twice by one probe: `ProbeHarness`
  has a set of registrations.
* The line "Hook skipped" that `install!` writes to stderr as plain text when a
  function cannot be hooked (lib.rs:107): `TraceOutput` begins after the
  `install!` list, so `OneObjectPerLine` is about what is written from then on.
* Reuse of a pid after `wait`.
* Weak-memory effects other than the ones release/acquire on the flags rules
  out; `READER_WRITING` is read relaxed, by the same thread where it matters.
* Benchmarks, examples: no state the tool depends on.

## 6. Plan

All the parts named above as modelled are on disk, and every invariant that a
run expects to hold is proved. What would come next:

1. `ProbeHarness` and `HookInstall` as clients of `Relocator`: what they call
   "original" and "trampoline" replaced by its code, so that `SameEffect` becomes
   a refinement of one call.
2. The engine's dispatcher in its own lock order, should a full-context hook be
   installed by a later version.
