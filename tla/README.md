# FVPLoader in TLA+

FVPLoader runs the games of one publisher (FAVORITE) on a Windows that is not
Japanese. `FVPLoaderGui.exe` starts the game suspended and makes its first
thread load `FVPKernel.dll`; the DLL patches the entry points of the system
libraries the game calls, so that text, fonts and windows behave as under a
Japanese locale. Everything below the two is the support library `NativeLib`
(`my.cpp`, `my.h`). This directory holds TLA+ models of those parts, the TLC
runs that check them on small instances, and proofs checked by TLAPS.

`PROJECT.json` says for every definition which lines it models, which runs
check which properties, and which hazards of the code the properties are for.

## 1. Inventory

### The parts, their state and what makes them correct

| Part | State it keeps | Operations | What makes it correct | Module |
|---|---|---|---|---|
| Loader (`FVPLoaderGui.cpp`) | `FVPLOG.ini`, the window | `wWinMain`, `WM_DROPFILES` of `WndProc`, `ReadLogFile`, `WriteLogFile` | what is started is what the user chose, whatever interrupted the writing of the configuration; what is remembered is what was last played | `Loader` |
| Injection (`VMeCreateProcess`, `InjectDllToRemoteProcess`) | the page in the game, the context and suspend count of its main thread | write the page, redirect the thread, poll, free, resume | the DLL is loaded before the game runs; the thread never runs in freed memory | `Inject` |
| Kernel start (`DllMain`, `Initialize`, `HookGdi32Routines`) | the installed hooks | install the lists of patches | a hook is not live without the stubs it calls, whatever failed | `KernelStart` |
| Window hooks (`FVPKernel.cpp`) | `MainWindow`, the patched class procedure | `HookRegisterClassExA`, `HookCreateWindowExA`, `MainWindowProc`, `HookDefWindowProcA`, `HookDispatchMessageA` | the main window is served by the W functions from its first message on, every other window by the A functions | `WindowHooks` |
| Stock objects (`Gdi32Hook.cpp`) | `StockObjectInitialized`, `StockObject[]`, `GdiLock` | `LeGetStockObject`, `LeDeleteObject`, `LeCreateCompatibleDC` | the replacement fonts are built once, are always the same and are never destroyed | `StockObjects` |
| Font enumeration (`Gdi32Hook.cpp`) | `TextMetricCache`, one DC per enumeration | `LeEnumFont*`, `LeEnumFontCallbackW`, `AdjustFontData` | GDI objects are given back; what is found out about a name lasts | `FontEnum` |
| Patch manager (`Mp`) | the patched code, the trampolines, `TrampolineList` | `PatchMemory`, `RestoreMemory` | code, stubs and trampolines agree when a patch fails half-way or is undone | `PatchManager` |
| Machine code (`GetHookAddressAndSize`, `CopyTrampolineStub`, `GenerateNakedTrampoline`) | the hooked function, its copy in the trampoline | find and measure the code to patch, copy it, relocate branches, save registers | calling the stub is calling the original; a callback sees and sets the registers | `Trampoline`, `NakedTrampoline` |
| Hash table (`HashTableT`) | the probed table | `Add`, `Get`, `Remove`, growing | it is a map | `HashTable`, `TableSizes`, `MapStore` |
| Files (`NtFileDisk`) | handle, cached size and position | `Create`, `Open`, `Append`, `Read`, `Write`, `Seek`, `SetEndOfFile`, `Close` | the cached size is never less than the file's, so appending overwrites nothing | `FileDisk` |
| Copying (`Io::CopyFile`) | two such objects, what is left | open, create, the loop | the copy is exact or failed, and it ends | `FileCopy` |
| Growable array (`GrowableArray`) | buffer, size, capacity | `Add`, `Insert`, `Remove`, `SetSize` | it is a sequence | partly: `PatchManager` |

How they interact. The loader is a process; it creates the game's process and
writes into its memory (injection), and talks to it through nothing but one
dword there. Inside the game, `DllMain` has the patch manager install the
hooks; from then on the hooks are called by the game's threads. The stock-object
and font hooks share `GdiLock` and nothing else; the font hooks keep their cache
in a hash table; the window hooks use the patch manager once more, for the
procedure of the main window's class. Loaders share the configuration file with
each other.

Not modelled, and why:

- The text hooks (message boxes, menus, glyphs, `CreateFontA`, `lstrcmpiA`,
  `GetVersionExA`) and the loader's window: functions of one call's arguments
  with no state.
- Of the patch manager, naked patches inside a list and hooks undone in another
  order than newest first (no caller does either). Of the machine code, the
  tables of opcodes (`GetOpCodeSize`): in `Trampoline` an instruction has its
  length. The x64 build is there for its naked trampoline only.
- Of `NtFileDisk`, duplicated handles (the copy constructor compares a handle
  it has not initialised and closes it, `my.cpp:6578`; `operator=` takes the
  handle without size and position), `Rename`, `Delete`, mapped views, links.
  Its siblings for mapped and protected files repeat the same code.
- Of `GrowableArray`, what the two programs do not use: `Insert`, `SetSize`, the
  searches, and growing past the first 16 entries, where a failed growth leaves
  `m_Data` pointing at a freed block (`my.h:10041`).
- The other injection variants, PE loading from memory, directory enumeration,
  wildcard matching, the interlocked lists: parts of the library that neither
  program uses, either thin wrappers of a system call or pure functions of
  strings and images. `Lpc` is unfinished: `Send` is declared and not defined,
  and the client connects with an empty view.
- `CmdLineToArgv`, which splits the command line of the loader
  (`FVPLoaderGui.cpp:333`): a pure function of a string. `Loader` begins with
  the argument it yields.
- String formatting, SHA-256, decompression, registry and NLS helpers: pure
  conversions, or one system call each.
- The NT headers and the tables of hashes: of the 68369 lines of the sources
  about 50000 declare the Windows native API or list constants. The share of
  the sources that can be modelled is small for that reason.

### Which behaviours are hard

- Several threads in the stock-object hooks, with an unlocked flag and unlocked
  readers; GDI handle values that are recycled.
- Two processes in the injection, synchronised by polling a page that one
  frees while the other runs in it; each system call may fail, the loader may
  be killed, `LdrLoadDll` may be slow.
- Two loaders on one configuration file, killed between two writes.
- Re-entrancy: window procedures that nest, messages that arrive before the
  function that creates their window has returned, font callbacks that
  enumerate fonts.
- Patches that fail after others have gone live, trampolines that are freed
  while pointers to them remain.
- A probed table without tombstones, whose growth may fail and, after a
  failure, nest.
- Code that rewrites code: branches into, out of and inside what a hook
  displaces.
- A cached file size that other handles could falsify; 64-bit sizes counted
  down by their low 32 bits.

`PROJECT.json` lists each of these as a hazard at its line, with the properties
for it, or with the reason why none covers it.

## 2. The modules

In every module an action is one step of the code that another actor can see
the effect of, its guard is the code's condition, and a system call that can
fail has an action or a disjunct in which it does. Definitions whose name starts
with `Bug` are plausible mistakes in the definition below them. They are used by
no specification; substituting one shows that a property depends on that piece
of code.

### StockObjects, StockTable, StockObjectsProofs

A thread is a value of `pc`. Each read of `StockObjectInitialized`
(`TestFlag`, `RecheckFlag`, `DeleteTestFlag`), each store to `StockObject[]`
(`StoreFont`), the flag's store (`PublishTable`) and the two lock operations are
separate actions. `MakeFont` and `MakeFontFails` are the outcomes of
`GetFontFromFont`. `GameCreate` and `DeleteCall` make and destroy other GDI
objects, so that handle values are recycled. `DeleteKept` and `DeleteNotStock`
are the two ends of `LeDeleteObject`'s scan; the scan is one step because the
flag was seen set, after which nobody writes the table (that is
`PublishedTableFrozen`). `Lookup` gives an arbitrary answer for the request that
passes `LeGetStockObject`'s range test, `>` instead of `>=`, and reads behind
the table.

`StockTable` is the promise: a table is chosen in one step and every answer is
read from it. The refinement (`Promise`) maps `table` to unknown until the flag
is set and then to the stored fonts with the originals where creation failed.

### PatchManager, HookChain

Code is what executing a site does, so that "original", "jump to the
replacement of p" and the copy in a trampoline are values of one set.
`CallPatch` starts `PatchMemory` with a list; one round of its loop is
`BuildTrampoline` (or `NoTrampoline`), `Unprotect`, `WriteHook`, `Reprotect` for
a function patch and `MemoryUnprotect`, `MemoryBackup`, `MemoryWrite`,
`Reprotect` for a memory patch, with a `...Fails` action for every early
return, which leaves the earlier patches in place as the code does.
`RestoreMemory` is `CallRestore`, `RestoreCode`, `RemoveTrampoline`.
`UnprotectFails` is the place where the code frees a trampoline that the
caller's stub and `TrampolineList` keep pointing at; the next `BuildTrampoline`
may be given the same block. `ListAdd` may fail unnoticed, and `unlisted`, a
history variable, has the blocks in use for which it did: `NoTrampolineLost`
says that these and no others are lost when their hook is undone.

`HookChain` is the promise: a call of a function runs through a definite chain
of hooks, newest first. `Reached` follows the stubs, and `ImplementsHookChain`
says each step of the manager installs or removes one link or does nothing.

Assumptions about callers: a patch is not installed twice, and `CallRestore`
undoes the newest hook of a site first. `RestoreMemory` checks neither: undoing
the older of two hooks takes the newer one out as well, and undoing that one
puts the older back with a trampoline that is gone. No caller in the repository
stacks hooks and undoes them in that order.

Two things are finer in the code than in the model. `WriteHook` and
`RestoreCode` are one step each, while the code copies bytes (`my.cpp:8918`)
that another thread may be executing. And a thread that is inside a trampoline
when it is freed is not represented: a call, in `LiveHooksCanCallOn`, is made as
a whole in one state.

### Trampoline, NakedTrampoline

`Trampoline` is what `PatchManager` takes as one step. `text` maps the address
of an instruction to its operation, length and offset, and `Functions` is any
set of such functions (`IsCode`: branches go to instructions, no two
instructions overlap, the stub is more than 256 bytes away). `ScanOne`,
`ScanFollow` and `ScanRefused` are the rounds of `GetHookAddressAndSize`,
`CopyOne` a call of `CopyOneOpCode` with `StaysInside` its test for a branch
inside the copy, `JumpBack` the code behind it and `PutHook` the hook. A hook
written as a call (`callHook`) that displaces just its 5 bytes is taken to
replace a call (`ReplacesCall`): instead of a jump back the code makes `E9` of
the first byte of the copy (`MakeJump`), so that the function called returns to
the replacement, and the replacement behind the hook. `AsJump` is what that
makes of any other instruction. `jmpreg` and `retf` are the indirect jumps and
the returns that `GetHookAddressAndSize` does not know and scans past. `copies`
is a history variable: where the copy of each displaced instruction went. Then a
replacement calls the stub (`RunOn`, `RunBranch`, `RunBack`) while the function
as it was loaded runs beside it; both take the same way at a conditional branch,
so that `StubRunsOriginal` compares them instruction by instruction. `Together`
says what "the same place" is. The four limits of the code that the property
allows for (a branch back to the first instruction and `EnteredBehindHook`,
`LoopLeaves`, `AcrossLonger`, `NoCallThere`) are conditions on the function and
the hook alone; `PassedOver` is that of `HookAndStubFit`. The distance of 256
bytes stands for the
trampoline being an allocation of its own: a short branch that kept its offset
goes astray there, but never by chance into the function.

`NakedTrampoline` writes the code of `GenerateNakedTrampoline` as a sequence of
instructions and folds it over a machine of registers and stack. `CallTarget`
is the callback: it finds the context by the layout of the C structure
(`Fields`), writes what it likes there and destroys the registers its calling
convention lets it. `Displaced` is what the hook took the place of: an
instruction that leaves the stack alone, a push, a pop, or one that reads the
top of the stack. `NakedKeepsX86` compares the trampoline with that instruction
and the callback done one after the other at the hooked place, and is an
equivalence: it fails for `ExecuteTrampoline` with a call hook around an
instruction that uses the stack, and for nothing else.

### KernelStart

`GdiHooks` and `KernelHooks` are the two lists; `PatchGdi` and `PatchKernel`
install the next patch, `...Fails` end the list there, as `PatchMemory` does.
`Needs` says which stubs a call of a hook may go through; when it meets one that
is not filled, or the DLL has been unmapped, the game is `down`. The bytes of a
patch are `Trampoline`, its memory `PatchManager`, the loader's side `Inject`.

### FileDisk, FileCopy

`FileDisk` has a definition per method of `NtFileDisk`, with files as sequences
of bytes and the cached size and position in `obj`. `SharingAllows` is the rule
of the share mode all opens use. `Cut` is the end of the file being set; that
`SetEndOfFile` may fail between the file and the cache is its second disjunct.
`FileCopy` composes `Io::CopyFile` (one action per call it makes, each with its
failure) with other objects (`Client`) that open, append to, cut and overwrite
the same files between any two of its steps.

### Loader

`file` is the sequence of the fields written: mark, length, path, three flags.
`open` holds with which access each loader has it open, and `MayRead`,
`MayWrite`, `MayDelete` are the sharing rules of the access masks in the code.
`ReadMark` .. `ReadLastFlag` are the reads of `ReadLogFile`, one action each,
`ReadFails` the failure of any of them; `Create`, `Write`, `WriteFails` are
`WriteLogFile`. `WriteFails` ends it with the file closed, except at `bMessage`:
there the code drops the status (`FVPLoaderGui.cpp:170`; no caller asks for
`bMessage`), and `bFont` is written in the place of the missing byte.
`ReadPath` yields what the field's length cuts out of the path that is there;
`Torn` stands for every string that no write put there. `LaunchConfig`,
`UseParam`, `LaunchParam`, `NoParam` and `ShowWindow` are the order in which
`wWinMain` tries the configuration, the argument and the window; `Drop`,
`LaunchDrop`, `Delete` are `WM_DROPFILES`.

Excluded by `LoaderAssumption`: a path of exactly `MAX_PATH` characters, which
leaves `ExeFullPath` without a terminator so that `CreateProcess` is given
undefined characters, and a length of 0, with which `NtFileDisk::Read` reads
the rest of the file; the loader writes no such file.

### Inject

Two actors, the loader (`pc`) and the game's main thread (`thread`). The page's
first dword is `busy`; the instruction pointer of the thread is abstracted to
"still to run the call", "in LdrLoadDll", "still to clear the dword", "on its
way out". `PollBusy`, `PollFree`, `PollFails` are the three outcomes of a poll,
`Settle` and `Check` the delay and the look at the context after it, `Free` the
release of the page, `ResumeGame` the `NtResumeThread` of `VMeCreateProcess`,
which runs whatever the injection returned. `RunPage` is the essence: code of a
freed page is not there. `mishaps` is a history variable with which the
properties say exactly which failures the design does not survive. `DllFails`
is a `DllMain` that returns FALSE after some hooks were installed.

### WindowHooks

One GUI thread with a stack of calls. `CreateMain` enters `CreateWindowExW`,
`CreateSends` is a message sent from inside it, `CreateDone` and `CreateFails`
end it. `Enter` is what the patched window procedure does before the game's:
set `MainWindow` to the window it is called for. `Dispatch` and `DefWindowProc`
record in `served` which form of the function served which window.
`Register` patches the class's procedure if `MainWindow` is null.

Assumptions: the game has one window of the main class at a time, its other
windows have other procedures, and `lpfnWndProc` is not null.

### FontEnum

`stack` is the enumerations in progress; a frame's `at` is where
`LeEnumFontCallbackW` and `AdjustFontData` are with the current font. `CacheHit`
and `CacheMiss` are the lookup by the font's own name; `CreateFont` ..
`DeleteFont` the GDI calls of `AdjustFontData`, each with its failure, that of
the releases too: where `Deselect` fails the font is still selected and
`DeleteFont` cannot delete it, and `DeleteFont` and the `DeleteDC` of `EndEnum`
may fail by themselves. The code looks at none of these; `refusedFonts` and
`refusedDCs` count them, and `GdiBalanced` says that this many objects leak and
no more. `Remember` is the insertion under the name the font has by then.
`CallbackReturns` lets the game's callback end the enumeration, and `Call` is
enabled in it. What the name table says of a font (hidden, renamed) is a
constant. Assumption: one thread enumerates at a time, which nothing in the
code enforces.

### HashTable, TableSizes, MapStore

`Probes` and `Found` are `LookupEntry` with and without the permission to take
an unused entry, stated by the distance from the key's own entry, which wraps
around. `calls` is the recursion: a call of `AddElement` is a record with the
old table it is carrying over and how far it is. `IncreaseCapacity` and
`KeepCapacity` are the outcomes of `IncreaseCapacity` (room, a new table, no
memory, which `AddElement` does not look at), `CopyEntry` a round of its loop,
which calls `AddElement` again, `Put` the write to the entry found and `NoEntry`
the write through a null one. Each allocation may fail. `refused` is a history
variable: one has failed. `TableSizes` has the arithmetic (`IsPrime`,
`GetTableSize`) as recursive functions; to the table they are the constant
`NextSize`. `MapStore` is the promise: a map.

Assumption: `INITIAL_TABLE_SIZE` is at least 5 (it is 521); from 3 the table
would not grow.

## 3. The runs

| Run | Instance | What it shows | Why the bounds are enough |
|---|---|---|---|
| `stock_objects` | 2 threads, 3 handles, indices 0 and 1 both replaced, requests 0..3 | answers are stable, fonts neither destroyed nor leaked, the published table is frozen, the hooks implement `StockTable`, every hooked call returns | a race needs two builders, one of which may call again for ever; a third handle gives the game one to recycle; requests reach beyond the table; the theorems cover all other sizes |
| `patch_manager` | two hooks that call on at one site, a hook that does not and a memory patch at another; 3 blocks; lists of up to 2 patches, 3 list entries | live hooks can call on, trampolines are not shared, nor lost but when the list did not take them, only the site at hand is written, the manager implements `HookChain` | two hooks on a site and one block fewer than the patches that could want one make blocks change hands |
| `trampoline` | every function of three instructions of 27 forms (plain, conditional and unconditional branches short and long, calls, loops, jumps through memory and through registers, ret with and without a prefix; forward, back, to themselves, away), hooks of 5, 6 and 7 bytes, those of 5 also as calls; naked patches on one prologue, around four displaced instructions | the stub does what the function did, hook and stub fit, the search for the code ends; naked trampolines keep the registers and the stack, but for calls with `ExecuteTrampoline` | the instructions a hook displaces begin in its first 7 bytes; three instructions give a branch one before and one after it, inside and outside the copy; a call hook meets calls of its own length and everything else |
| `naked_amd64` | both ways to enter it, with and without the original first | violated: see Findings | |
| `kernel_start` | the two lists as they are, any patch failing | which failures leave a hook without its stub, a DLL unmapped or stock fonts that can be destroyed | nothing is cut |
| `loader` | 2 loaders, 2 paths of different lengths, every call failing, kills; and 1 loader, nothing failing, games of two lengths, one that does not start, one too long | nothing but a chosen program starts, the file is always closed; a failed game is forgotten, the last one played remembered (one loader) | two writers or a writer and a reader interleave at every field; different lengths make tearing visible; every class of path the code tells apart |
| `loader_drag` | as `loader` | violated: see Findings | |
| `hash_table` | tables of 7, 9 and 11 entries for those of 521, 677 and 881; up to 8 keys that collide, follow and wrap around; four uses: overwriting, removal, growing as late as possible, more keys than entries; numbers to 2500 | the table is a map; while memory lasts an entry stays free and no growth nests; the size arithmetic meets its definition | the table of 9 counts as full with 6 entries, fewer than the one of 7 can hold, so that a growth that came late would grow again half-way, as with 677 (507) and 521; 2500 takes in the table of small primes, the bases 2, 7 and 61, and composites with no prime factor below 47 |
| `files` | 2 files of 3, 4, 5 or 7 bytes or none, 2^32 as 4, the buffer of 0x1000 as 2, one other object writing up to 2 bytes | copies are exact or failed and end; appending adds | sizes below, at and above 2^32 and the one where the buffer overruns; onto another file, nothing or itself; the theorems cover other sizes and more objects |
| `inject` | `MaxPolls` = 30 as in the code, thread suspended or not | `KernelBeforeGame`, `DownOnlyByBlunder`, `PageOutlivesCode`, `PageReleased`, `GameStarts` | nothing is cut: the model is finite |
| `window_hooks` | 3 handles, 4 nested calls | main window W, others A, a living main window's procedure is not patched again | a main window, one beside it and a handle that is given back; a message inside a message inside a creation |
| `font_enum` | a font that keeps its name, one renamed, one unwanted whose own name is that new name; 2 nested enumerations; 2 refused releases of DCs and 2 of fonts | `GdiBalanced`, `StableVisibility`, `HiddenStaysHidden`, `MetricsOfName` | one font of every kind the code tells apart, each enumerated again inside the callback of another; two refusals let a leak meet one that is already there, in the same enumeration or in a nested one |

Symmetry is used over blocks, loaders and windows in runs without liveness,
where nothing in the specification or the properties tells the values apart.
The type invariants (`TypeOK`, `TableTypeOK`, `TrampolineTypeOK`) are proved, in
`FileCopyProofs` as parts of `IInv`; no run spends itself on them.

`hash_table`, `trampoline`, `naked_amd64`, `kernel_start`, `files` and `inject`
turn off deadlock checking: `HashTable` stops at its bounds and when it goes
down, the others when the code has run to its end. All other specifications
always have a step.

**Fairness.** `stock_objects` assumes weak fairness of each thread inside a
hook (`HookStep`), since Windows goes on scheduling it, none of the game's calls
and no fairness of the critical section: `EnterSection` may stay disabled
again and again. The calls return all the same, because once the table is
published no new thread goes for the lock. `inject` assumes that both processes
are scheduled and that `LdrLoadDll` returns; it does not assume that it returns
within the 30 polls. `trampoline` and `files` assume that the one thread in
`PatchMemory` or `CopyFile` goes on; the other objects of `FileCopy` are under
no fairness, and may stop or never do so.

### What the runs say about the code

`loader_drag` is a disagreement with the documentation (finding): `README.md:8`
of the sources offers to drag a game onto `FVPLoaderGui.exe`; `wWinMain` looks
at the argument only if the configured game does not start.

`naked_amd64` is a bug (finding): on x64 the naked trampoline stores the
registers in another order than `TRAMPOLINE_NAKED_CONTEXT` has its fields
(`my.cpp:9183` against `my.h:13899`), although the comment at `my.cpp:9143`
says that the address it passes is one. The code ends in a comment
"NOT COMPLETE" (`my.cpp:9451`) but is compiled. On x86 the layouts agree
(`NakedKeepsX86`). The finding stands by what the model executes; no program
here uses naked patches.

Other behaviour of the code that the models have, that the properties allow for
and a maintainer should know:

- Loader: with two windows open a failed drop deletes what the other wrote, and
  the result of `WriteLogFile` is dropped, so a game may start and not be
  remembered. `NextTimeSameGame` is therefore a property of one loader.
- Injection: the page is freed under the game if `LdrLoadDll` outlasts the
  polls, if the thread is not out of the page after the last delay, or if
  `NtResumeThread` fails (`FreedEarly`). A `DllMain` that fails leaves hooks
  behind (`"hooks left"`). `DownOnlyByBlunder` says there is no other way.
- Injection: Windows runs the TLS callbacks of the game and the `DllMain`s of
  its static imports before the instruction pointer that the injection
  replaces. `KernelBeforeGame` is about the game's entry point; that code comes
  before the DLL and is outside the model.
- Patch manager: after a failed `Unprotect` the stub and the list dangle. The
  trampoline of a hook whose `TrampolineList.Add` failed is lost when the hook
  is undone (`unlisted`).
- Kernel start: if `EnumFontFamiliesW` or `EnumFontFamiliesExW` cannot be
  hooked, the A form already is and jumps through a null stub; if `DeleteObject`
  cannot, the game can destroy the replacements. `StockObjects` takes both to
  be hooked; `FontsKeptUnlessHalfHooked` says when that is so.
- Machine code: a branch of the copied code back to its first instruction is
  relocated to the hook and calls the replacement again (`<` instead of `<=`
  at `my.cpp:8642`); loop instructions are never relocated; branches inside the
  copy are not adjusted when they span one that became longer; a call hook makes
  `E9` of the first of whatever 5 bytes it displaces (`my.cpp:8879`), which is
  right for a call or a `jmp` only. The scan for the end of the function knows
  `C2`, `C3`, a short jump and `FF 25`: after an `E9`, `jmp eax`, `jmp [eax+n]`,
  `F3 C3`, `CA` or `CB` it goes on (`my.cpp:9542`), and the hook may overwrite
  the function behind. `EB FE` is scanned for ever. A naked trampoline with
  `ExecuteTrampoline` under a call hook breaks if the displaced code uses the
  stack, as `push ebp` does: `mov [esp+24h], eax` (`my.cpp:9085`) then fills
  another slot than the one the hook pushed. `StubRunsOriginal`,
  `HookAndStubFit`, `HookDecided` and `NakedKeepsX86` name just these. The two
  programs hook with jumps only; call hooks (`my.h:14094`) and naked ones are
  there for others. Not in the model:
  the hooks through `ecx` and the registers after it all come out as `eax`,
  since `RegisterIndex` loses its bits in a cast; `PatchNop` writes nothing
  beyond 7 bytes (`my.cpp:8697`), so that behind a hook that displaces more of
  them the bytes are undefined; they are not executed unless the replacement of
  a call hook returns there.
- Files: `CopyFile` never ends for sizes that are multiples of 2^32, and
  overruns its buffer above (`CopyEnds` and `CopyOutcome` allow for both);
  `Delete` through a handle without the right leaves
  a partial target; `FailIfExists` is checked before the file is created
  (`my.cpp:13734`), so a file that appears in between is overwritten.
- Stock objects: every `DeleteObject` before the first `GetStockObject` is
  dropped; index `STOCK_LAST + 1` reads behind
  the table (`>` at `Gdi32Hook.cpp:269`).
- Window hooks: registering the class again before it has a window patches the
  procedure a second time, and its stub leads back to the hook; a recycled
  handle of the main window is served as Unicode.
- Font enumeration: where gdi32 refuses to select the old font again
  (`Gdi32Hook.cpp:512`), to delete the temporary one (`:515`) or the DC
  (`Gdi32Hook.h:46`), nobody looks and the object leaks. A renamed font is cached under its new name and so never
  found again; it can be hidden after it has been shown, when a GDI call fails.
  `AdjustFontData` never sets the `FontType` that the raster test asks for, so
  raster fonts are hidden. A cached font is reported with another
  charset (`Gdi32Hook.cpp:643`). The cache is read without a lock (`:617`);
  the model has one enumerating thread.
- Hash table: overwriting counts as an entry (`my.h:12073`), so the table grows
  without need; after a failed allocation, which `AddElement` does not look at,
  the table can fill up and `AddElement` write through null (`my.h:12067`);
  with `Remove` (which nobody calls) keys behind a removed one are lost.

## 4. The proofs

Eight modules hold theorems and lemmas; each theorem rests on an inductive
invariant of the specification (`IInv`, `TableInv`, `TrampolineInv`), from which
the properties follow. Two modules have the proofs of two specifications each:
`PatchManagerProofs` also those of `Trampoline`, the machine code of the same
patches, and `FontEnumProofs` also those of `HashTable`, the table that the
cache of the font hooks is. That is why the parts of those two specifications
carry names of their own (`TrampolineSpec`, `TableSpec`).

| Module | Theorem | States |
|---|---|---|
| `StockObjectsProofs` | `TypeCorrect` | `[]TypeOK` |
| | `AnswersAreStable` | `[]StableAnswers` |
| | `ReplacementsAreKept` | `[]ReplacementsSurvive` |
| | `FontsAreKept` | `[]NoFontLeaked` |
| | `TableIsFrozen` | `PublishedTableFrozen` |
| | `HooksImplementPromise` | `ImplementsPromise`: the hooks refine `StockTable` |
| `WindowHooksProofs` | `TypeCorrect` | `[]TypeOK` |
| | `MainWindowIsUnicode` | `[]MainIsUnicode` |
| | `OtherWindowsAreAnsi` | `[]OthersAreAnsi` |
| | `NotRehooked` | `LiveMainNotRehooked` |
| `InjectProofs` | `TypeCorrect` | `[]TypeOK` |
| | `KernelComesFirst` | `[]KernelBeforeGame` |
| | `OnlyBlundersKill` | `[]DownOnlyByBlunder` |
| | `PageIsKept` | `[]PageOutlivesCode` |
| | `PageIsReleased` | `[]PageReleased` |
| `KernelStartProofs` | `TypeCorrect` | `[]TypeOK` |
| | `OrderCoversStubs` | `[]DownOnlyByHalfList` |
| | `HookedTogether` | `[]FontsKeptUnlessHalfHooked` |
| `FileCopyProofs` | `CopyIsExact` | `[]CopyOutcome` |
| | `AppendingIsSafe` | `AppendingAdds` |
| `PatchManagerProofs` | `TypeCorrect` | `[]TypeOK` |
| | `NotShared` | `[]TrampolinesNotShared` |
| | `NoneLost` | `[]NoTrampolineLost` |
| | `OwnSiteOnly` | `OnlyOwnSiteWritten` |
| | `CallsEnd` | the invariant makes every chain of stubs end |
| | `LiveHooks` | `[]LiveHooksCanCallOn` |
| | `ManagerImplementsChain` | `ImplementsHookChain`: the manager refines `HookChain` |
| | `TrampolineTypeCorrect` | `[]TrampolineTypeOK` |
| | `StubIsOriginal` | `[]StubRunsOriginal` |
| | `HookAndStubFits` | `[]HookAndStubFit` |
| `LoaderProofs` | `TypeCorrect` | `[]TypeOK` |
| | `ChosenOnly` | `[]OnlyChosenLaunched` |
| | `NoHandleLeft` | `[]FileClosed` |
| | `FailedForgotten` | `[]FailedGameForgotten` |
| | `RemembersLastGame` | `[]NextTimeSameGame` |
| `FontEnumProofs` | `TypeCorrect` | `[]TypeOK` |
| | `NothingLeaks` | `[]GdiBalanced` |
| | `VisibilityIsStable` | `[]StableVisibility` |
| | `HiddenForGood` | `HiddenStaysHidden` |
| | `MetricsAreOfName` | `[]MetricsOfName` |
| | `TableTypeCorrect` | `[]TableTypeOK` |
| | `AlwaysRoom` | `[]RoomLeft` |
| | `AlwaysGrowsOnce` | `[]GrowsOnce` |
| | `TableIsMap` | `ImplementsMap`: the table refines `MapStore` |

With these every safety property that a passing run checks of a behaviour is
proved for all values of the constants; what is left to TLC are two
computations and liveness (see the end of this section). Each inductive
invariant was first checked by TLC on the instance of its run, that of
`Trampoline` on functions of three instructions of 27 forms.

### Stock objects: any number of threads, handles and stock indices

Rests on `StockAssumption`: `StockObjectIndex[]` has no index twice and only
indices of the table, and the originals are not handles the game can get.

None of the properties is inductive. `StableAnswers` says nothing of threads
that are about to answer, so `IInv` adds, besides `TypeOK`:

- `Mutex`: the thread in the critical section is the owner of the lock. Hence
  two threads cannot both be building.
- `Phase`: what each program point knows. The builder knows the flag is not
  set, a thread that will answer or scan knows it is, and a thread about to
  delete knows its handle is not in the table.
- `Unfilled`: entries the builder has not reached are empty. With distinct
  indices this is why no font is overwritten (`NoFontLeaked`).
- `TableLive`: fonts in the table, or on their way into it, exist.
- `AnswersFromTable`: everything answered was read from the published table.

There is one lemma for each part, with a step per action that can disturb it.
Stability follows from `AnswersFromTable`, survival from that and `TableLive`.
The table is frozen since only a builder writes it and `Phase` says the flag is
not set then. In the refinement `PublishTable` is the abstract choice, `Answer`
the abstract reply, and every other step leaves the abstract variables alone,
which `Phase` gives for the steps of the builder.

### Window hooks: any number of windows, any nesting

Rests on `WindowAssumption`: a handle is not null. `MainIsUnicode` is about
calls already served; that the next one is served well needs to know what
`MainWindow` is whenever the game runs (`Known`). While `CreateWindowExW` runs
it may be stale, which does no harm as no code of the game runs then, and the
first message sets it, provided the procedure is patched (`PatchedFirst`) and
only once (the guard of `Enter`). `Creating` and `OneMain` say that a window in
creation is the one main window and that no window of a call in progress is
gone. `WasMain` gives `OthersAreAnsi`. The bound `MaxDepth` on the nesting is a
parameter, so the theorems hold for each depth.

### Injection: any number of polls

Rests on `InjectAssumption`. `Held`: the thread does not run before the loader
resumes it. `PagePhase`: what the loader's position says of the page and of
where the thread will start. `BusyUntilSignal`: the first dword is set as long
as the thread has not come back from `LdrLoadDll`. From these follows
`FreedWhenOut`, the heart of it: if no mishap was noted, the thread is out of
the page once the loader is past its second delay; so it is still out when the
page is freed. `DllPhase` is what the thread knows of the DLL.

### Kernel start

The module has no constants, so TLC's answer is complete; the proof gives the
reason. `Prefix`: the live hooks of the first list are a prefix of it, and what
failed is the patch behind it. Of the ten prefixes eight contain every stub
their hooks go through (`PrefixNeeds`), the other two end between an A form and
its W form. `Unmapped` ties the unmapped DLL to a failure in the second list.

### Files: any sizes, any buffer, any number of objects

Rests on `FileDiskAssumption` and `FileCopyAssumption`: contents are sequences
of bytes, the buffer is smaller than 2^32 and not empty. The first part of
`FileCopyProofs` shows of each operation of one object (`Keeps`) that it leaves
alone the files others have open, and keeps `DiskInv`: an open file exists and
is not longer than its cached size, who appends is at the end or behind it
(`Own`), and who may write has the file to itself (`Sharing`). Without
`Sharing` neither of the other two would survive a step of another object. From
this `AppendingAdds` follows for each operation, and the second part adds where
the copy is: source and target are held (`SourceHeld`, `TargetHeld`), the
target is the first `k` bytes of the source and the buffer the next ones
(`CopiedSoFar`, `ReadAhead`). Writing them at the end is a concatenation of
adjacent parts; `left = 0` makes `k` the whole.

### Patch manager: any patches, blocks, lists and failures

Rests on `PatchAssumption`: a patch has one site, a trampoline is built only for
a patched function, and the hooks that call on are finitely many. None of the
properties is inductive, because a patch that failed leaves its stub and its
list entry pointing at a block that is given to another. `IInv` says, besides `TypeOK`:

- `OwnStubs`: the stub of each installed hook is set, to a block in use; by
  `TrampolinesNotShared`, which is a part of `IInv`, to one of its own.
- `Kept`: a block in use is that of an installed hook, of the patch in progress,
  a backup or `unlisted`, and it is on the list or `unlisted`, not both.
  `NoTrampolineLost` follows. A block whose `Add` failed is not on the list,
  since the list is empty before it has its buffer; what `RemoveFirst` leaves on
  it is every other block (`RemoveFirstContents`).
- `Held`: the block in progress belongs to no installed hook, holds what is
  live at the site, and has not been freed when it is restored from.
- `Chained` and `OnePlace`: what is live at a site, and what is below a hook of
  it, is the original or an installed hook of that site; no hook is live and
  below another, or below two.
- `Fresh`: what is still to install is not installed.
- `Phase`: what each program point knows of the patch at hand.

`OnlyOwnSiteWritten` follows for each step from `Held`. `LiveHooksCanCallOn` is
about what a call runs, which the model computes by following the stubs as far
as there are patches. That this reaches code that calls nobody (`CallsEnd`)
takes three steps: going `n` stubs down meets no patch twice, since by
`OnePlace` the first one met again would have two above it (`PathInjective`);
so a path through patches only is no longer than there are patches
(the pigeonhole principle); so what is reached after that many steps is no
patch. The inductions in it are by the least counterexample, a subset of Nat
(`LeastNat`).

In the refinement `WriteHook` is `Install`, `RestoreCode` of a hook `Remove`,
and the abstract chain of a site is what `Reached` gives. Every other step
keeps it: `BuildTrampoline` writes stubs and blocks that no chain goes through,
and `RemoveTrampoline` frees one that none goes through any more.

### Trampoline: any functions, hook sizes and place of the stub

Rests on `TrampolineAssumption`: what is hooked is code (`IsCode`), and the hook
has 5 to 7 bytes. None of the properties is inductive: `StubRunsOriginal` says
nothing before the stub is called, and a branch of the copy needs to know where
all the other copies are. `TrampolineInv` adds:

- `Measured`: while the scan goes on, `opSize` bytes from `final` are whole
  instructions with no `ret` among them; none but the last leaves them for good,
  `EB 00` and what the scan does not recognise (`PassedOver`) excepted, and each
  begins below the hook's size. `HookAndStubFit` follows.
- `CopiesOK`: exactly the instructions before `buffer` have a copy, each with
  the form `CopyOneOpCode` gives it (`Copied`), the first a jump in the end if
  the hook is a call that replaces one (`CopyOf`), each directly in front of the
  next one's; the first is at `Trampoline`, the jump back, if there is one,
  behind the last.
- `Distant`: copies are in the order of their instructions, and two are as far
  from each other as these if all between have kept their length. It is what
  makes an unchanged offset right, and its premise fails exactly when
  `AcrossLonger` holds (`LongerCopy`).
- `OnlyFirst`: of a stub that was made a jump only the first instruction runs
  beside the function. What it becomes (`JumpMade`) is a jump to where the call
  went, or the property's fourth limit (`NoCallThere`).
- `Fitting`: a copy is at most six times as long as the instruction and at most
  15 bytes; as each begins below the hook's size, 36 + 15 bytes and the jump
  back are below `TRAMPOLINE_SIZE`.

In the run of stub and function, behind a displaced instruction comes another
or the end of the hook (`NextDisplaced`), and only the first is behind one that
is not displaced (`Predecessor`), so that control enters the hook by falling
into it or by a jump. A relocated branch arrives at its destination, which
`StaysInside` has shown to be outside or to be the very first instruction; a
kept one stays inside and is right by `Distant` (`KeptBranch`), or is a loop
instruction that leaves.

### Loader: any loaders, executables and circumstances

Rests on `LoaderAssumption`: the loaders are finitely many, no length is
`MAX_PATH` itself, and a file written elsewhere does not begin with the mark.
`IInv` has two parts. The first holds whatever fails:

- `Handles`: a loader has the file open where it reads or writes it, a writer
  alone. This is `FileClosed` and more.
- `OneRecord`: the file is absent, foreign, or the beginning of one record of a
  path the user chose.
- `ReaderAgrees`, `WriterAgrees`: what a reader has read is still in the file,
  what a writer has written is all of it (but for `bMessage`, whose failed
  write is passed over). They survive the steps of other loaders by `Handles`.
- `PathsChosen`: the path about to be started or written was chosen. For the
  last read this uses all of the above: length and characters come from two
  fields, which `ReaderAgrees` and `OneRecord` show to be of one record.

The second, `QuietAgrees`, is about a loader alone without failures: before
`WriteLogFile` and after the start of the game file and `lastPlayed` agree; in
between `lastPlayed` is the game started (command line) or none (drop). It needs
`Stages`, by which the window tells the two apart.

### Font enumeration: any fonts and names, any nesting

Rests on `FontAssumption`: a name given by gdi32 is that of one font. `IInv`:

- `OthersWait`: all enumerations but the innermost wait for the game's callback,
  where no font is held; with `Owned`, which counts the fonts as those refused
  and at most the one at work, and `FrameOK` this gives `GdiBalanced`. A font
  whose old one could not be selected again is counted as refused then, and is
  no longer held.
- `StillMissing`: while `AdjustFontData` works on a name, nothing is added under
  it, since nothing nested can run then.
- `CacheRemembers`: a font hidden has a hidden entry, one shown under its own
  name a visible one. It is inductive only with `StillMissing` and with what
  `FrameOK` says of the name: a font is hidden under the name it came with.
- `EntryOfName`: the metrics of an entry are those of a font that has or had
  its name.

`MaxDepth` is a parameter, so the theorems hold for each depth of nesting.

### Hash table: any keys, indices, values and sizes

Rests on `HashAssumption`: sizes are odd, at least 5, and each is followed by a
larger one. `TableInv`, whatever allocation fails:

- `CallsOK`: a call of `AddElement` inside another adds the entry of the old
  table that the outer one is at.
- `Chained`: between the place a key's probing starts at and the entry it has,
  all entries are used. Adding keeps this, as it takes the first unused one;
  removal does not, so it is stated of tables that are only added to.
- `MapsOK`: a table and the tables of the calls are chained, and the larger one
  holds the entries of the smaller up to the one the call is at (`Copied`).
- `Counted`: `TableUsedSize` is at least the number of used entries. With it
  `RoomLeft` follows from the next part.
- `Growing` and `Spacious`, as long as no allocation failed: how full the old
  and the new table are at each step of a growth. The old one has at most one
  entry more than its load limit, the new one as many as have been copied; a
  call of `AddElement` for one more finds it below its own limit, since that of
  a larger odd size is larger. This gives `GrowsOnce`: the inner call never
  sees the new table full.

Cardinalities are handled by adding one entry at a time (`UsedBelow`); that a
nonempty set of entries has one the probing reaches first is by the least
number, as for the chains of stubs. In the refinement the map is what
`LookupElement` finds in `Shown`, the old table of the outermost call as long
as there is one. Its `Put` is the abstract `Add`, since the larger table by then
has all entries of the old one (`MapsOK`); every `Put` of an inner call, and
every growth, is a stutter.

### What is only model-checked

- `CallsReturn`, `GameStarts`, `HookDecided` and `CopyEnds`: liveness under
  fairness, and ENABLED, are outside what TLAPS does.
- `TableSizeLeast`: that a strong pseudoprime test with three bases decides
  primality below a bound is a computation, not a proof; `PowerMod` and the
  squarings are recursive functions, whose values for every input would take
  an induction over data.
- `NakedKeepsX86`: the code generated is one of four sequences of some 30
  instructions around what it displaces, folded over a machine. What a fold
  computes is again out of the prover's reach; TLC runs both ways to enter, both
  orders, four displaced instructions, one of each way to use the stack, and every
  set of fields that Target may write.
- `DraggedGameRuns` and `ContextIsTrueAmd64`, which the code violates.

## 5. Plan

Done: the programs' own core, in the order in which a failure hurts the user
(stock objects, patch manager, loader, hash table, injection, windows, fonts),
then what they rest on (kernel start, machine code, files).

Left to model, in this order, each with little weight for the two programs:

1. `GrowableArray` past its first buffer, with the failing reallocation, under
   `TrampolineList`.
2. Hooks undone in any order, as a second world of `patch_manager`.
3. `NtFileDisk` objects made from others.

Left to prove: nothing that the runs check and the provers reach. What is
modelled next should come with its theorem, as above.
