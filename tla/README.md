# A TLA+ verification of liba32android

liba32android loads 32-bit ARM Android shared objects into an emulated guest
address space on a 64-bit host, links them, hardens them and runs their code
through a JIT. This directory models its state machines, checks them with TLC
on small instances, and proves the central invariants with TLAPS.

## The system and its parts

| Part | State it keeps | Operations | What is hard about it | What makes it correct |
|---|---|---|---|---|
| Guest memory (`memory/guest_memory`) | one state byte per page, the host protection, the bytes | map, protect, unmap, read, write, fastmem | two copies of the permissions; system calls that fail half way | the host protection is what the page state says; a fresh page is zero |
| Address search (`memory/guest_va_allocator`) | a candidate address | find_free_guest_range | congruences and ends at 2^32 | first fit; it ends |
| Load planning (`elf/loading/elf32_load_plan`) | the plan | plan_elf32_load | page rounding, overlap found through a sort | an accepted plan can be carried out |
| Loading and placement (`elf32_loader`, `elf32_dynamic_placement`) | mapped ranges | load_elf32, place_elf32_dynamic | failure after any call, best-effort rollback | exact image on success, nothing left behind on failure |
| Dependency graph and link map (`elf/linking/elf32_dependency_loader`) | objects, edges, roots, search orders | load graph, append root | cycles, shared objects, limits, aggregate rollback | all or nothing; indices of older objects never change |
| Dependency resolution (`elf32_dependency_resolver`) | none | chain, catalog, resolve | image budgets | all or nothing within the limits |
| Relocation (`elf32_relocation`) | pending writes, applied writes | prepare, apply, roll back | a write that fails half way, reverse restore | every target has its value or every one its old word |
| RELRO sealing (`elf/hardening/elf32_relro`) | sealed pages | seal | a protect that fails half way | all pages sealed or, when possible, none |
| Lifecycle (`elf32_lifecycle`) | call plan | plan and run initializers | cycles in the graph, a call that fails | dependencies first, each once |
| CPU and service dispatch (`cpu`, `runtime`) | registers, budget, handled count | execute, dispatch, handle | budget and ceiling edges, stop address | bounded, accounted, resumable |
| Symbol lookup and versioning (`elf32_symbol_lookup`, `elf32_symbol_versioning`) | symbol index, scope, version requirement | index, look up, match versions | chains of words in memory the guest can rewrite; three-pass scope order; records linked by offsets | the first eligible definition in scope order, with the requested version; every walk ends inside its table |
| Linker metadata (`elf/metadata`) | decoded tags, tables, strings | parse, collect, build | tags in pairs, ranges that end at 2^32 or cross a page | what is accepted is complete and readable |
| Android compatibility (`compat`) | none | log shim, platform provider | strings in guest memory | bounded reads |

### How the parts interact

An embedding program asks the **dependency loader** for a root object. The
loader resolves each `DT_NEEDED` name through a provider, plans and places
each image, and has the **ELF loader** map it into **guest memory**; the result
is a dependency graph, or an append to the persistent **link map**. **Linker
metadata** is decoded from each object's dynamic segment when it is loaded, and
kept; the tables it points to stay in guest memory. The caller then **relocates**
each object, whose references **symbol lookup** binds to definitions through
those tables, **seals** its RELRO pages, plans and runs its
**constructors**, and calls guest functions through the **service dispatcher**.
Constructors and the dispatcher both enter the **CPU**, whose JIT reads and
writes guest memory past the class that owns it, through the fastmem base.

Everything runs on the caller's thread; nothing in the library is concurrent.
What is hard is elsewhere: operations of several steps that fail half way, two
copies of one truth (page state and host protection), rollbacks that can fail
themselves, recursion over cyclic graphs, budgets in unsigned arithmetic, and
an order of calls that the library leaves to its caller.

## Modules

| Module | Models | Built on |
|---|---|---|
| `AddressSpace` | the scaled 32-bit address space and permissions | |
| `GuestMemory` | `MappedGuestMemory`, every operation with the failures of its system calls | `AddressSpace` |
| `ArithmeticLemmas` | lemmas on numbers, sets of numbers and sequences that the proofs share | |
| `GuestVaAllocator` | `find_free_guest_range`, one step per probe | `AddressSpace` |
| `Elf32Plan` | the load plan as a value, and `WellFormed`, what its consumers assume | `AddressSpace` |
| `Elf32LoadPlan` | `plan_elf32_load`, one step per program header | `Elf32Plan` |
| `Elf32LoadPlanProofs` | theorems about `Elf32LoadPlan` | `ArithmeticLemmas` |
| `Elf32Loader` | `load_elf32` and `place_elf32_dynamic` on guest memory that other clients use | `GuestMemory`, `Elf32Plan` |
| `Elf32LoaderProofs` | theorems about `GuestMemory`, `Elf32Loader` and `GuestVaAllocator` | `ArithmeticLemmas` |
| `LinkMap` | abstract specification: a link map whose calls are single steps | |
| `Elf32DependencyLoader` | the recursive graph load and append, shown to implement `LinkMap` | `LinkMap` |
| `Elf32DependencyInvariant` | the inductive invariant of `Elf32DependencyLoader` | |
| `Elf32DependencyProcessProofs` | lemmas: every step of a call preserves the invariant | `Elf32DependencyInvariant` |
| `Elf32DependencyLoaderProofs` | theorems about `Elf32DependencyLoader`, the refinement of `LinkMap` among them | `Elf32DependencyProcessProofs`, `ArithmeticLemmas` |
| `Elf32Bytes` | words and records in guest memory, checked addresses, readable ranges | `AddressSpace` |
| `Elf32LinkerMetadata` | `parse_elf32_dynamic`, tag collection, `build_elf32_linker_metadata` and `build_elf32_linker_strings` | `Elf32Bytes` |
| `Elf32SymbolIndex` | the SysV and GNU hash tables: the index, the entries and what a chain step looks at | `Elf32LinkerMetadata` |
| `Elf32SymbolVersions` | reading and validating version needs and definitions; the match of a symbol with a requirement | `Elf32LinkerMetadata` |
| `Elf32SymbolLookup` | from the dynamic segments of a graph to the answer of a lookup in one object, in a scope, or for a reference | `Elf32SymbolIndex`, `Elf32SymbolVersions` |
| `Elf32Relocation` | the three relocation entry points | `AddressSpace` |
| `Elf32RelocationProofs` | theorems about `Elf32Relocation` | `ArithmeticLemmas` |
| `Elf32Relro` | `seal_elf32_gnu_relro` | `AddressSpace` |
| `Elf32Link` | relocation and sealing calls in any order on shared pages | both |
| `Elf32LinkProofs` | theorems about `Elf32Link` | |
| `A32Cpu` | `cpu::execute`: a bounded slice of an arbitrary guest program | |
| `GuestRun` | abstract specification: one machine under one budget | |
| `A32ServiceDispatch` | `execute_a32_with_services` and the registry, shown to implement `GuestRun` | `A32Cpu` |
| `A32ServiceDispatchProofs` | theorems about `A32ServiceDispatch`, the refinement of `GuestRun` among them, and about the execution of `Elf32Lifecycle` | |
| `Elf32Lifecycle` | constructor planning and execution | `A32Cpu` |

`MC*` modules only give constants their values. `PROJECT.json` maps each
definition to the lines it stands for.

### How state and actions correspond to the code

*Guest memory.* `page_state` is `page_state_`, `host` the protection the kernel
keeps, `contents` the reservation's bytes. `Map`, `Protect`, `Unmap` and
`WriteBytes` are the methods; each chooses the outcome of the system calls it
makes. POSIX lets a failing `mprotect` have changed some of its pages: `torn`
(an observer, not in the code) remembers which. `FastmemStore` is a store of
generated code, which only `host` can stop.

*Address search.* One behaviour is one call: `CheckOptions`, then `Probe` per
iteration.

*Planning and loading.* `Elf32LoadPlan` reads one program header per step and
`Finish` is what follows the table. `Elf32Loader` takes one step per call on
the memory (`MapSegment`, `WriteFile`, `ZeroTail`, `ProtectSegment`) and
`Rollback` for the best-effort unmap loop. Between loads a client uses pages of
its own. `Elf32Loader` starts from any `WellFormed` plan of its set;
`load_plan` checks, and `PlansAreWellFormed` proves, that planning produces no
other.

*Dependency loader.* `stack` holds the activations of the recursive
`process_object`. A step is what an activation does between two calls that may
fail. The provider is an adversary: it may answer with any identity and image,
differently each time. `load_elf32` is atomic here, which `elf_loader`
justifies, except that a failed one may leave pages (`lost`).

*Symbol binding.* A behaviour inspects the objects of a graph (`InspectObject`),
then makes one call: an index that its caller holds and uses (`BeginObject`,
`LookupHeld`, `ReadEntry`), a lookup in a scope, or one for an undefined symbol
of an object. `scope` holds the cursor of the three passes with `searched` and
`expanded`, `index` the index of the object being searched, `cursor` the place
in its chain, `walk` the place in a list of version records and `requirement`
what the reference asks for. A step is one object, one symbol or one version
record. `MemoryChanges` lets the guest rewrite the tables, or the host program
protect their pages, between inspection and lookup or between the index and its
use: metadata and index are caches of memory that other code owns. Memory is in
cells of two bytes, so that every size and alignment of the tables is kept in
half its number; entries lie at their addresses as records, and what is
readable elsewhere is zero. The two hash functions are constants, any functions
of names. A string is read in one piece, where the code reads chunks of 256
bytes up to the same limit. A requirement's target object is left out: matching
does not use it. `Answer` says what a call should return: `ScopeOf` orders the
objects breadth first, `Outcome` scans the whole symbol table of each, and
`VersionOf` and `HasVersion` look versions up among all the records. They share
the decoders with the walks, and no walk.

*Relocation.* Planning, reference checks and the formulas are operators that
name the error of the first entry at fault; `Apply` is everything before the
first write. `WriteWord`, `WriteFails`, `CheckFailedTarget`, `Undo` and `Return`
are the write loop and the verified rollback. The loops keep sets (`todo`,
`applied`) with the table order, in place of vectors and indices. A `Mapped`
backend obeys page permissions. A `Faulty` one is any other implementation of
the `GuestMemory` interface: writes may fail, fail after storing, or lie.

*RELRO.* `Seal` is the preflight; `ProtectPage`, `SkipPage`, `ProtectFails`
are the loop, `RestorePage` and `RestoreFails` the reverse loop, which stops at
the first failure. `unsealed` and `limit` (observers) remember the permissions a
call found and the ceiling it was given.

*CPU and services.* A CPU step goes to any PC in either instruction set, traps,
faults or raises. A dispatch step is one slice's end, one service call or one
resumption. Services do what they like to registers and CPSR.

*Lifecycle.* `stack` holds the activations of `visit`; execution runs each
planned constructor through `A32Cpu`.

## Runs

| Run | Question | Instance | States |
|---|---|---|---|
| `guest_memory` | do the two copies of the permissions agree, are fresh pages zero, is every store permitted? | 2 pages of 2 cells, all calls, all failures | 17,298 |
| `guest_memory_torn` (violation) | do unmapped pages stay inaccessible? | the same | |
| `va_search` | first fit, and does the search end? | 5 pages, all sets of mapped pages, odd and wrapping arguments | 162,432 |
| `load_plan` | can every accepted plan be carried out? | up to 3 headers on, off and across page boundaries | 341,476 |
| `elf_loader` | exact on success, clean on failure, harmless to others? | 4 pages, 3 plans, 3 calls, every call failing | 223,104 |
| `dependency_loader` | atomic calls, valid link map, limits, termination? | 4 pages, 7 images, 2 calls | 139,879 |
| `dependency_loader_leak` (violation) | does an unreported failure leave nothing behind? | the same | |
| `relocation` | the right words, or the old ones, or an honest report? | 11 table pairs × all page states; 2 tables on a faulty backend; 2 calls | 112,572 |
| `link` | is a seal all or nothing and within its page ceiling, and is what is sealed frozen? | 3 one-word pages of any permissions, ceilings 0, 2 and 3, 2 seals, 2 relocations | 223,944 |
| `service_dispatch` | one machine under one budget? | 2 PCs, budgets 0, 1, 3, ceilings 0 and 2 | 323,916 |
| `symbol_binding` | is the answer the first eligible definition in scope order, of the requested version; do walks stay in their tables and end; is accepted metadata readable? | up to 4 objects with cycles and shared dependencies, both hash tables, chains that loop or leave the table, needs and definitions in and out of order, pages protected or rewritten later | 64,091 |
| `lifecycle` | every constructor once, dependencies first, a failure ends it? | 3 objects with cycles | 51,652 |

All passing runs pass. The two violation runs are findings (below).

*Why the bounds are enough.* Rollback loops need two things done and a third
that fails: three pages for a seal, three writes for relocation, two segments
and a placement for a load. Page arithmetic needs a page boundary inside a
range, a range that ends at the end of the address space and one that would
pass it; the header, descriptor and argument sets hold each. Cycles need two
objects, shared dependencies three; a fourth object tells an order by depth from
one by breadth. Symbol tables of up to four entries give every chain a loop, an
end and a step past the end; version lists of two records give an order and a
link that leads back. The families of worlds in `MCElf32SymbolLookup` each vary
one table over its shapes with the others fixed, as the code handles the tables
one after another. Two calls in a row show what one leaves to
the next. Budgets of 0, 1 and a little more put every limit check on both
sides. `MaxApplies`, `MaxSeals`, `MaxCalls` and `MaxRuns` bound the number of
calls only; the theorems hold for any value of them.

*Fairness.* Each `WF` says that a function that has been entered goes on to its
next step. The loops are straight-line code on the caller's thread with no lock
and no blocking call; services are synchronous by contract. Nothing is assumed
of when a caller calls, and nothing of the guest program: it is the budget that
ends a slice. In the symbol lookup the same assumption is written
`<>[](pc \notin Resting) => []<><<TRUE>>_vars`: a call in progress goes on. With
deadlock checked, as it is there, some step is always enabled, and the formula
says what `WF_vars(Step)` would. Otherwise deadlock checking is off where a bound on calls ends the behaviour, or where
a behaviour is one call.

## Theorems

Each of these holds for every value of the constants that satisfies the named
assumptions, where a run shows it for one. `ArithmeticLemmas` has what several
of them need: quotients and remainders, least members of sets of numbers,
sums that wrap, multiples and congruences, and
induction in the form "a set of numbers that has 0 and is closed under
successor has them all", which the provers can use where they cannot instantiate
the library's induction theorems. Every inductive
invariant below was an invariant of a TLC run before it was proved.

`Elf32LoaderProofs` on `GuestMemory`, for every number and size of pages and every byte set
containing 0 (`NumPagesAssumption`, `PageSizeAssumption`, `ByteAssumption`):

- `TypeCorrect`, `FastmemSafe`, `FreshPagesAreZero`: the invariants of the run.
  None is inductive alone, because whether a store lands depends on the host
  protection, and whether an unmapped page can be stored to depends on its
  agreement with the page state. The inductive invariant is
  `MemoryInv == TypeOK /\ FastmemAgrees /\ UnmappedPagesAreZero`.
- `StoresAreChecked`: the action property, from `MemoryInv`. A byte changes only
  where a store is permitted, or by an unmap that takes the page away or returns
  failure: a failed one has discarded the bytes already. It rests on
  arithmetic lemmas that every cell of a range lies on a page that
  `valid_access` has looked at.

`Elf32LoadPlanProofs`, for any table of headers with numeric fields
(`HeadersAssumption`) and a page size that is a power of two
(`PageSizeIsPowerOfTwo`; 4096 in the code):

- `PlanTypeCorrect` and `PlansAreWellFormed`, which also says that the bytes the
  loader will copy are in the image. `PlanInv` says what each program header adds
  to a plan. What no single header settles is left to `Finish`:
  neighbours that do not overlap after the sort mean that no two segments share
  a page, for any order the unstable sort may give; every page of RELRO has a
  readable holder; and powers of two of which one is larger are multiples, which
  is why the largest alignment serves every segment. A power of two is defined by
  its divisors, and the last fact is an induction in the set form.

`Elf32LoaderProofs` on `Elf32Loader`, on top of `MemoryInv`, for plans that meet the contract
(`PlansAssumption`, which `PlansAreWellFormed` justifies), file bytes that are in
the image (`ImageAssumption`) and typed arguments (`InputsAssumption`):

- `LoaderTypeCorrect`, `LoadIsExact`, `FailedLoadUndone`, `LoadLeavesOthers`,
  `PlacementIsAccepted`: all the properties of the run, from `LoaderInv`. It says
  that the segments of a call lie apart, on pages that were free when it began;
  that nothing changes elsewhere; that `mapped_ranges` is exactly what is mapped
  (the ledger that makes the rollback right); and which segments are
  written and protected at each stage. That the preflight accepts a placed base
  needs no state: the bias is a multiple of the required alignment, and of the
  page size, and the range placement looked at is the one the segments fill.

`Elf32LoaderProofs` on `GuestVaAllocator`, for every memory and any lengths,
windows, alignments and offsets (`ArgumentsAssumption`, which types them):

- `SearchIsFirstFit`, from `SearchInv`: while the loop runs its candidate leaves
  the remainder that was asked for, and no address below it would do. The first
  candidate is the least number of the window with that remainder and the next
  one a whole alignment away, so no suitable address is ever passed over; and
  where the loop gives up, at the end of the window or when one more stride
  would leave the address space, there is none left.
- `SearchServesPlacement`: `Elf32Loader` models the search inside
  `place_elf32_dynamic` by the least suitable address; when the pages it searches
  are those of the loader's memory, what the loop answers is that address.

`Elf32DependencyLoaderProofs`, with the invariant in `Elf32DependencyInvariant`
and a lemma for each step in `Elf32DependencyProcessProofs`, for any images, any
provider, any limits and any number of calls (`ImagesAssumption`, `AnswersAssumption`, `OptionsAssumption`,
which type them):

- `LinkMapAlwaysValid`, `OneOwnerPerPage`, `FailedCallRestores`,
  `GraphsAreComplete`, `LimitsAlwaysHold`: the run's safety properties, from
  `DepInv`. `Sound` is what a link map is between calls. During a call it holds
  of the link map the call began with, and `CallOK`, `MappingOK`, `ProcessOK`
  and `RecordOK` say how far the call has moved away from it: older objects are
  untouched; the mapped pages are the old ones, those of the loads to roll back
  and those lost; each activation on the stack has met as many of its needed
  names as it has edges; the global scope is right up to the object being
  recorded.
- `CallsRefineLinkMap`: the refinement. While a call runs the abstract link map
  stands still at the state the call found, so every step but the last is a
  stutter; the last is an append, a reuse, a new graph or a failure of
  `LinkMap`, which `DepInv` shows. The weak point of a proof by hand would be the
  object that is inspected and then fails: its `global` flag is written before
  the failure, and the rollback removes the object with it.

`Elf32RelocationProofs`, for any tables, symbols, load bias and memory, any junk a
faulty write may store and any number of calls (`SymbolsAssumption`,
`MachinesAssumption`, `WordAssumption`, `LoadBiasAssumption`, `JunkAssumption`; a
table that is not present has no entries):

- `RelocationTypeCorrect`, `RelocationsAreExact`, `FailedCallUndone`,
  `FailedRollbackReported`, from `RelocationInv`. The preparation leaves one
  write per relocation, at different places, with the word memory holds there.
  From there every word is the one the call found, except at the places of writes
  still applied, of the write that failed and of restorations not verified.
  Writes go in table order and are undone in reverse: so the first restoration
  that fails is the last of all in that order. On memory that obeys its
  permissions, what was written could be written, and can be again.

`Elf32LinkProofs`, for every page geometry, any descriptors, tables, symbols and
options, and any number of calls in any order (`MaxSealsAssumption`,
`MaxPagesAssumption` and `LinkMachinesAssumption`, which types the initial memory):

- `SealTypeCorrect`, `SealIsExact`, `FailedSealUndone`, `SealGrantsNothing`
  follow from `SealInv`. Its heart is a ledger: at every moment the permissions
  are those the call found, except that the pages of `changed` are read-only,
  and those pages were readable, writable and not executable. Without it the
  restore loop's correctness depends on the whole history of the call.
- `PartialSealReported` adds `OrderInv`: the protect loop goes up and the
  restore loop comes down, so what is left lies below the page that failed.
- `SealedStaysFrozen` adds `FrozenInv`: sealed pages are read-only, and were so
  when any later seal began, so its rollback has nothing to give back; and a
  relocation step makes at most one store, which the page permissions stop.

`A32ServiceDispatchProofs`, for any PCs, register values, SVC numbers, registry,
budgets and ceilings (`BudgetsAssumption`, `NoStopAssumption`,
`NoSvcAssumption`):

- `DispatchTypeCorrect`, `ResultsAreFaithful` from `DispatchInv`, the accounting
  of the loop: the instructions reported and those that remain add up to the
  caller's budget, and an instruction that trapped or faulted was not at the stop
  PC. A result names the flag that the code looks at first: a fault although an
  exception was raised too, and a trap, which raises one, never as an exception.
- `DispatchRefinesMachine`: the refinement of `GuestRun`. The machine's registers
  are those of the slice, of the service or of the result, whichever holds them;
  an instruction is a step of the machine, and starting a slice, handing its
  registers to a service and resuming are stutters.
- `ConstructorsRunInOrder`: `ExecutedPrefix` of the lifecycle, the other client of
  the CPU, for any graphs, arrays, options and guest code, from `LifecycleInv`:
  one constructor more has been entered than has returned exactly while a call
  runs or after it failed, and nothing is reported before the end.

*Only model-checked.*

- Liveness (`Termination`, `EveryCallReturns`, `EveryRunReturns` and the like):
  the prover has no fairness or `ENABLED` reasoning.
- The plan of the lifecycle. `PlanIsComplete` and `DependenciesComeFirst` speak of
  reachability (`Reach`, a recursive function) and of `SelectSeq`, about which
  the provers have no facts; each use would be an induction in the set form.
- `SealWithinCeiling`: that the union of the descriptors' pages is no larger than
  the sum of their sizes is an induction over the descriptors, through the
  recursive function that adds them up.
- Symbol binding. `Answer` is built from folds and flattened sequences, of which
  the provers know nothing without induction over data. `IndexKeepsWalkInTable`
  needs none for most of its conjuncts, and is not proved yet.
- `TypeOK` of the dependency loader: the fixed pages of an executable image lie
  in the address space for the images of the run, and no assumption says it of
  all.

## Findings

- `guest_memory_torn`: `map` returns false when `mprotect` fails and does not
  restore `PROT_NONE`, so pages it calls unmapped may be accessible to fastmem;
  `docs/architecture/cpu-engine.md:57` says unmapped pages remain `PROT_NONE`.
- `dependency_loader_leak`: when `load_elf32`'s own rollback cannot unmap, the
  aggregate call reports `LoadFailed` and pages stay mapped, where the header
  and `docs/architecture/elf32-dependency-loading.md:108` promise
  `RollbackFailed`.

## Not modelled, and the plan

Not modelled:

- the dependency resolver's provider chain and catalogue and the Android platform
  provider: none keeps state between calls, and the dependency loader's provider
  answers as it likes, which includes whatever these can answer;
- the Android log service: stateless; the dispatch model lets a handler do
  anything to registers and CPSR;
- `LinearGuestMemory`, a test backend: the `Faulty` backend of relocation allows
  more than it does;
- the bodies of the two hash functions, byte order and `to_string`: the models
  take the first as arbitrary functions and need no others;
- the Android probes under `tools/android`, which are programs that call the
  library and print;
- extension registers, which each CPU slice starts with at zero.

Lookups remain inputs of `Elf32Relocation`, which allows any outcome: the state
spaces of the two multiply, and relocation uses nothing of a lookup but its
answer.

The order of work puts first what every other part stands on:

1. done: guest memory and its proofs; address search, planning, loading;
   the dependency loader against `LinkMap`; relocation, RELRO and their
   composition with its proofs; CPU, dispatch against `GuestRun`; lifecycle;
   linker metadata, symbol index, versions and scope search.
2. done: proofs of every safety property of guest memory, address search,
   planning, loading, the dependency loader, relocation, sealing (but for its
   ceiling), dispatch and the execution of constructors, both refinements included.
3. Proofs that are left: the page ceiling, the lifecycle's walk, and `IndexKeepsWalkInTable` from
   what the index has validated.
