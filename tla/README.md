# nodrill, specified and checked

nodrill passes values down a call tree without arguments: `provider()` opens a
block, `use()` anywhere below it finds the value.  This directory holds TLA+
specifications of it, the TLC runs that check them on small instances and
TLAPS proofs of the main safety properties for instances of any size.
`PROJECT.json` lists the runs, the source lines each definition stands for, the
hazards of the code and the findings.

To check a module: `tlc -workers 2 -config MCRegistry.cfg MCRegistry`; to check
a proof: `tlapm RegistryProof.tla`.

## The system

| part | state | operations | what makes it correct |
|---|---|---|---|
| provider registry (`_core.py`) | one ContextVar with an immutable mapping and the chain of open blocks; per provider object a token and the mapping it installed | enter, exit (in order, out of order, from another context), lookup, `isolate()` | a lookup answers with the innermost open block; a close takes out that block and nothing else; an orphan is reported, and only an orphan |
| context carriers (`_concurrency.py`) | snapshots of contexts | `wrap()`, `Executor.submit()` | a child sees what was open when it was made |
| lazy values (`_lazy.py`) | per cell a lock, owner, value, error, context | read, build | one build, one outcome for all readers, in the declaring scope; nobody waits forever |
| declarations (`_declare.py`) | catalogue, waiting declarations, firing counters, notes, the last scan | `declare()`, scan, count a fallback, snapshot, restore | no declaration missed or landed twice; the keys of modules stay, the declarations of blocks go |
| refs (`_refs.py`) | the target of each ref, the count of resolutions, weak lists of refs created | resolve, `resolve_refs()`, snapshot, restore | resolving twice is harmless; the count tells a scan when it is due |
| defaults (`_core.py`) | process-wide table of factories | `set_default()`, fallback, rollback | a fallback of a suspicious class is counted |
| debug ledger (`_debug.py`) | switches, open and closed blocks, read marks, owners inside mappings | `debug()`, record enter and exit, diagnose, count reads | a block read is not reported unused; what a diagnosis says was so |
| contract audit (`_audit.py`, `_debug.py`) | recorded facts per process, shard files of all runs | arm, record, exit hooks, merge, render | no fact lost between memory and disk; a contract is of one run and leaves nothing out |
| portable state (`_portable.py`) | the codec, envelopes | `export()`, `adopt()`, `set_codec()` | an envelope shares nothing with a namespace; one codec serves a call; what is adopted is what was exported |
| injection (`_inject.py`) | the wrapper of each function, or the one its first call builds | `@inject`, a call | a wrapper binds as the call it replaces would, resolves after that, and lets no sentinel through |
| namespaces and their views (`_core.py`, `_sealed.py`, `_frozen.py`, `_views.py`) | attributes, a scope per sealed entry | enter, extend, expire, write through a view | a seal ends with its own entry; nothing but a write through a view changes a namespace |
| ambient attributes (`_ambient.py`) | a ContextVar with a dict | get, set, delete | a write is seen only in its context |
| messages (`_errors.py`, `_report.py`) | none | format | text only |

The parts meet in three places.  Everything that publishes a value goes through
`_Provider.__enter__` and `__exit__`, and every lookup through one mapping, so
the registry comes first.  A lookup that misses consults the defaults, and on
the way the declarations, which in turn wait for refs.  `isolate()` sets the
registry aside and rolls declarations, refs and defaults back.

What is hard to test: blocks that close out of order or in a copied context,
where tokens point at stale mappings; threads reading a cell that is being
built by a factory which itself reads cells and may be cancelled; a scan of
waiting declarations racing the resolutions it waits for; the roll-back of
process-wide tables under other threads' feet; processes that fork, are killed
or share a directory while they record; a codec swapped, or a container written
into, in the middle of an export; and two threads making the first call of one
function.

## Modules

| module | what it is |
|---|---|
| `Registry` | the registry, the contexts, `isolate()` of the registry |
| `Scoping` | what the registry promises: plain nested scopes, no tokens, no repair |
| `Lazy` | lazy cells, their lock and their builds, threads reading them |
| `Catalogue` | declarations, refs, counters and defaults, `isolate()` rolling them back |
| `Ledger` | the debug ledger, read counting and entry points in instrumented mappings |
| `Audit` | recording processes, their exits and crashes, shards, the contract they add up to |
| `Inject` | what `@inject` makes of a function, and a call of it lookup by lookup |
| `Views` | namespaces and the extending, frozen and sealed views of them |
| `Portable` | `export()`, `adopt()` and the codec, on top of `Views` |
| `RegistryProof`, `LazyProof`, `CatalogueProof`, `LedgerProof`, `AuditProof`, `InjectProof`, `ViewsProof` | theorems about the module each is named for |
| `PortableProof` | theorems about `Portable`, on top of `ViewsProof` |
| `MCRegistry`, `MCLazy`, `MCCatalogue`, `MCLedger`, `MCAudit`, `MCInject`, `MCViews`, `MCPortable` | instances for TLC |

### Registry

A context is a `contextvars.Context`; `CopyContext` is what a task, `wrap()` and
`Executor.submit()` do, `StartThread` a plain thread.  A block is one provider
object.  It can be entered again after it closed, and an `Entry` (object, home
context, `isolate()` frame, time) stands for the value one entry publishes, so
the specification tells the values of two entries of one object apart: the code
does for lazy, extending and sealed providers, and for the rest two entries
publish equal values.  A mapping is a value with `by`, the entry that built it:
the code compares mappings by identity and only with one an `__enter__` built.
The chain is a set ordered by entry time, which entering (append) and closing
(filter) maintain.

| code | specification |
|---|---|
| `_Provider.__enter__` | `Enter` |
| `__exit__`, `_unwind` | `ExitInOrder`, `ExitRefused`, `ExitRepaired`, `ExitAbsent`, on `Leave` |
| `_repaired` | `Repaired`, `Restored`, `Candidates` |
| `isolate()` | `IsolateEnter`, `IsolateExit`, `IsolateRefused` |

`closed` and `frame` are history variables.  A repair is one step: it reads the
`_entered` of the blocks on its chain once each, and nothing else of them.

`Scoping` is the abstract specification: each context has a set of entries, a
lookup shows the latest under the key, a close removes its entry.  It is what
the registry implements when blocks are closed where they were opened, inside
the same `isolate()` frame, once the contexts that inherited them are over
(`StructuredSpec`); out-of-order closing within a context stays allowed.

### Lazy

Cells are numbered outside in; the snapshot of cell i holds cells 1 to i, so a
factory reads those and possibly its own.  A frame is one `resolve()` on the
stack of a thread; a cell is on a stack at most twice, the second time for a
factory that reads its own value.  Taking the lock, deciding under it, running
the factory, settling and releasing are steps of their own.  A factory may
return, return its own view, raise an `Exception`, which is cached, or a
`BaseException`, which is not.

### Catalogue

`_lock` makes one registration atomic.  A scan holds it too, and asks the waiting
refs one after another (`Ask`, the last ones in `Scan`) while other threads go on
resolving them; what it found lands at once, as it ends.  What runs outside the
lock is a step of its own: the test whether a scan is due, the walk of a ref, the
assignment of its target, the count, the read and the write of a counter, and both
halves of putting the defaults back.  What a ref names is
chosen once in `Init`: a class, a string, or something no lookup takes.  A
declaration is a serial number with the two marks the code acts on.  `isolate()`
is used by one thread and nests, as the fixture it is meant for does; its
snapshots are taken in one step.  Serials, and the sets `landed`, `promised`
and `forgotten`, are history.

### Ledger

Blocks, chains and repairs are those of `Registry`, where each block is closed by
the thread that opened it; a mapping carries its instrumentation besides, the
entry each key's reads are credited to and the entry point it answers to.  An
entry also stands for the `_Reads` object minted for it, and `hit` is the set of
those marked.  The switches are tested without the lock, so entering takes three
steps (`Enter` tests `watching`, `TestRecording` tests `recording` and `counting`,
`RecordEnter` writes the ledger and installs) and leaving two (`Exit` unwinds,
`RecordExit` files).  `debug()` blocks are opened and closed by anyone at any
time; `NODRILL_DEBUG` is one that is never closed.  A warning is not a state: a
counted record that is not `hit` when it is filed is what gets reported.  `read`,
`late` and `exited` are history.  `late` holds what was recorded after the last
`debug()` block had wiped the ledger, which the unlocked test allows; such a
record is the one thing found in a ledger that is off, and such a block may be
reported unused although it was read.  `read` holds the entries whose value
answered a lookup below them, that is over a mapping with the entry on its chain.
The memory of exits is a pair of ordered dicts: `Popped` is `dict.pop()`.

### Audit

A process starts on its own, is spawned, or is forked with its parent's memory.
A fact stands for a line of the shard.  A main process leaves through two hooks
(the finalizer and `atexit`), a forked worker through the finalizer it registers
again, a spawned one through either number.  `_dump` is taken apart into the
copy, the `clear()`, the open, the buffers that reach the disk and the close, so
that a kill, a full disk or a thread that still records can come between any
two.  A shard cut at the end of a line or inside the last field reads back as a
whole one with fewer facts or a shorter key; one cut before that is refused.

| code | specification |
|---|---|
| `_arm`, `_finalize` | `Start`, `Spawn`, `Fork`, on `Armed` |
| `_note`, `_record_fallback` | `Note` |
| `_dump`, `_write` | `Copy`, `Forget`, `Open`, `WriteSome`, `Write`, `Fail` |
| `_merge`, `_parse`, `_visible`, `_unseen`, `_contract` | `Current`, `Merged`, `Legible`, `Visible`, `Unseen`, `Renders` |

Rendering reads the directory and changes nothing, so it is an operator and may
happen at any moment.  Runs whose last writes have one mtime tie, and either may
be rendered.  `owed`, `later` and `broken` are history.  What a thread records
between the copy and the `clear()`, or after the last hook, is lost: the
properties speak of what was recorded before the exit began.

### Inject

A parameter has a kind, a default and a marker; `Header` is the signature the
wrapper is compiled with, and its arguments are bound by `Bind` as the
interpreter binds them.  `Dispatch` is a call of what the caller holds, which for
a forward reference is the deferred wrapper; `Build` and `Store` are two steps,
since two first calls may build at once.  Each lookup is a step (`Marker`,
`Name`), and what it finds is open: an instance, an attribute, neither, or a
miss.  An argument remembers the lookup it came from.  A module is decorated in
one step, before or after the forward reference it holds is defined.

The sentinel may reach a body as the default a parameter without a marker was
written with, which `NoSentinelInBody` allows: `@inject` takes no part in it.

`Overlooked` are the deferred functions that ask for injection where the code does
not see it.  `_mentions_marker` looks for the marker's name, and only in annotations
that are still strings.  It misses a marker behind an alias, and also one that was
evaluated beside another annotation that was not: without `from __future__ import
annotations`, `def f(db: FromCtx[Db] = injected, x: "Later" = None)` called before
`Later` exists is passed through, for good, and `injected` is what its body gets.
The instance has such a function (`hidden`), and the two properties it matters to
name it as their exception.

By-name fills pass over `self` and `cls`.  A caller that passes the sentinel itself
is, to the code, one that passed nothing; the model has no such caller.

### Views and Portable

`Views` has the four kinds of provider under one name or more, re-entered,
layered and inherited by one task from another.  A namespace is a function from
attributes to values, and a container is known by its identity, so that sharing
it shows.  The "own" side of a view is what the block is yielded, the "public"
side what `use()` returns, and `Write` goes through either, of any entry ever
opened, by anybody.  A sealed block's exit takes two steps, `Expire` and
`Unwind`.  Blocks close innermost first within a task; `Registry` has the other
orders.

`Portable` adds calls of `export()` and `adopt()`, a step for each namespace, and
`SetCodec`, which may come at any moment.  A codec's half is a function of
values (it renders the one value JSON cannot hold as a scalar, or reads that
back) that may raise.  `via` and `was` record, for the properties, which codec
carried a namespace and what it held.  An envelope may be adopted by reference
and repeatedly, and payloads from elsewhere may be malformed or of another
version.  Providers are all made before the first step.

The assumptions on the constants say that the kinds of thing they stand for are
told apart: a provider is not the number of an entry, a scalar is no container,
what a container holds is no namespace.

## Runs

| run | question | bounds |
|---|---|---|
| `registry` | any order of closing, from any context: ghosts, innermost answers, lost blocks, false orphans | 2 contexts, 3 objects (2 under one key), 1 `isolate()`, 4 entries and isolations |
| `structured` | does the registry implement `Scoping`? | the same |
| `leak` | "a block closed from a context it did not open in ... `OrphanedProviderWarning` reports": refuted | 2 contexts, 2 objects |
| `lazy` | one builder, one outcome, declaring scope, lock order, every read ends | 2 threads, 2 nested cells, 2 runs of a factory, 2 reads a thread |
| `catalogue` | nothing missed, counted, modules' keys kept, blocks forgotten, landed once | 2 threads, a class, a name, a ref, 2 declarations, 1 block |
| `module_lost` | "a declaration a module body made ... stays": refuted | 1 thread, 1 block, a class, a name, a ref, 2 declarations |
| `ledger` | reads credited, records truthful, keys remembered, entry points right | 2 threads, 3 objects (2 under one key, the other a declared boundary), 3 entries, 2 exits remembered, 2 nested `debug()` blocks for a lone thread, 1 with two |
| `audit` | nothing lost on the way to disk, one run per contract, nothing left out of it | 2 processes, 2 runs, 3 facts under 2 entry points, 1 recorded late, a cap of 2 |
| `inject` | no sentinel in a body, explicit arguments win, errors in the right order, one source | 2 threads, 6 functions of up to 5 parameters |
| `views` | a seal ends with its block, only writes change namespaces | 2 tasks, 4 providers of one name, 1 attribute, 3 entries |
| `portable` | envelopes apart, one codec, arrives as itself, the namespaces unchanged | 1 task, 2 names, 2 calls, 1 envelope, 2 foreign payloads, 1 codec |
| `codec_reached` | "a malformed payload is refused without reaching the codec at all": refuted | the same |

Three objects are the smallest number with a repair whose key another block
still owns while a third block is open under another key; two contexts give
every mixture of home and foreign closes; a clock of four lets an object enter
twice around two others.  Two nested cells and two threads give a wait under a
lock in either order, and a second run of a factory is what a cancellation
needs.  A declaration that waits and one that lands, with one ref and a block
between them, is every case `_restore` distinguishes.  Three entries give an outer
block, one that shadows it and one between or above under another key; two
nested `debug()` blocks let counting stop while recording goes on; three exits
in two threads overflow a memory of two.  `KnownOrGone` holds for programs with
no more keys than the memory of exits has places: with more, the oldest trace of
a key is dropped too.

Two processes are a parent and its fork, or the writers of two runs in one
directory; a cap of two is met by three facts.  The six functions have a marker
of each kind before and after a required parameter, keyword and positional, a
by-name source with and without own defaults beside a `self`, and a forward
reference with a marker, with one that does not show, and with none.  Three entries re-enter a sealed object around, or
after, another block; one task and two calls are an export followed by an adopt,
with a write and a swap of the codec anywhere between.

Deadlock checking is off in the registry, catalogue, ledger, audit, views and
portable runs: their behaviours stop at the bounds (`MaxClock`, `MaxSerial`,
`MaxCount`, `MaxFired`, `MaxDepth`, `MaxEntries`, `MaxCalls`, `MaxEnvelopes`) or,
in `audit`, when every process is gone, and an application may simply stop
opening blocks.  `Lazy` ends in `AllRead` and `Inject` never ends, so a deadlock
there would be one.

Fairness is stated for `Lazy` only: each thread, once inside a read, keeps
taking steps it can take.  A runnable thread is scheduled; a lock that is free
is taken by whoever waits for it, which with as many waiters as threads and a
bounded number of reads needs nothing stronger than weak fairness; and a factory
ends.  An application is not obliged to read, so `Read` has no fairness.

## Proofs

Each `...Proof` module has an inductive invariant, shows that the initial states
satisfy it and that every action keeps it (one lemma per action), and derives the
properties from it, with nothing assumed but the named assumptions on the
constants.  The invariant is `IInv` in `Registry`, `Lazy` and `Catalogue` and in
`AuditProof` and `InjectProof`, `LInv` in `LedgerProof`, `VInv` in `ViewsProof`, and
`PInv` with `RInv` in `PortableProof`.  Where a later result needs more, a second
invariant holds the first as a conjunct: `SInv` (the structured registry), `OInv`
(the order of locks), `HInv` (roll-back), `BInv` and `CInv` (the ledger).  Among the
assumptions is `NoSavedAssumption` (the mark for "no mapping" is not a saved
state), which a model value satisfies.  Four theorems are listed for what no passing
run checks: `WrittenOnce`, `HeaderCompiles`, `NoCircularWait`, and
`StructuredLeaksNothing`, whose property the run `leak` refutes for programs that
are not structured.

* `RegistryProof`: `TypeOK`, `NoGhost`, `LookupInnermost`, `OpenStaysReachable`
  and `NoFalseOrphan`.  The properties speak of current mappings, and a token or
  an `isolate()` frame brings an older one back, so `IInv` says them of every
  mapping that can still be installed (`Held`).  The step that matters is an
  ordinary close: resetting is safe because the mapping a block installed is
  what its token restores plus that block (`AddsItself`).  That frames set aside
  differ from each other (`FramesApart`) and keep their blocks (`SetAsideKeeps`)
  makes `isolate()` safe.  Also `ImplementsScoping`: every structured step is a step
  of `Scoping` or a stutter.  `SInv` is what the discipline adds to `IInv`: a context
  that is not over knows of no block that is gone (`AllEntered`), the entries it made
  itself are open and of its current frame (`OwnOpen`), and what a token restores is
  older than the block.  So an exit always takes the ordinary path, and what it
  restores is what the scope held.
* `LazyProof`: `TypeOK`, `OneBuilder`, `OneOutcome`, `RunsInScope`, `LockOrder`.  The
  lock is held once per frame past the acquire (`LockHeld`), a factory's read of its own
  cell gets no further than a refusal (`SelfReadRefused`), the owner is the
  thread that runs (`OwnerRuns`), and only a settled cell hands anything out
  (`HandsOutOutcome`).  Of two cells a thread is reading, the inner one runs
  its factory (`NestedReads`), which orders the locks; with that, and a lock with a
  holder being held (`HeldOnce`), no circle of waits can close (`NoCircularWait`).
* `CatalogueProof`: `TypeOK`, `SuspiciousCounted`, `ModulesKept`, `BlockForgotten`,
  `LandsOnce`, and `NothingMissed` where no two increments of the count overlap
  (`Indivisible`).  A scan never records a count that was not reached (`ScansBehind`), so a resolution
  that follows is noticed, also one of a ref the scan had asked too early
  (`AskedTooEarly`; only the thread with the lock asks, `OneAsks`); every step that adds or brings back a waiting
  declaration forces the next scan.  `PromisesWait` keeps the declarations of
  modules apart from those a block may take with it.  `HInv` follows a declaration
  through everything that could bring it back: what was rolled back is in no table, no
  waiting list and no snapshot (`Remembered` says it of `Around`), which holds because
  a snapshot has only what was declared before its block and blocks nest
  (`SavedInOrder`); and what landed waits again only inside a block, or between its
  end and the scan that end forces (`Relanding`).
* `LedgerProof`: all of `Ledger`'s properties.  A block that is being entered is
  not open and has no handle (`Busy`, `Handles`), so a record never replaces
  another's.  `Sound` says the label is right of every mapping a context, a token
  or `_entered` holds; `Newer` is the lemma that makes the shortcut of `Label`
  right: one more block changes the entry point only by being a boundary or the
  first.  `KnownOrGone` needs that no key is forgotten twice (`Books`), so that the
  forgotten keys are never more than there are keys.  `ReadsCredited` needs
  `Crediting`: in every mapping that is current or can come back, a value of an entry
  due is credited to that entry.  A repair keeps it because what it restores is what
  an open block provides (`Provides`); a plain mapping, which drops all credits, is
  installed only when nothing is due (`Marks`).  The attempt at this proof showed
  that the property, first stated for every read, is false with four entries; see
  the list under Findings.
* `AuditProof`: `TypeOK`, `NoneLost`, `ContractComplete`, `ContractIsOfItsRun` and
  `NothingTwice`.  A fact owed is in the copy, on the disk, or still in memory if no
  hook has copied it (`Held`); of the hooks to come only the one writing has a file
  (`Opened`); and what memory holds once a hook has forgotten was recorded since
  (`Forgotten`).
* `InjectProof`: all of `Inject`'s properties, and `HeaderCompiles`.  A call goes
  through the markers, then the names: `MarkersSound` and `NamesSound` say which
  parameters are filled how far along it is, `Filling` that a sentinel is only where
  a fill is due, `Traced` where an attribute came from, `Harmless` that the bare
  function is called only where there is nothing to inject or its marker was
  overlooked.
* `ViewsProof`: `SealFollowsBlock` and `ChangedByWrites`.  A scope belongs to one
  entry (`Entered`), a task's stack names no entry twice (`Stacked`), and a sealed
  entry is on its task's stack until it expires and from then on at most on top
  (`Follows`).
* `PortableProof`: `TypeOK`, `EnvelopeApart`, `OneCodec`, `ArrivesAsItself` and
  `ChangedByWrites`.  The containers a call builds are known by its number and by the
  name they were built for (`Calling`), no namespace holds one before `adopt()` opens
  that name's block, and those of an envelope are of a call that is over (`Apart`):
  so no write reaches them.  `RInv` then says that an envelope carries `Dumped` of
  what was, and that what `adopt()` built is `Loaded` of what the payload carries
  (`Faithful`, `Round`); loading undoes dumping (`Undone`).

Model-checked only: `ReadsEnd`, since liveness under fairness is out of the prover's
reach, and the refuted properties.  Every other property a passing run checks is
stated by a theorem.

## Findings

Three runs refute something the repository says; `PROJECT.json` quotes each.  A
child that copied its parent's context, and opens nothing itself, closes the outer
of the two blocks it inherited: it repairs its own mapping, nothing warns, and the
value stays in the parent (`leak`).  A declaration made before an `isolate()` block can land over the
one a module made inside it (`module_lost`).  A payload whose second namespace is
malformed has had its first loaded by the codec before it is refused
(`codec_reached`).

Other places where code and text disagree were met on the way and have no run of
their own:

* `_core.py:132`: a child context can lose a key it inherited to its own
  out-of-order close, because the repair looks for an heir by `_entered`, which the
  parent has reset.
* `_lazy.py:127`: the comment says that the context is "Entered at most once"; a
  factory that a `BaseException` ended leaves it in place, and the next read enters it
  again.
* `_core.py:750`: the defaults are gone for an instant at the end of an `isolate()`
  block, between the `clear()` and the `update()`.
* `_debug.py:306`: a task that inherited a block which is closed and entered again
  elsewhere can be handed the new entry's value by the repair of another block,
  over a mapping that counts nothing.  That read is credited to nobody, and the block
  warns although something read what it provided (`docs/content/ref/debugging.rst:56`:
  "a provider nothing read warns as its block exits").  It takes four entries, and
  `ReadsCredited` speaks of lookups below the entry only.
* `_debug.py:394`: a counted block is credited with the reads of an uncounted block
  that shadows it, so it may escape a report.
* `_refs.py:87`: the count of resolutions is an unlocked increment, which the GIL
  makes safe enough and nothing else does; `NothingMissed` is stated for `Indivisible`
  counts.
* `_inject.py:654`: only annotations that are strings are searched for a marker, so
  the function shown under Inject is passed through where
  `docs/content/ref/inject.rst:40` says "A name that never resolves raises
  :exc:`NameError` at call time, naming the function, unless no annotation on it asks
  for injection at all".  It stays bare once the name exists.  The comment at
  `_inject.py:646` names the alias only, and says that it "only loses the clear
  error".
* `_audit.py:89`: a shard torn inside its last field reads as a whole one, where
  `docs/content/misc/design.rst:529` says that a truncated shard is a message.

## Not modelled

* Ambient attributes (`_ambient.py`): a dict in a ContextVar, copied at each write.
* Message texts, notes on exceptions, key descriptions, the ranking and wording of a
  diagnosis, the summaries and the command line of the audit.
* The forwarding of operators and dunder methods by cells and views; the text of the
  source `@inject` generates; variadic and positional-only parameters and async
  functions, which take the same path.
* Reserved names, checks of argument types, containers that hold containers or
  themselves.
* The weak lists of created refs, their sweep, `resolve_refs()` and the walk of
  modules that looks for one.

## What is left

1. Refs created in blocks: the weak lists, their sweep and `resolve_refs()` while
   other threads create refs.
2. Portable state across two tasks that share a provider object, and containers
   that hold containers.
3. As theorems: that calls under way with different codecs and overlapping
   `set_codec()` leave each other's results alone, and the abstract specification of
   a lazy cell, which hands every reader one outcome.
