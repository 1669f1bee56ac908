# Volatility in TLA+

A verification development of the Volatility framework (`src/`, Python 2): models
of the parts that every plugin runs on, TLC instances that check them, and TLAPS
proofs of what matters most about them for every size.

Contents: [the system](#the-system) · [modules](#modules-and-the-code) ·
[runs](#runs-and-bounds) · [fairness](#fairness-and-stopping) ·
[disagreements](#where-code-and-documentation-disagree) ·
[proofs](#proofs) · [not modelled](#what-is-not-modelled) · [plan](#plan)

Commands, from this directory:

    tlc -workers 2 -config MCPagedMemory.cfg MCPagedMemory
    tlapm DiscreteAllocMemoryProofs.tla

## The system

`vol.py` opens a memory image and runs one plugin on it. The image is a file in
one of a dozen formats; the plugin wants kernel structures at virtual addresses.
What lies between, and how the parts call each other:

    vol.py --- conf.py            options: command line, environment, files
      |          ^ add_option, update, remove_option
      +-- registry.py             finds plugins, address spaces, profile parts
      +-- plugin.calculate() ---- cache.py         stores whole answers on disk
            |                                      (invalidated by options)
            +-- utils.load_as()   stacks address spaces, by voting
            |     |
            |     +-- paging space     intel.py amd64.py arm.py on paged.py
            |     +-- file format(s)   lime.py crash.py hpak.py vmware.py ...
            |     +-- file or device   standard.py ieee1394.py
            |     +-- profile          obj.py: types, overlays, modifications
            +-- obj.Object(...)   types laid over the stack: reads through it
            +-- scan.py           walks the stack's available ranges in blocks

| component | state | operations | hard behaviour | what makes it correct |
|---|---|---|---|---|
| Discontiguous access (`addrspace.py`, `paged.py`, `standard.py`) | position, remainder and buffer of a call; the file | `read`, `zread`, `write` | chunks cut at allocation boundaries, short reads, writes failing half way, a file that grows | every byte comes from, or goes to, its own translation |
| Page tables (`intel.py`, `amd64.py`, `paged.py`) | the tables the lister has open, the run it is joining | `vtop`, `get_available_pages`, `get_available_addresses` | two pieces of code walk the same tables; large pages; tables that are shared or map themselves | what is listed is what translates, once, in order |
| Opening an image (`utils.py`, constructors of all address spaces) | the stack, the classes still to try, the DTB left on the base | `load_as` | a greedy choice by order attributes in a dozen files; failed constructors that leave something behind | all headers unwrapped, the preferred working class on top, on the right DTB |
| Profile (`obj.py`, `addrspace.py`) | graph of modifications, applied list, `PROFILES` | `_set_profile`, `reset`, `load_modifications` | dependency cycles, unknown names, errors half way, a shared cache | dependencies first, nothing lost, no half-built profile served |
| Result cache (`cache.py`) | files on disk, signatures, a tree per parse | decorated calls, storing, invalidation | overlapping runs without locks, kills, abandoned generators, options that change on the way | an answer is whole and for the options of the run |
| Scanner (`scan.py`, skippers and constraints in plugins) | range, block, position in the buffer | `scan`, `check_addr`, `skip` | candidates across a cut, overlaps, look-behind and look-ahead | no hit lost, no ghosts, known doubles only |
| Configuration (`conf.py`, `vol.py`) | option tables, parser values, files read | `add_option`, `remove_option`, `parse_options`, `update` | the line is parsed again at every registration, stopping at the first unknown option | each option ends with what the user meant |
| Conversion (`imagecopy.py`, `raw2dmp.py`, `hpakinfo.py`, run-based formats) | range, next address, new file | `get_runs`, `translate`, copy loops | holes, odd ends, short files, segments out of order | the new image holds what the old one does |
| Hibernation (`hibernate.py`) | place of every page, bounded store of unpacked blocks | the constructor's walk, `read`, `zread` | blocks that belong to no page, chained tables, eviction, torn blocks | each page is found where it was put; reads do not depend on what was dropped |
| Kernel structures (`windows.py`, `linux.py`) | what a walk has seen, the generators at work | `list_of_type`, `traverse`, `handles` | pointers of a torn image that lead anywhere | everything listed, once, and an end |
| Process tree (`pstree.py`) | the dictionary of tasks, the calls of `draw_branch` | `find_root`, `render_text` | deleting from what the callers go through; processes that are their own ancestors | every process once, below its parent |
| Registry hives (`hive.py`) | a read in parts, the saved file, counts | `read`, `zread`, `save`, `stats` | cells across blocks, blocks the map does not tell, pages not in memory | data of the cell or nothing; a saved hive reads the same |
| Plugins | mostly none | walks and rendering | Yara scanners cut memory on their own | planned for `malfind` |

There is one thread in a process: `load_as`, a read, a scan or a copy is not
interrupted. What makes the system hard is not interleaving within a run but

* the same image looked at by two pieces of code that must agree (chunks and
  translations, lister and `vtop`, `get_runs` and `translate`);
* arithmetic at cuts (alignment, blocks, overlaps, page sizes, inclusive ends);
* state that one attempt leaves for the next (DTB, `PROFILES`, parser values,
  options that a search has changed);
* several runs of `vol.py` that share the cache directory, and die anywhere;
* order that is put together from many files (order attributes, `before` and
  `after` lists, registration of options).

The hazards are listed one by one, each at its line, in `PROJECT.json`.

## Modules and the code

Every state variable and action carries the name the code uses where it has one.
A comment `Slip:` marks a definition that is not part of the model: it is the
definition below it as a plausible mistake would leave it. Each property has one,
and fails when the slip takes the place of the definition.

**DiscreteAllocMemory** — `AbstractDiscreteAllocMemory._read` (`addrspace.py`) and
`AbstractWritablePagedMemory.write` (`paged.py`) over a `FileAddressSpace`. `Call` is
the entry of `read`, `zread` or `write`; `ReadChunk`, `WriteChunk` are one turn of the
loops, with the two asserts at their end; `WriteFails` is the base's `IOError`;
`Return` is the exit. A byte is a number telling where it comes from. The base
answers short at the end of the file, judges validity by the size the file had
when it was opened (`fsize`) and grows under writes. `AllocRemaining` computes the
chunk from the *start of the call*, as the code does. `space` is one of two kinds:
a paging space, with any `vtop` that is linear inside a page (`TranslationAssumption`) and the
page for its alignment, or a space over the runs of a file format, with the `translate` of
`AbstractRunBasedMemory` (`RunTranslate`) and the alignment that `calculate_alloc_stats` computes
(`AlignmentGcd`), of which nothing is assumed but that there is a run. `DivisionByZero` is what a
run of no length ends in. Writes to runs are `Refused`.

**PageTables** — `vtop` is the operator `Way`/`Vtop`; `get_available_pages` and
`get_available_addresses` are the actions `Skip`, `Enter`, `Yield`, `Flush`, `Finish`, `Raise`,
one per entry of a table looked at: `tables` is the nest of `for` loops the
generator is in, `page` the address of the next entry, `run` the pair
`currentOffset`/`runLength`. The three classes differ in `Depth`, `BigLevels` and `TableOf`.
An entry is what masks can tell: present (valid or in transition), page size
flag, NX, frame. **AvailableRanges** is the abstract specification: a generator
that gives the maximal blocks of a set in ascending order, and then stops. The
property `ListsMapped` is that specification with `mapped` replaced by the pages that
`vtop` translates, and `over` by `pc = "done"`.

**VotingStack** — `load_as`. `Stack(c)` is a constructor that succeeds, `Refuse(c)` one
that raises, `Finish` a round in which nobody accepts. `Accepts` translates the
`as_assert` conditions of all fourteen classes; `SavedDtb` is the assignment to
`self.base.dtb` in `load_dtb`, which comes before the check. Ties between equal order
attributes are a free choice (a Python dictionary's order).

**ProfileBuild** — `_set_profile`, `Profile.reset`, `_resolve_mod_dependencies`,
`load_modifications`. `PullLayer` is one turn of the sorting loop, `Apply` one of the
applying loop; `CyclicGraph` is the generator that stops before it has yielded;
`NotConcrete` the `RuntimeError` half way; `Compile` registers the profile in `PROFILES`.

**ResultCache** — `CacheDecorator.__call__` and `generate`, `CacheTree`, `CacheNode`,
`Invalidator`, `CacheStorage`, for several processes. `Hit` and `Miss` are the look-up, `Yield`,
`Abandon`, `Returns` the computation, `CheckDirectory`, `MakeDirectory`, `Open`, `Close` the steps of
`CacheStorage.dump`, between which other processes run and any may be killed (`Stop`).
`LateOption` is the new tree without conditions that `enable_caching` makes when an
option is added after the final parse. A file is written in place through a buffer: processes that
write one at a time write over each other, piece by piece (`Flush`). What the file then holds (`Contents`) loads or not;
if they had different things to write (`Mixing`, by `over`), it may load as an answer of one under any signature, or
as a mixture (`Mixed`) that nobody computed, until a process opens it alone and so empties it.

**BlockScan** — `BaseScanner.scan`. `FindRange`, `ReadBlock`, `Check`, `BlockDone`, `RangeDone` are the
steps of its three loops. A constraint is a condition on an address that needs
the bytes from `Back` before to `Ahead` after it; behind the end of the buffer they are
missing, before its start `BufferAddressSpace.read` takes others (negative index), so
the verdict is open. Skippers for the tag and for a prefix.

**ConfResolve** — `ConfObject` during start-up and while a plugin runs: `AddOption`,
`RemoveOption`, `RegisterGlobal` each with the parse they cause, `ReadUserFile`, `PickModule` (the
search for the plugin's name in `main`), `FinalParse`, `Update`, `MakePlugin`. `Parsed`, `Raises`,
`Words` give what one parse sees with the options known so far; `Get` is `__getattr__`.

**ImageCopy** — the runs of each format (`RawRuns` … `LimeRuns`), `Translate` with its early
return, and the copy loops of `imagecopy`, `raw2dmp` and `hpakextract` writing a new file.
`PatchContext` is the reopening of the half-written dump and the patch of its context.

**Hibernate** — `WindowsHiberFileSpace32`. The constructor is a machine of its own (`Build`): `Begin` is
the first table, `BeginRange` a range of a table, `TakePage` a turn of the innermost loop
(with `next_xpress` after every block's worth of pages), `NextTable`, `SkipBlock`, `Skipped` the step to the
next table over the blocks that lie before it, `Built` the end; `NegativeRange` and the `NoBlock…`
actions are the ways it fails. A read is `StartRead`, one `ReadPage` for each turn of the loop,
`EndRead`; `Put` is `Store.put` with its eviction. A block is its header's place, its packed
size and the length it unpacks to; a byte is named by its block and its place in it. The properties know
the layout of a file by itself (`Layout`, `Longest`), not by the walk.

**HiveMemory** — `HiveAddressSpace` and `HiveFileAddressSpace`. A read is taken apart as in the code: the first
block (`ReadWithin` if it is the only one), each full one, the rest (`ReadFirst`, `ReadFull`, `ReadRest`), each with
its own way to fail; a result is data, `None`, a `NoneObject` or a `TypeError`. `SaveBlock` and
`StatsBlock` are the turns of `save` and `stats`. The saved file is read back by the class that
inherits `read` and only changes `vtop`. `IsHive` says what a hive is: a bin is loaded as a whole,
contiguous, or not at all; the first pages of memory are empty, which is where the code looks for the
blocks of a bin that is not loaded.

**KernelWalks** — the generators `list_of_type` (the three classes of Windows and Linux are the
same, line by line), `_MMVAD_SHORT.traverse`, `_HANDLE_TABLE._make_handle_array`. A walk is a choice of memory in
`Init`; recursive generators are a `stack` of frames. **ProcessTree** composes the walk over the
list of processes with the plugin that consumes it: `Calculate` makes the dictionary, `NextRoot`,
`Climb`, `Root` find where to begin, `DrawTask` and `Return` are `draw_branch`, with `frames` for the calls
at work and, in each, the tasks it has still to come to. In which order a dictionary gives
its values is a free choice.

The `MC…` modules give the constants of these modules small values; the `…Proofs` modules
hold the theorems.

## Runs and bounds

| run | states | shows |
|---|---|---|
| `paged_memory` | 690,000 | `ReadExact`: `read` and `zread` return exactly the bytes of their range, or fail as documented; `WriteConfined`: a write touches nothing else |
| `page_tables` | 33,000 | `SameWay`: at each page the lister is in the tables `vtop` reads for it; `ListsMapped`: the ranges given implement `AvailableRanges` |
| `voting` | 415,000 | `WellStacked`, `BestStack`, `RightDtb`, `VotingEnds` |
| `profile_build` | 33,000 | `DependenciesFirst`; `NothingLost`: the profile served has every modification, and none that failed half way is served |
| `result_cache` | 1,888,000 | `RightAnswer`: of the run's own options; `AnswerWhole`: no part of an answer and no mixture, but from a file that is `Mixing`; `CacheUsed`: what is stored is used |
| `block_scan` | 699,000 | `NoHitLost`: wherever the blocks are cut; `ScanEnds` |
| `configuration` | 52,000 | `ValuesAsMeant`: in whatever order options are registered, removed and parsed, and files read |
| `image_copy` | 3,000 | `CopyFaithful`, `DumpFaithful`: the new file holds what the image holds; `SegmentsCopied`: every segment that the headers of a LiME file tell, read off the file and not off the runs; `CopyEnds` |
| `hibernation` | 7,500 | `LookupRight`: the walk puts every page in its block; `PlacesApart`: and no two in one place, in whatever file; `ReadRight`: reads are exact as far as they get, whatever the store has dropped; `Ends` |
| `hive` | 46,000 | `ReadExact`, `SavedReadsSame`, `StatsMatchSave` |
| `kernel_walks` | 68,000 | `AllListed`: all that can be reached, once; `TreeDrawnOnce`: every forest is drawn whole; `RootHasChildren`: each turn of `pstree`'s loop has something to take out; `Ends` |

Each run checks its module's `TypeOK` too, but for `VoteTypeOK` and `ProfileTypeOK`, which say nothing but types
and are only proved. The bounds, and why the cases of
interest are within them:

* *paged_memory*: three pages of three bytes and frames of which one is whole,
  one is cut off by the end of the file and one lies behind it; lengths 1, 3, 5,
  7 make calls of one to three chunks from every offset; two calls in a row
  (`MaxCalls`), so that the second meets what the first wrote, also behind the old
  end of the file. `ReadExact` and its kin speak of calls whose chunks stay inside
  blocks (`StaysInside`): aligned ones, and those of at most two chunks. The others are
  the subject of `unaligned_read`. Next to the pages, pairs of runs that touch or leave a hole, the
  second shorter, longer or empty, reaching the end of the file or passing it; lengths that the
  alignment divides and, excluded by `BlocksWhole`, one that it does not.
* *page_tables*: fan-out 2, so 4, 8 or 16 pages; four frames of which one is the
  directory and may be reached again as a table, one is not in the image; large
  pages at every level that allows them, transition entries, NX. Every mask keeps
  the offset in a page, so a page is the unit.
* *voting*: six sequences of headers, among them two nested ones, in files;
  profiles for 32 bit, 64 bit and both; good, stale and missing DTBs from header,
  scan and user; the three kinds of space a plugin may ask for.
* *profile_build*: three modifications and a name that nobody defines, in every
  combination of small before and after lists (chains, diamonds, cycles of
  length one to three), two attempts so that the second meets the first's
  leftovers.
* *result_cache*: two processes, two values of the options, the four kinds of
  cached function, two starts altogether (`MaxStarts`), with symmetry in processes:
  two values are enough to tell right from wrong, two processes to overlap or
  to follow one another. A search has an answer under both values, so that two runs write different answers over
  each other and a mixture is there to be served. `RightAnswer` is about `orderly` behaviours: no
  option is added late, and runs that overlap have the same options. The run
  covers the others too, for the remaining properties.
* *block_scan*: blocks of four bytes and three of overlap over fifteen bytes in
  one or two ranges that end inside a block, inside an overlap and on a
  boundary; every placement of up to two tags. `NoHitLost` is for scanners whose
  constraints need no more than the overlap (`ContextFits` holds of the constants).
* *configuration*: lines of two to four tokens, good and bad, known early, late or
  never, with a missing last argument; every order of registration; two updates
  or plugins made by the plugin (`MaxUpdates`).
* *image_copy*: pages of two bytes, blocks of one, two and three, so that blocks
  divide runs and do not; every format, whole and cut short; holes; chains of two and three LiME headers; segments in
  both orders, on disk and in memory. Places of the new file are looked at up to
  `OutSize`.
* *hibernation*: two tables with up to five blocks of two pages of four bytes; ranges that end with a block
  and in the middle of one, are empty, or are the same in both tables; blocks
  that unpack to less than they should, raw blocks, files cut short, a second table that
  leads back to the first, a zeroed header. `LookupRight` and `ReadRight` speak of files laid as
  Windows lays them (`WellLaid`), `PlacesApart` of all; reads of up to two pages begin on either side of
  a cut; the store holds two blocks (`Limit`), so a read of two pages already evicts.
* *hive*: four stable blocks of three bytes in two tables of the map and two bins, of which one may
  not be loaded, a volatile block, and a flat hive; up to two pages of kernel memory missing in either way; reads
  of one to four parts.
* *kernel_walks*: all 625 ways to link three entries and a head (or nothing); all 4096
  graphs of three VADs; handle tables of one to three levels, with pages shared or
  missing; for `pstree` all parents of three processes, two of which may share a number, one of which may be torn.

## Fairness and stopping

`VotingStack`, `ProfileBuild`, `BlockScan`, `ImageCopy` and `ProcessTree` assume weak fairness of the whole next-state
relation: each is a loop in a single thread that runs until it returns, and
nothing in it waits for anybody. Fairness is not assumed of any one alternative;
what ends the loops is that the code always gets ahead (`VotingEnds`, `ScanEnds`, `CopyEnds`, `Ends`).
`Hibernate` assumes it of the constructor (`Build`) and of a read that has begun (`ReadPage \/ EndRead`), for
the same reason: nobody has to begin another read, but what has begun runs on. `ResultCache` assumes nothing: a process may be killed or stop for ever
anywhere. The other modules state safety only.

All runs end in states where the program has returned or `MaxCalls`, `MaxStarts`, …
is used up, so none checks for deadlock; that the loops do not stop on the way
is what the liveness properties say.

## Where code and documentation disagree

One run is expected to fail: it checks what a docstring says.

* `unaligned_read` (`addrspace.py:224`): "If any range is unavailable it returns None."
  An unaligned read of three chunks crosses a block boundary inside a chunk and
  returns bytes of the physically following frame; `write` (`paged.py:151`) overwrites
  them.

Met while modelling; the models follow the code, and the properties name the
exception:

* "If any of these change all caches will be invalidated" (`conf.py:152-154`): after a plugin has
  made another one that adds or removes an option, the cache tree is new and has no conditions
  (`cache.py:506`); the run stores and accepts answers of any options. `RightAnswer` speaks of
  `orderly` behaviours.
* "checks every byte" (`scan.py:46`): `CheckProcess` (`filescan.py:355`) looks farther ahead than the overlap of
  20 bytes; a process across a cut is missed. `NoHitLost` has `ContextFits` for it.
* `hpakextract` (`hpakinfo.py:51`) calls the generator `convert_to_raw` and never iterates it; "Done." is
  printed and no byte is written.
* "Prevent circular loops" (`pstree.py:48`) is true of `find_root`; but where a process is its own
  ancestor and the ring has another child, that child may be drawn, and deleted, twice: a `KeyError`
  ends the plugin. And an entry of the list that cannot be read is a `NoneObject` with the number -1, which
  nothing is a child of: `pstree` goes round for ever (`pstree.py:98`). `TreeDrawnOnce`, `RootHasChildren` and `Ends` name them.
* "Calculate the starting handle value for this level" (`windows.py:471`): with three levels the
  value counts pages of the lowest level only within their page of pointers, and the handles of different
  pages share values (`windows.py:464`). `AllListed` checks values up to two levels.
* "Read data from a certain offset padded with \x00 where data is not
  available" (`addrspace.py:129`). In `zread` of a hive, what is left over behind the full blocks is added as the base gives it: if its
  block is told by the map but its memory is not there (`hive.py:145`), `None` makes the addition raise a `TypeError`, and a
  `NoneObject` swallows all that was read before (`obj.py:133`, `obj.py:146`). And a full block of that kind
  is left out instead of padded (`hive.py:130`), so that all behind it move. `FullLost` and
  `RestLost` in `ReadExact` name both.
* `zread` of a hibernation file gives fewer bytes than asked if only the end is
  missing (`hibernate.py:302`): `Longest` in `ReadRight`.
* Two runs that write different answers of one function into the same cache file at once (`cache.py:487`, no lock,
  no temporary file) may leave a mixture that loads, or one's answer under the other's conditions, and it is served until
  somebody opens the file alone: `Mixing` in `AnswerWhole`, `orderly` in `RightAnswer`.

* A page behind a PAE directory entry with NX translates in `vtop`, but is not
  listed (`intel.py:281` clears the low bits only): `BehindNx` in `SameWay` and `ListsMapped`. Over a
  file, the address is too large to seek and the lister raises `OverflowError`, which
  `intel.py:249-254` does not catch (`Raise`).
* An image that ends inside a chunk makes `read` raise `AssertionError` (`addrspace.py:251`)
  where its docstring says `None`: the last line of `ReadExact`.
* An option on the line that is not registered yet hides those behind it from a
  parse; in particular `--conf-file` behind another option is not the file that is
  read at the end of the import (`conf.py:462`), although `README.txt:138` offers it as the
  user's: `UserFile` in `ValuesAsMeant` says which file counts.
* A skip to the next prefix (`kdbgscan.py:60`) passes over the tag behind it if the scan
  starts on a prefix: `SkipToTags` in `NoHitLost`.
* Two first runs that make the cache directory at once: `os.makedirs` fails in one
  of them and nobody catches it (`cache.py:482`): `MakeDirectory`.
* A zero-length run leaves an alignment of 0, and a division by it
  (`addrspace.py:224`): `DivisionByZero`; for the conversions it is excluded by `SourceAssumption`.
* `calculate_alloc_stats` takes its alignment from the addresses of all runs but only the length of the
  shortest (`addrspace.py:194-200`). A longer run may end inside a block; the chunk that
  covers its end is read through one translation, and gives bytes of the file that lie behind the run.
  `BlocksWhole` in `ReadExact` names it.
* `crash.py:80` writes a buffer beyond the end of a run into the next one;
  `hpak.py:116` computes the rest of a section from the wrong variable. Neither is
  modelled: writing into source images is left out, and the code of the latter
  is never run.

## Proofs

Every theorem holds for all values of the constants that satisfy the named
`ASSUME`s of its module; TLC evaluates those on each run.

| module | theorems | argument |
|---|---|---|
| `DiscreteAllocMemoryProofs` | `TypeCorrect`, `LoopAssertionsHold` (the two asserts of the code), `RunBlocksLinear` (one translation serves a chunk of runs), `ReadIsExact`, `WritesAreConfined` | `TypeOK` and `LoopAssertions` together: the remainder never gets negative because a chunk is never longer (`DataLenBounds`). For runs: the alignment divides addresses and, by assumption, lengths (`AlignmentDivides`), hence ends (`SumOfMultiples`), so two addresses of a block lie on the same side of each (`SameSide`) and the first run that ends behind one is that of the other. For the bytes: `Cut` (a chunk starts on a boundary and stays in its block, where the translation is linear) and `Progress` (what the buffer holds is what the image holds); a write needs only `Cut` |
| `PageTablesProofs` | `TypeCorrect`, `ListerOnWay`, `GivesAvailableRanges` (the refinement of `AvailableRanges`) | `IInv` adds `Aligned`: the next page is the first of an entry of the innermost table. Moving on by its span leaves exactly the loops whose span divides the new page; in the others the index is unchanged (`SameQuotient`, `LoopsOnWay`). For the refinement, `Listed`: the ranges given and the open run are the listable pages below the next one; an entry is skipped only if no page of it translates, and yielded only if all do. `NxKnown` keeps the pages behind NX apart |
| `StartUpProofs` | of the voting: `VoteTypeCorrect`, `AlwaysWellStacked`, `VoteInvHolds`, `StackIsBest`, `DtbIsRight` | `WellStacked` is inductive next to types: a class that accepts has a place on this stack (`AcceptedOnTop`), one that fails changes no class (`SavedDtbKeepsClasses`). The rest needs `Tried` (classes out of the way do not accept; failing ones cannot change that), `Attributes` (what they leave in `dtb`) and `Mapping` (the paging class is the first that works), by cases over the orders of the fourteen classes |
| `StartUpProofs` | of the profile: `ProfileInvHolds`, `OrderRespected`, `WarningsAreReal`, `ProfileTypeCorrect`, `NothingIsLost` | `Layered`: what the graph still holds is the original cut down to the names left, and nothing depends on its own layer or a later one; `NothingWaits` carries it over to applying. `Sorted`: a name is in the graph or in one layer, and a ring never leaves the graph; `Kept`: what has left its layer is applied, once; `Served` is both, of the profile registered |
| `ResultCacheProofs` | `TypeCorrect`, `EntriesAlwaysWhole`, `AnswersAlwaysWhole`, `CacheGivesRightAnswers`, `CacheSignsAsGiven`, `StoredIsUsed` | three layers: types; `WholeInv` (whatever is being stored, written or served is whole, or comes from a file that is `Mixing`); `SignedInv` (in orderly behaviours every signature names the options of its answer, writers of one file agree, and no file is `Mixing`). `AnswersAlwaysWhole` is of steps: the answer that a step delivers is whole, unless the file it was loaded from was mixed. `StoredIsUsed` is of steps: only `Miss` begins to compute, and it would have to refuse an entry that `WholeInv` makes acceptable |
| `ScanCopyProofs` | of the scanner: `ScanTypeCorrect`, `NoHitIsLost` (if `ContextFits`) | `Behind`: all reachable hits that begin before the current block have been found, and in a buffer those before the position; a hit not wholly in one buffer begins in the next block's part because the overlap holds what it needs |
| `ScanCopyProofs` | of the copies: `TypeCorrect`, `CopyIsFaithful`, `DumpIsFaithful` | `Contents`: the new file holds the image's byte wherever the copy has come by (`PassedBy`) and nothing elsewhere; ascending runs are not disturbed by later ones and lose nothing to translate's early return (`TranslateOrdered`) |
| `StartUpProofs` | of the configuration: `TypeCorrect`, `ValuesAreAsMeant`, `ReadStays` | `Parses`: what is stored is what one parse of the whole line with the registered options sees; more options see at least as much (`GivenGrows`) and all of them everything (`AllGiven`). `FilesRead`: a parse that knows only `--conf-file` names `UserFile` (`ConfOptGiven`), which is read after the system's file (`ReadInOrder`) |
| `HiveMemoryProofs` | `InvariantHolds`, `TypeCorrect`, `ReadIsExact`, `SavedReadsAreSame`, `StatsMatch` | `Padded` (up to its last part a zread has data, so only what is left over can spoil it), `Ranged` (where in a read each block begins) and `RightSoFar` (what has been read so far is the cell's data, or the saved file's) carry a read from block to block; `FileRight` says the same of `save`; `StatsRight` counts the blocks that are lost, by the cardinality of the set of those looked at. A block that is there has a byte that is not zero, so the blocks of zeros in the file are those |
| `HibernateProofs` | `LookupTypeCorrect`, `EveryPageFound`, `NoPageAliased`, `EveryReadRight` | `LaidInv`: the tables behind the walk are all before this one (`Chained`), the index counts the pages taken of it (`Counted`, `TakeCount`), and the block at hand has the rank that the last page calls for (`AtBlock`), because the search behind a block finds the next of the table (`NextOwn`) and the one behind a table its first (`FirstOwn`). So each page is looked up by its rank (`AllLocated`), and nothing else is (`NothingElse`). `StoreInv`: the queue, the cache and the sum agree after every eviction (`PutFine`). `ReadInv`: what a read has got is the memory up to where it is, wherever its blocks come from (`PartIsMemory`). `ApartInv`, of every file: nothing is looked up further on than the walk is (`AsOrdered`), and its blocks and slots only go up (`SlotOfNext`), around a ring of tables as well |
| `WalkProofs` | of the walks: `EveryWalkListsAll` | `ListInv`, `VadInv`: what is listed can be got to, and what can be got to from there is listed or still ahead, in `at` or on the `stack`; at the end it is closed, and `Reached` is the least closed set (`ReachedLeast`). `HandlesInv`: the frames are a way down the table; every way ends in something listed or lies behind the frames (`Complete`) |
| `WalkProofs` | of `pstree`: `TreeTypeCorrect`, `EveryProcessDrawnOnce`, `EveryRootHasChildren` | `TreeInv`: a task leaves `data` for the table. `DrawnInv`: the rest of a call is what it would find if it began now, although the calls it makes delete (`Branching`), as the calls draw the children of different tasks (`BranchesDiffer`); each row stands right below its parent's (`OpenRow`). A climb that meets itself would be a ring (`Climbing`). `RootInv`, of any list: a climb is above a task that is still in `data` |

The assumptions say what the code relies on: an address space has whole pages (`SizeAssumption`), a
translation is linear in a page, ranges ascend where a format gives them so, a hive is one (`IsHive`), and
`None` is neither a number nor a run. Of a hibernation file (`ImageAssumption`) and of the memory that is walked
(`WalkAssumption`) it is assumed that there is something to read wherever a pointer is followed: links may be wild, but
what they are read from has the fields of a table, a node or a page; a torn entry of a list is in the model. What makes a
hibernation file one that Windows wrote (`WellLaid`) and a list of processes a forest (`RingFree`, `Whole`) are
conditions in the properties, not assumptions. Of runs of `AbstractRunBasedMemory`, dependencies of
modifications, interleavings, images and page tables nothing is assumed.

The invariants are needed because none of the properties but `WellStacked` is
inductive: each speaks of the end of a loop, or of one moment of it.

What can be reached, and where a page of a hibernation file belongs, is stated by least closed sets
and ranks (`Reached`, `TablesFrom`, `Rank`), not by recursion: that is how it reads best, and the
prover has no induction over data. The one sum in a property (`StoreSize`) is a recursive function, which the
proofs replace by any function with the same equations (`Sums`).

`StartUpProofs` covers three modules: what `vol.py` does before a plugin reads memory. Their names do not clash, so
that one proof module can extend them all; `ScanCopyProofs` and `WalkProofs` are alike.

All invariants that the runs check are theorems but `SegmentsCopied`, and so are `AnswerWhole`, `CacheUsed` and the refinement
of `AvailableRanges`. `SegmentsCopied` needs what the recursive function in `LimeRuns` computes, and is only model-checked.
`NoFalseAlarm` is only proved (`WarningsAreReal`). Also only model-checked is liveness (`VotingEnds`, `ScanEnds`, `CopyEnds`, `Ends`): it needs ENABLED and
fairness, which are out of the prover's reach. That a step is possible in every state of a loop, and that the loop gets
ahead, is therefore shown within the bounds of the runs only.

## What is not modelled

`PROJECT.json` lists every component with its reason. In short:

* data without behaviour: three quarters of the source are vtypes, tables of offsets generated
  from debugging symbols for each version of Windows (140,000 lines), of which a definition could
  only be a copy. Then the object model's conversions, DWARF, formatting of output. The share of the
  source that the models cover is small for this reason;
* plugins that walk structures of one image and print them (Windows, Linux, Mac,
  GUI, most of malware and registry): no state beyond the walk;
* hardware and build tools: FireWire driver, acquisition module, installers;
* a loop that a ring in the image never lets end: `full_key_name` (`windows.py:866`);
* in hibernation files, a block that the file cuts off right behind its header (`hibernate.py:288` raises a
  `TypeError`), and a signature that lies across two pieces of 1024 bytes, which `next_xpress` would not see and an
  aligned file cannot have;
* parts planned below: ARM, cells and keys of a registry, Yara scanners, patcher, import of plugins.

Abstracted inside the modelled parts: contents of headers (to the format they
belong to, the DTB and the runs they give), what a constraint of a scanner or a
modification of a profile does (to a condition), types of option values beyond
good and bad, path names of cache files. A cache file that two processes wrote at once with a hole between
their pieces does not load (no answer has a string as long as a whole block); any other mixture may.

## Plan

Modules in order, the most important behaviour first; those above the line exist.

1. `DiscreteAllocMemory`, `VotingStack`, `ProfileBuild`, `ResultCache`, `BlockScan`, `ConfResolve`, `ImageCopy`,
   `PageTables` with `AvailableRanges`, `Hibernate`, `HiveMemory`, `KernelWalks` with `ProcessTree`.

---

2. Compose: the ranges of `ImageCopy` and of `PageTables` as instances of `AvailableRanges`, and
   their `Translate`/`Vtop` as a `Translations` of `DiscreteAllocMemory`, so that the assumption of one
   module is a property of another.
3. ARM as a fourth class of `PageTables`: its sections, masked as if they had 2 MB, and a lister that
   yields every page, mapped or not (`arm.py:162`), which `AvailableRanges` does not allow.
4. `YaraScan` (`malfind.py`): blocks with an overlap of 1024 without removal of doubles, ranges
   joined, a range that starts before the offset skipped.
5. Cells and keys (`rawreg.py`) over `HiveMemory`; `Patcher` (`patcher.py`: patchers are removed from the list
   that `scan_page` is going through, and later ones are compared with the page as it was before the
   patch); `BufferAddressSpace`, `PluginImporter`.

Theorems worth proving next: the refinements of 2., of which the assumptions of `DiscreteAllocMemory` are the
goals; that the variants by which the loops end (blocks left, names in the graph, classes not tried, tasks in the
dictionary) fall with every step, which is the part of liveness that needs no fairness.
