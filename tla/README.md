# chjcxx in TLA+

chjcxx is a set of C++ libraries: header-only templates (`common-include`), a
library of system helpers (`gadgetlib`), an option parser (`getopt`) and a
portable printf (`mm_snprintf`). They share no process and no central state;
what makes them interesting to a model checker is that most of them are small
objects with a long life, called by code their author never sees, often from
inside their own callbacks.

Nine components are modelled. Sections 3 to 11 describe them, section 12 the
runs, section 13 the proofs, section 14 what is not modelled and why; section 2
is the plan: what has been done, and what is worth doing next.

## 1. Inventory

| component | state it keeps | operations | what is hard | what makes it correct |
|---|---|---|---|---|
| `CCircBufws` (`CircBufws.h`) | head and tail pointers, block with a shadow area, peak usage, debug count | put, overwrite, get, clear, shadow peek and retrieve, reset | full against empty, rewinds at the boundary, a device that writes at the tail while the consumer calls in | a bounded byte queue; pointers in the block; the tail still while a device writes |
| `hashdict` (`hashdict.h`, `enumor_helper.h`) | open-addressing slots, trove of entries in insertion order, dummies in both, counts, session lock | set, get, delete, rename, compact, clear, copy, enumerate | probe paths over dummies, rebuilds, what a walk postpones, tail entries used again | an ordered dictionary; slots and trove agree; every key found; the lock counts the walks |
| `CxxWindowSubclass`, `Cxx_delete_this_helper` | the hooked window, the signature, counts of calls under way and of deletions asked for | attach, detach, fetch by window, the window procedure | every call may come from inside the object's own callback; the window may die first; `delete this` | freed once, after its last call; object, property and procedure chain agree |
| `CHwndTimer` | window, ticking flag, counts, end tick | start, stop, the two callbacks | start and stop from inside the callbacks, tick wrap-around, messages in the queue | timer and object agree; as many callbacks as asked for; a run that was to end ends |
| `CPlaySound` (`IPlaySound`) | what is open, plays started and finished, abort flag | register, open, play, stop, close, two notifications | a driver's thread, a message queue, and notifications that are dropped | `Playing' means an end is still to come, and ends; an aborted play is not reported as a success unless another was begun meanwhile |
| `TScalableArray`, `TScaWithLocalBuf` | block, element count, storage count, growth policy | set count, insert, delete, append | storage rounding against the maximum, a growth that fails half way, object life cycle | a sequence; storage always covers it |
| `cxx_stack` | an array, a session count | push, pop, enumerate | lock across copies | a stack that does not move under a walk |
| `CBufferedLogfile`, `CMmLogfile` | buffer, dirty count, file, sticky error | start, append, flush, end, log a line | three ways to write, writes that fail or are cut short, crashes | the file is a prefix of what was accepted, but for bytes a short write dropped; a crash loses less than a buffer |
| `sdring`, `sdrings` | string buffers, array of strings | assign, set size, insert, delete | index arithmetic | sequence insertion and deletion |
| `ListnodeOpEase`, `DlOpe` | the client's links | insert, remove | heads, ends, lists of one | sequence operations |
| `CalSpeed` | last total, last millisecond | accumulate, speed, print | 32-bit wrap-around, integer casts | the printed number is the quotient |
| `sgetopt` | permuted argv, scan position, static ordering | next option, scan again | exchange of unequal runs, abbreviations, optional arguments, contexts that share the ordering | every word read once, in order; operands in order at the end |
| `mm_snprintf` | position in format and buffer, settings, nested calls | print, append, allocate and print, dump bytes | truncation against counting, formats in formats, signs and zeros, dump columns | the buffer is the beginning of the text; the length is the text's; numbers and dumps read as given |
| `getch`, `simple_thread` (Linux) | terminal attributes; the start parameter | timed read; create, wait | restore on every path; who frees it | attributes as before; freed once |
| `MenuTracker`, tooltips, `DataXIni`, `JAutoBuf` | one small protocol each | see `PROJECT.json` | order of the system's messages | see `PROJECT.json` |
| encodings, time, paths, formatting, layout | none | conversions | boundaries | candidates for bounded checks |

The components interact by calls only. `hashdict` keeps its slots and its trove
in two `TScalableArray`s and its keys in `sdring`s; `cxx_stack` and `hashdict`
share `enumor_helper_st`; the edit-box and combo-box adjusters and the layout
derive from `CxxWindowSubclass`, and so does the hook by which `CPlaySound` sees
its notifications; `CMmLogfile` prints its lines through `mm_printf_ct()` into a
`CBufferedLogfile`. Windows, terminals, files and devices are the
system's and are modelled from how the code uses them. None of the classes locks
anything: each is meant for one thread, and what interleaves is the client, the
callbacks and the system. Only `CPlaySound` is called by a thread of the system's,
and `sgetopt` shares a static variable between its callers.

## 2. Plan

Done, in this order: `CircBufws` over `ByteQueue`, `Hashdict` over `OrderedDict`,
`WindowSubclass`, `ScalableArray` over `GrowingArray`, `HwndTimer`, `PlaySound`,
`BufferedLogfile` over `AppendLog`, `Snprintf`, `Getopt` over `OptionStream`.
Each run asks all the questions that one instance can answer, so that there is
one run of a component unless two instances are needed.

Theorems worth proving next:

- `Snprintf`: that a number's digits are those of its value (`NumberRight`) and stand
  in their columns (`RowsTrue`), inductions over digits and groups as the proofs
  about loops have them (`Induction`).

Worth modelling next: a memory that runs short in `Hashdict`, whose slots and
trove are arrays that survive it; `TScaWithLocalBuf` as a second storage of
`ScalableArray`; `cxx_stack`, whose copies leave the session count unset
(`cxx_stack.h:112`); `sdrings`; `CalSpeed`; `getch` and `simple_thread` with the
terminal and the creator as actors.

## 3. The circular buffer

`CircBufws.tla` has one action per call of `CCircBufws`; the three branches of
`PutOverwrite()` are actions of their own. Pointers are offsets from `m_qbuf`;
`qbuf` is the whole block, shadow included, so that a copy that runs over shows
as an index outside of it. `m_cureles`, which only the debug build has, is a
history variable: the debug build's assertions about it are the property
`CurElesExact`.

The shadow area lets a client hand `TailPtr_()` to a device and call
`ShadowRetrieveEnd()` when the bytes are there. The device is an actor
(`BeginDeviceRead`, `DeviceStore`): between its steps the consumer may call in,
which is what the code's notes "Tail ptr may be in a pending USB read" are about.

The constant `Calls` names the calls a client makes. The code is not correct for
every client, and each property is checked for the largest set of calls for which
it holds; what is left out, and why, is said in section 12. `ByteQueue.tla` is the
abstract specification: a bounded sequence of bytes, changed by `PutAll`,
`PutOverOldest`, `ReplaceOldest`, `Remove`, `Discard` and `Peek`. The refinement
maps the queue to `Fetch(head, StockEles)`.

## 4. The hash table

`Hashdict.tla` keeps `slots` (indexes into the trove, empty or dummy) and `trove`
(entries, live or dead) as the code does. A probe follows `Paths`, the values
`LCGen::next()` yields, computed once for every key and width. `SetKey`, `Del`,
`KeyRename`, `Compact` and the end of a walk each contain the whole handler: the
growth check, the trove entry requested, the tail dummies dropped, the compaction
that follows. A loop that never ends is a call that returns `Hang`, and no call
follows it.

The tuning numbers are constants, scaled down so that two to six keys cross
every threshold: a width of 2 instead of 3 bits at first, a trove of 2 entries
instead of 16, marks of 1 and 3 instead of 4 and 1000, a perturbation shift of 2
instead of 5. The assumption on them keeps the relation the code relies on: the
perturbation is used up after `GiveUp` probes. A trove grows by two entries at
least, and the code's numbers do.

`in_get()` gives up early: after `64/5 + 2` probes it takes a probe that comes back
to the first slot for the end of the cycle (`hashdict.h:762`). The probe sequence
visits every slot only once the perturbation is used up, so in slots of 32 or
more the first slot may come back before the others have been met, and a
key further along its path be reported missing. The slots of the runs are too
narrow for that; the theorems on finding keys name it as their hypothesis
(`ProbesCover`, section 13).

`OrderedDict.tla` is what a client may expect: a sequence of entries with
distinct keys, and enumerators that yield them in that order once; while one is
going no key is added. The refinement maps the sequence to the live entries of
the trove and an enumerator's progress to the live entries before its index.

Left out: memory that runs short, the life cycle of the stored objects, and the two internal
functions that are public for debugging only.

## 5. The window subclass

`WindowSubclass.tla` has two layers. The library's functions are operators from a
state to a state (`AttachOutcomes`, `DetachHwnd`, `Deleted`, `Unwound`), because
the client calls them at the top level and from inside `SubWndProc()` alike. The
actions are what the client does (`Fetch`, `FetchAsPartial`, `Attach`, `Detach`,
`Delete`), what the system does (`Send`, `DestroyWindow`, which call the newest
procedure), and the two steps of a `SubWndProc()` under way: `PassOn` calls
`DefSubclassProc()`, `Return` comes back to `StockWndProc()`. `stack` is the C++
stack of these calls, so every interleaving of nested calls is a behaviour.

An object's memory is `life`; freeing it again or counting in it after it is
freed, and every assertion of the code, adds to `faults`. The procedures of a
window are `chain`, newest first; a message goes to those that were there when it
came in and have not been removed since, as `DefSubclassProc()` does; one that is
added meanwhile does not see it. Nothing is
assumed about which call comes from where, except that the client does not use an
object it has had deleted and does not hook a window that is being destroyed.

Memory that is lost, and the helper's in-place variant, which nothing uses, are
left out.

## 6. The growing array

`ScalableArray.tla` models `TScalableArray` with its storage policy. `cells` is the block of
memory, `storage` and `eles` the two counts, `trait` the four numbers `SetTrait()` stores;
`alive` counts the objects that have been constructed and not destructed. The functions the
calls share (`ExtendEles`, `InsertBefore`, `DeleteEles`, `DeleteAllStorage`) are operators
from an array to the set of arrays they may leave with the codes they return: `Realloc()`
fails or not, at each growth, at each shrink and at each copy. A copy that finds no memory
fails an assertion (`TScalableArray.h:362`), which `faults` records as "no copy"; built
without assertions it throws, and the client goes on with the array it had or, if it was
assigning, with one that has been emptied (`Vacant`). A cell is a client's value, what `T()`
makes (`Default`) or bytes of zero (`Zero`), and cells beyond the elements keep what was in
them.

`GrowingArray.tla` is a sequence with a limit: each call either does what it was
asked for or changes nothing and says why, with two exceptions, which it names:
overwriting beyond the end may end after the part within the elements
(`OverwriteShort`), and a copy that fails may leave nothing (`CopyFails`). How many
of the matching elements `DeleteMatch()` deletes, and which, is left open
(`DeleteSome`). The refinement
maps the sequence to the first `eles` cells.

Left out: `ZeroEles()` called by a client, and the variant with a buffer of its
own. A copy that runs out of memory ends in an exception and with it the client.

## 7. The window timer

`HwndTimer.tla` models `CHwndTimer` in one thread, where calls nest: the object
calls `TimerCallback()` and `TimerOffCallback()`, and the client's code in them
may start, stop or move the timer, or destroy its window, before the code that
called them goes on. `stack` holds what is still to go on: a callback under way
(`Callback`, `Off`), the rest of `StartPeriodicWork()` behind the action that was
taken at once (`Arm`), and its second half behind the stop at another window
(`Begin`). `Start`, `Stop` and `Destroy` are the client's calls, `CallbackReturns`,
`OffReturns`, `Arm` and `Resume` what goes on afterwards. The system's side is
`Elapse` (at most one `WM_TIMER` waits per timer), `Deliver` and `Tick`, a clock
of `ClockBits` bits that wraps; `KillTimer()` leaves a message that waits already.

`asked`, `made`, `age` and `late` are history variables. Left out: the interval,
which is the system's business, and the destructor, which is a stop after which
the client makes no call.

## 8. The sound player

`PlaySound.tla` models `CPlaySound` with its three parties: the client's thread,
which `doing` follows into the calls that can be interrupted or that wait; the
wave driver's thread (`WavEnds`, `WaveOutProc`); and MCI, whose messages reach the
object by the client's message loop (`MciEnds`, `MciNotify`, `Receive`). The write
of a header and the count of its start are two steps, because the driver may call
back between them. So are the two halves of that callback: its thread first counts
the end (`:620`, `WaveOutProc`), and then reads `m_abort_flag` and the window and
posts the notification (`:624`, `WaveOutProcTells`); `reporting` is the play it is
at in between, when a client that polls `IsPlaying()` sees `Stopped` already and may
play again. `Close()` is two steps as well: it stops the play, then waits
for the driver or makes up for the message that MCI will not send any more. A file
is a sequence of the chunks `OpenSoundBin()` looks at.

Each notification carries what it says and what was so by the time it was posted,
which is what `VerdictTrue` compares. A play ends by itself (`End`) or is cut short
(`Cut`). The code has one flag for all plays, and the client's next call may come
before the last end has been told: a play that had ended by itself and was stopped
or closed before that is `Late`, one that was cut short and another begun before
that is `Replaced`. Of those two the code may say either: a `Late` one is reported as
aborted, and a `Replaced` one as a success, since `PlayOnce()` lowers the flag
(`:557`). That is what happens to a client that stops and plays again at once,
or polls `IsPlaying()` and does not wait for the notification. Of an `End` it never
says `Aborted`, of a `Cut` never `Success`. Left out: errors of the MCI play and stop
commands, a window that dies before it is unregistered, and the texts of error reports.

## 9. The log file

`BufferedLogfile.tla` models both classes in one module, because `CMmLogfile` owns
its `CBufferedLogfile`: `user` says whether a client calls the inner object or
logs lines through the outer one. The methods are operators from a state to a
state, as the pieces of a line all go through `Append()` within one call. `file_write()`
of `fsapi` may write all it is told, a part of it, nothing, or fail with a negative
code; `disk` says how the writes of the present call do, and is chosen anew at each
call. `file_open()` gives a handle, `bad_filehandle`, or another error code, which
`IsStarted()` takes for a file (`Handles`). Some builds have the assertions
of `BufferedLogfile.h` and some have not (`checks`). `fault` is the assertion that
failed, or the buffer that was not there. Without assertions a write that
is cut short drops the rest, and one past the buffer that fails counts as a success,
its negative code being a large `DWORD`; a write of nothing leaves `m_fserr` 0, so that
the next call goes on. `lost` says that this happened in the last call: a write fell short and the
object does not know. A write that does set `m_fserr` refuses everything afterwards.
`went` is how the last write did. `Crash` may come between any two
calls, `Renew` is the destructor and a new object for the same file.

`AppendLog.tla` is what is promised: a stream of bytes of which a prefix is in the file; a
refusal or a crash costs no more than what was not in the file yet. A call in which a write
fell short unnoticed (`short`) may drop bytes of its own or of the buffer, and say either
(`Miss`, `OpenMiss`), but what is left is in order, nothing twice and nothing overtaken
(`Thins`), and what was in the file stays. The refinement maps the stream to the file
followed by the buffer, while there has been no error. `LossBounded` gives each assertion
its one cause, and says that otherwise no call returns with a full buffer. Left out: a
second `Start()` of a file that is open, which leaks the buffer and the handle.

## 10. The formatter

`Snprintf.tla` models `mm_vsnprintf_v7()` and what is built on it: `mm_snprintf()`,
`mm_snprintf_am()` and calls that share one `mmv7_st`, `mm_Strcat()`,
`mm_asprintf()`, `mm_asnprintf()`. A behaviour is one call of a client. `stream` is
what the output callback is told, `mem` the memory at the buffer and behind it;
`stack` holds the formatter's calls, since `%w` and `%F` print another format
before this one goes on. A format is a sequence of items; the actions are the
branches of the formatter's loop (`Literal`, `Text`, `Numeric`, `Setting`,
`Repeat`, `BeginDump` and one `DumpLine` per line, `Nest`, `Inject`) and the ends
of a call. `Emit` is the pair of steps behind every piece of text: the callback is
told, and as much is copied as there is room for, which may be less than nothing.

What a format is made of are items: `Items`, any set of them that `ItemsAssumption`
allows. An item is what the formatter has when flags, width and precision are read
(`IntItems`, `FloatItems`, `StrItems`, ...), `*` replaced by its argument; a `%w` has a
format, a `%F` any number of them. `CallsAssumption` says what clients give: at least
one format, a buffer that lies in the memory looked at, and to `mm_Strcat()` a string
in it. What `mm_asprintf()` allocates must lie in it, too (`MeasureEnds`): longer texts
end a behaviour of the model in `ret` being -1 only. The run's memory, 24 cells, holds
every text it measures.

Numbers are made digit by digit as the code makes them, because `NumberRight`
compares them with a definition after the C standard: a sign, digits at least as
many as the precision, zeros or blanks to the width, and what this formatter adds,
separators and fractions with their zeros hidden. `RowsTrue` says where on its
line each byte of a dump must stand.

Left out: how flags, width and precision are read from the format's characters,
`%e` and `%g`, conversions it does not know, the progress stub for debugging. The
wide and narrow variants are the same code, and the two files under `_do_not_edit`
are generated from it.

## 11. The option parser

`Getopt.tla` models `sgetopt()`, `sgetopt_long()` and `sgetopt_long_only()` over
contexts that are created, scanned, scanned again and deleted. `argv` of a context
is the permuted array of pointers; `si` its `sgetopt_ctx`; `ordering` the static
variable that all contexts share. A call is one of `EndOfScan`, `NonOption`,
`LongOption` and `ShortOption`, by the word it comes to rest at; `Reached` is the
common first part of the call, in which the words are permuted. `OptionWords.tla`
has how a word reads, which the parser and its promise have in common.

`OptionStream.tla` is the promise: the words are read from left to right, once, as
if nothing were permuted; an option takes its argument from the words behind it,
and at the end the operands are there in their order. For each context it has what
a call may do: `sgetopt_long_only()` may also try the rest of a group of option
characters as a long option (`LongRest`, `sgetopt.cpp:345`). The refinement maps, for
each context, the words still to be read to `argv` from `optind` on, and the
operands passed over to the run between `first_nonopt` and `last_nonopt`.

Left out: the error texts, the flag pointers and the index of a long option,
optional arguments of long options, which `sgetopt.h` calls not supported, and
`is_valid_option.cpp`.

## 12. The runs

| run | instance | what it shows |
|---|---|---|
| `circ_core` | queue and shadow up to 3, calls of up to 4 elements, 2 byte values, a device at the tail | a byte queue whose pointers and count agree; the device's target stands still; the peak follows every growth |
| `dict_core` | 3 keys (two of one hash), 2 values, widths 2 to 3, a client that may let the slots fill up to one | ordered dictionary, slots and trove agree, dummies exact, every key found, no endless loop |
| `dict_walk` | 2 keys of one hash, 2 enumerators, widths 2 to 4 | walks, the lock and what it postpones |
| `subclass_core` | 2 objects, 2 windows, 2 signatures of which one is cut off to the other, 2 nested messages | nothing freed twice or used after it is freed, attachments agree |
| `subclass_live` | 2 objects, 1 window, 2 nested messages | what is marked for deletion is deleted |
| `subclass_delete` | 2 objects, 1 window | violated: deleting a hooked object frees it twice |
| `array_core` | up to 4 elements of 2 values, 5 policies and 4 refused ones, calls of up to 2 elements, memory short at any time | a sequence; one object per element; no assertion fails but a copy's that memory is short; a shrink leaves what was to spare |
| `timer_core` | 2 windows, a clock of 3 bits, counts -1 to 2, spans of 1 tick, 2 starts, 3 nested calls | timer and object agree between calls; counts and spans exact; one late message at most; a run that was to end ends |
| `sound_core` | 4 plays over two interfaces, 4 files | no assertion fails; `Playing` exact, and it ends; no cut play is a success unless another was begun before it was told |
| `log_core` | buffers of 1, 2 and 3 bytes, messages of 0 to 4 bytes, lines of 2 and 3 pieces, 6 bytes in all, up to two writes of a call that fail, do nothing or write one byte, files that do not open, builds with and without assertions | an append log but for what short writes drop; each assertion has its one cause; less than a buffer lost |
| `printf_core` | some 2000 calls: all flag, width and precision combinations of small numbers, dumps of 0 to 7 bytes, nested formats, buffers of 0 to 20 characters | the buffer is the beginning of the text and the length the text's; numbers and dumps read right; no dump goes on for ever |
| `getopt_core` | lines of up to 5 words of 3 kinds, of 2 and 3 words of up to 18 kinds, all three orderings, 2 contexts | words read once and in order; operands gathered in order; errors told apart; every scan advances |

**Bounds.** `MaxQueue`, `MaxShadow`, `MaxEles`: a ring of 4 cells has every
relation of head, tail, boundary and gap cell, and a call of 4 elements is longer
than the largest buffer. `DriftBounded` stops the calls that let the debug count
drift once it has drifted. `MaxWidth` refuses the calls that would need wider
slots; between the initial width and `MaxWidth` every threshold is crossed in
both directions. `MaxRenames` bounds renames, which leave dummies without limit.
`MaxDepth` bounds the messages under way one inside the other: two are needed
for a deletion that has to wait for an outer call, each may pass through both
objects, so that up to four calls are on the stack, and an object's count never
reaches more than two.

Arrays of at most 4 elements with units of 1, 2 and 4 have every rounding of
growth and shrink, up to four units, and a limit that is reached. The views of
`circ_core`, `dict_core`, `dict_walk` and `array_core` leave out what the last call
returned, which no call and no property reads (of a hash table, but for whether it
returned).

Two windows are all a move needs; two starts, one inside a callback of the other.
With 3 bits the clock's signed differences cover spans of 1 tick with a lag of 1
on both sides of the wrap, from every start. Four plays are enough for one in the
driver's queue, one returned, and one more on each interface. A message of 4 bytes
is longer than the largest buffer and twice as long as the one of 2, so all three
ways to write occur with both comparisons at equality. `TmpLen`, `RevLen` and
`AddrBits` are 128, 80 and 64 in the code and scaled down to what the numbers of
the run fit in: of a longer number, what did not fit would be printed without
having been written, which `FormatNoFault` would show; `AddrLen`, the array an
address is formatted in, is 40 as in the code. Lines of 5 words have runs of 1 to 4
operands and options next to one another, which is every way `exchange()` can go
round its loop.

**Deadlock** is checked, except for the window subclass, the timer, the sound
player and the log file: when all objects are freed, all windows destroyed, the
plays used up or an assertion has failed there is nothing left to call.

**Fairness.** Three runs have any.

- `subclass_live`: each call of `SubWndProc()` passes its message on and returns,
  strongly fair at every depth of the stack: the client's procedures are code that
  ends, though they may be called again in between without limit.
- `timer_core`: callbacks return, the code between them goes on, the clock ticks,
  a timer that is armed elapses, and the thread fetches its messages, all weakly
  fair: each stays enabled until it happens.
- `sound_core`: calls under way return, plays end, the driver calls back and the
  message loop goes on, weakly fair.

Nothing makes a client call the library, in any run. The other components are
called one call at a time and promise nothing that needs time to pass; that their
loops end is the invariant `Terminates` of the hash table and the action
properties `DumpsAdvance` and `ScanAdvances`, which bound a loop by a measure and
so need no fairness.

**Clients.** Where the code does go wrong and a run of its own would only repeat
it, the call is in the model and left out of the client of the passing runs. Adding
the name to `Calls`, `Client` or `Failures` of an MC module or
cfg shows each of them.

Circular buffer:

- `OverwriteHead()` with more than the stock raises the stock without
  `_UpdatePeakUsage()`; `PeakFollowsGrowth` makes an exception of it.
- Peeking at an empty buffer or beyond the stock (`PeekBeyond`), or clearing with a
  reset (`ClearReset`), rewinds the tail while a device may write there, against
  the note in `Clear()`.
- Overwriting with data at least as long as the buffer (`OverwriteLong`), a second
  `Init()` (`ReInit`), and `ResetPtr()` of a buffer with content (`ResetStocked`):
  the count drifts from the pointers. `ResetPtr()` tests `m_pHead = m_pTail_`, an
  assignment, and so drops the content.

Hash table:

- `compact()` of a dict with as many keys as slots but one, or all of them: with
  `Hashes` and `TightDelCalls` of the MC module and four or six keys, a deletion
  of an absent key does not return, and a key that is there is not found.
- `key_rename()` leaves and takes dummies without counting them, so
  `SlotsMirrorTrove` says what their count is only while nothing was renamed. Its
  assertion on the number of probes can fail on a path of a long hash.
- An enumerator copied in mid-walk (`EnumCopyWalking`) gives back a lock it did
  not take.

Window subclass:

- Deleting an object inside its own `SubWndProc()` after `DetachHwnd(false)`
  (`DeleteInProc`) leaves the helper in `StockWndProc()` counting in freed memory.
- When `SetProp()` fails (`Failures`) the object counts as attached: its
  destructor fails two assertions and deletes twice.
- A signature longer than the buffer of `FetchCxxobj_precheck()` (`CutName`) is
  never found again: the hook that is there is a conflict. If what the buffer holds
  is another signature, its object is returned as this one's. `subclass_core` has
  such a pair of signatures; the attachments agree all the same.
- `FetchCxxobjFromHwnd_as_partial()` asserts that the object it finds is the one it
  was given (`:475`); a client that hands over another one has `FetchOther`.

Growing array:

- `Cleanup()` of an array without elements that kept storage (`CleanupVacant`)
  fails its assertion, with the default trait too; the array's test
  `Incsize1_Decsize1_Thres1` does that.
- `SetTrait()` with another increment while there is storage (`TraitLate`): the
  next growth asserts that the storage is a multiple of it. With `DecThres` of 2
  or more, deleting from a full array can fail the assertion at `:591`.
- `AppendAt()` with one object says success when there was no room
  (`AppendBlind`).
- `AppendAt()` with no array is not modelled. `InsertBefore()` with none is
  (`InsertNone`): it does nothing and says success (`:534`), where the header
  (`TScalableArray.h:46`) says that it inserts default-constructed elements.
- `DeleteMatch()` goes on to the count it began with and compares cells that the
  elements have left (`:197`), or lie beyond the block after a shrink. Nothing is
  deleted for what it finds there, so the model leaves a cell beyond the block out.

Window timer:

- A start inside `TimerCallback()` (`RestartInside`) has the running call counted
  towards the new run: a run of one callback is over before its first.
- A move to another window while a message of the old one waits (`MoveEarly`)
  fails the assertion in `s_TimerProc()`; a start in the `TimerOffCallback()` of
  such a move (`RestartInMove`) leaves a system timer at the old window for ever.
- A window destroyed by the action that is taken at once (`DestroyEarly`): the
  `SetTimer()` that follows fails.
- A message loop inside a callback (`Modal`) delivers messages to callbacks that
  have not been counted yet.

Sound player:

- A play begun before the stop of the last one has been told, which has the cut play
  reported as a success, is in the run (`Replaced`, section 8).
- Closing the device over MCI plays that overlapped (`CloseOverlapped`): their
  notifications are dropped, `Close()` makes up for one, and `Playing` stays.
- Registering a window while something plays (`RegisterLate`) resets the counts.
- An object deleted with its hook in place (`DeleteHooked`); a wave device that
  cannot be opened (`NoDevice`), or a file whose data chunk comes before a bad
  format (`AllFiles`), fails an assertion in `Close()` or `Stop()`.

Log file:

- Nothing is left out of the run: writes that fail, are cut short or do nothing and
  files that do not open are in it, with what the code makes of them
  (section 9). `CMmLogfile` keeps an object that could not be started and goes on using it.

Formatter:

- `%w` with arguments inside `mm_asprintf()` or `mm_asnprintf()`, where `va_list` is
  an array (`MeasuredNest` for `Calls`): the first pass uses the arguments up.
- A float of zero with a precision of 0 prints nothing (`:1402`), and is left out
  of the inputs. An address column of precision 0 without a separator width fails
  the assertion at `:679`, and a `%v` of negative precision the one at `:1707`
  (`AddressAllowed`, which `Setting` turns into a fault); neither is among the inputs.

Option parser:

- Scans with different orderings in turn (`Mix`): `ordering` is the last one's.
- Another call after the end of a scan (`Again`), and a caller that does not clear
  `optopt` (`Keep`), so that the next error is taken for the one before.
- A prefix in `optstring` is skipped by the first call of a scan only: later calls
  take it for an option character and do not see the colon behind it. The model has
  this, and the promise is checked with prefixes, for lines without that character.

## 13. The proofs

`CircBufwsProofs.tla`, `HashdictProofs.tla`, `WindowSubclassProofs.tla`,
`ScalableArrayProofs.tla`, `HwndTimerProofs.tla`, `PlaySoundProofs.tla`,
`GetoptProofs.tla` and, for the formatter and the log file that is printed to through
it, `PrintingProofs.tla` are checked by TLAPS, for every value
of the constants. Where a loop of the code runs over a block, a trove, a stack, a line or
a run of pointers, the lemma `Induction` is stated: induction over the numbers, as a
fact about sets.

- `TypeCorrect`: `TypeOK` of the circular buffer, for every client, is inductive
  as it stands. The work is in the lemmas about the ring: a pointer moved forward
  by at most the capacity stays on the ring (`ForwardInRange`), a copy of any
  length leaves a block of bytes (`StoredType`), a device's target lies in the
  block because it is at most the shadow long.
- `CountExact`: `CurElesExact` for clients without the calls in `Drifting`. It
  is inductive together with `TypeOK`; each step needs how the stock changes when
  one pointer moves (`StockGrows`, `StockShrinks`), which is where a full ring
  and an empty one must be told apart.
- `DeviceTargetKept`: `DeviceTargetStable` for clients without the calls in
  `TailMoving`.
- `PeakCorrect`: `PeakFollowsGrowth`, for every client: with both pointers on the
  ring (`TypeCorrect`) each call either takes elements away or keeps the stock, or
  goes through `PeakUpdated`. `OverwriteHead()` is excepted by the property.
- `BufferIsQueue`: the refinement `ImplementsByteQueue`, for clients without the
  calls in `Drifting` and `TailMoving`. `DeviceKeeps` adds to the invariants above
  that what a device has stored lies behind the head, where no call of the consumer
  writes. The rest is about runs on a ring: reading `n` cells from a pointer gives
  the first part of the queue, a run stored at the head its end, whether or not it
  wraps, and a copy into the shadow changes no cell of the queue. Each call is then
  one step of the queue.
- `SlotsCorrect`: `SlotsMirrorTrove` of the hash table, type invariant included, for
  every client and all hashes; its only assumption is `TuningAssumption`. It rests on
  the probe sequence: `5i + 1` modulo a power of two comes by every slot before it
  repeats (`VisitsEverySlot`, by doubling the power), so that once the perturbation
  is used up a probe lands in one more round of the slots (`Lands`). The loops of
  `RebuildSlots()` and `CompactTrove()` are inductions over the trove
  (`RebuiltMirrors`, `LiveEntries`). `MirrorInv` says of a dict that has slots that each
  live entry has one slot, and that it lies on the path of its key (`Mirrors`); that
  the dummies are counted, up to one for each renaming (`Counted`); and that the
  trove's storage has room for one entry more (`Room`).
  There is one lemma for each call.
- `EveryKeyFound`: `FindsEveryKey`, under `ProbesCover`: each slot is met by a path
  before `in_get()` takes it for gone round. Both instances satisfy it; wide
  slots do not (section 4), and there the code itself does not find every key.
  `KeysInv` adds to `MirrorInv` that no two live entries have a key in common, which
  every insertion owes to the failed search before it: a search that ends at an empty
  slot has seen every slot its key could be in.
- `DeletesEnd`: `Terminates`, for clients that satisfy `KeepsSlotsFree`. `SpareInv`: the
  entries and dummies together are fewer than the slots, so that one of them is
  empty and a search ends. That takes exact counts, hence no renaming, whose dummies
  nobody counts; marks that make a deletion rebuild before the slots are full; and for
  `compact()`, which makes the slots as small as the entries allow, fewer keys
  than the initial slots have room for. Without each of these a deletion can go round for
  ever (section 12).
- `RefinesOrderedDict` and `RoomyRefinesOrderedDict`: the refinement
  `ImplementsOrderedDict`, for finitely many enumerators of which none is copied in
  mid-walk, under `ProbesCover`. The abstract sequence of entries and an
  enumerator's progress are both a matter of counting live entries: `Place(L, i)` is
  their number before index `i`, and `Lists` says of a sequence that it has the live
  entry `x` at `Place(L, x) + 1`, which determines it. A step then puts one entry
  behind the others (`AddedSeen`), takes one away (`RemovedSeen`), gives one another
  key or value (`OverwriteSeen`, `RenameSeen`), or moves them all to the front,
  which counting does not see (`CompactTrove()`). The enumerators keep their place
  because while one walks nothing is moved and nothing added; a deletion behind one
  lowers its place by one (`WalkDeleted`), and its next entry is the first live one
  from its index on (`EnumNextSeen`). `DictInv` is `KeysInv`, `LockInv` and that an
  enumerator has an index only while it walks (`Positions`). A search answers rightly
  only if it ends, so that the first theorem has the hypothesis `HasRoom`: some slot
  is empty at every call. It is needed because renaming fills slots with dummies
  nobody counts (section 12); TLC finds it true of both runs. For clients that satisfy
  `KeepsSlotsFree` it follows from `SpareInv`, and the second theorem does without.
- `SessionsCorrect`: `SessionsExact` of the hash table, for every number of
  enumerators that is finite, provided none is copied in mid-walk. The inductive
  invariant `LockInv` adds to it the shape of the enumerators' records; a step
  that starts or ends a walk changes the cardinality of the set of walks by one
  (`OneMore`, `OneLess`).
- `HooksCorrect` and `HooksFaultless`: `AttachmentsAgree` (type invariant included) and
  `NoFault` of the window subclass, for any windows, objects and depth of calls, for clients
  that do what the header recommends (`Sensible`) while `SetProp()` succeeds. Neither is
  inductive: that `Return` frees its object at the right time depends on the calls further
  down the stack. `HookInv` says that an object's count is the number of its calls on the
  stack and that each is of a living object (`StackSound`); that object, property and chain
  agree (`Sound`); and that every object on a dying window is still to see `WM_NCDESTROY`,
  or sees it now (`AllTold`), so that none is left when the window is gone. The library's
  operators are shown to be `Gentle`, which can be chained: they keep the state sound, leave
  the counts alone, free nothing that a call is under way for, and hook live windows only.
  The bound on the counts (`StackBounded`) is a counting argument: between two calls of an
  object a message of its own begins, so that each of the at most `MaxDepth` messages under
  way calls an object once.
- `ArrayCorrect`: `AliveExact` of the growing array, type invariant included, for
  every trait, every client and every choice of the calls at which `Realloc()`
  fails. The functions of the model take an array and return one, so the lemmas
  are about arrays and not states: what makes an array fit to be given to one
  (`Sound`: the elements lie in the storage and the storage in the block), what a
  call that adds elements does to it (`Fuller`) and one that takes some away
  (`Thinner`). Both can be chained, so a call that does several things keeps them.
  `DeleteMatch()` makes as many deletions as there are elements: that its rounds
  exist and that each leaves a thinner array are inductions over the rounds. The
  library's induction theorems take an operator, which no prover here can
  instantiate; the lemma `Induction` says the same of a set,
  and follows from the strict subsets of finite sets being well founded.
- `SpareCorrect`: `SpareAfterShrink`, likewise. That a deletion gives storage back
  in whole `DecSize`s, rounded up over the elements and the spare, is arithmetic;
  for `DeleteMatch()` one must also know that a deletion leaves nothing for the
  next to give back but what that one takes (`Snug`).
- `ArrayFaultless`: `NoFault` of the array (no assertion but the one by which a copy
  says that memory is short), for clients without the two calls that
  do fail an assertion and traits with a spare of at most one element
  (`SmallSpares`, which the run's traits are). `FaultInv`: the storage stays a
  multiple of `IncSize`. With a larger spare a deletion of one element from a full
  array would call for more storage than there is (`TScalableArray.h:591`).
- `ArrayIsSequence`: the refinement `ImplementsGrowingArray`, for clients that set the trait
  while there is no storage (`TraitLate`) and do not append a single object with the call
  that does not look whether there was room (`AppendBlind`). A call's effect is stated cell
  by cell (`Seen`, `Replaced`): which of the old elements, which of the client's values and
  which default stands where. `Fitted` keeps the elements within the limit and the storage a
  multiple of `IncSize` or at the limit, so that the calls refused are those the abstract
  limit refuses; `DeleteMatch()` is again an induction over its rounds, which carries along
  which of the elements have been kept.
- `PlayingCorrect`: `PlayingExact` of the sound player, type invariant included,
  for clients that register a window while nothing plays and close with at most one
  MCI play to be notified. It is not inductive: a play is in the driver's queue, and
  can end and be counted, before `PlayOnce()` counts its start. `CountInv` adds that
  play to those counted (`Uncounted`), so that the equation holds at every step;
  that no end is counted before its start was made bounds the counts while no window
  is registered; and that nothing is written while `Close()` waits leaves the
  interface idle when it is closed (`ClosedIsIdle`). `Stop()` and the ends move a
  play from one part of `Outstanding` to another (`StopWavKeeps`, `MciMoves`);
  `CloseMci` drops at most the one for which it makes up.
- `VerdictCorrect`: `VerdictTrue`, for every client. `VerdictInv`: `m_abort_flag`, the
  only thing the driver's thread tells by, is up while a `Cut` play is still to be told,
  counted or not, and down while an `End` is, or a play in the queue (`FlagTells`).
- `SoundFaultless`: `NoFault` of the sound player, for files that are not refused
  behind their data chunk (`Plain`) and clients whose device opens and who
  unregister their window before they delete the object. `FaultInv`: the device is
  open whenever the driver can call back, because `Close()` leaves the interface only
  when nothing is to be returned any more; and no window is registered with an object
  that goes.
- `TimerCorrect`: `ArmedWhileTicking` of the window timer, type invariant included,
  for clients that do not start the timer in the `TimerOffCallback()` of a move
  (`CHwndTimer.h:106`). Between calls a ticking object has its timer; in the midst of
  calls `TimerInv` says less: the timer may be missing while a frame of the stack is
  still to set it (`Arm`), but it is never at another window, and never there for an
  object that has stopped. A start that leaves a window (`Begin`) waits with the
  object stopped, and only one does; without that it would take over another's run.
- `TimerFaultless`: `NoFault` of the timer, for clients that in addition move only
  while no message waits and destroy no window that a start under way is to use
  (`Heeding`). `FaultInv` keeps messages at the object's own window.
- `StopFinal`: `OneLateCallback`, under the same conditions. `LateInv`: once the one
  late callback has been made no message waits, and a timer that has stopped, which
  the system has no more, posts none.
- `RunCounted`: `CountExact`, for clients that do not start the timer in
  `TimerCallback()` or in a move and run no message loop in a callback (`Simple`).
  A callback is begun before it is counted, so that `CountInv` counts the one under
  way separately; it is on the stack, and there is only one.
- `SpansCorrect`: `SpanExact` of the timer, for every client. The code knows the clock
  and the end of a span modulo a round of the clock only. `SpanInv` says that the end
  is as far ahead of the clock as the span is of the run's age, give or take a round
  (`Elapsed`); since span and lateness stay within half a round (`TimerAssumption`),
  the signed difference `IsTimerDue()` looks at is then the difference of age and
  span (`SignedIs`). That only the return of a callback shortens the stack under a timer that
  ticks (`OnlyReturn`) makes it the step the property is about.
- `LossIsBounded` and `FileIsAppendLog`: `LossBounded` and the refinement
  `ImplementsAppendLog` of the log file, for every disk, handle and build. What one
  `Append()` does is one predicate (`Wrote`): file and buffer together grow by what it was
  given; or nothing more will be taken and the file is a beginning of that; or a write has
  fallen short, and they have grown by a subsequence of what was not in the file.
  Subsequences (`Thins`) of subsequences are subsequences again (`ThinsTwice`), so that it
  can be chained, and a line of `CMmLogfile` has it by induction over the pieces printed.
- `BufferHolds`, `BufferHoldsPlain`, `BufferHoldsMeasured`, `BufferHoldsCopied` and
  `PlacesTold`: `BufferHoldsText` of the
  formatter, type invariant included, for every item and every format, however nested,
  in buffers that end anywhere. `mm_asprintf()` and `mm_asnprintf()` measure the text and
  print it again, and that both are as long (no `str_l2` among `faults`) is the
  code's own assertion, false for a `va_list` that is used up (section 12).
  `BufferHolds` has it as a premise, `BufferHoldsPlain` is about the calls that measure
  nothing, and the other two prove it: where a `va_list` is copied, for every call
  (`BufferHoldsCopied`), and where it is an array, for the calls that `Repeats` describes, whose
  `%w` formats have no number to read twice (`BufferHoldsMeasured`; the 26 measuring calls of
  the run `printf_core` are of that kind, `MeasuredNest` of `MCSnprintf` is not).
  `IInv` is a relation of the memory, what the
  callback was told and the calls under way: each call begins where the one it was made in
  has got to, all their parts of the buffer end where the buffer ends (`Lies`), however far
  behind that the text has run, and a dump is under way in the innermost only (`Stacked`).
  When a client's second call begins behind the end of the buffer, nobody will write the
  NUL any more: it must be there, and `Stacked` says so. A piece is written as far as there
  is room (`EmitIs`), pieces one after another by induction (`EmitAllIs`); what conversions
  hand out is text, whatever they are given (`NumberPiecesText`, `LineText`). Of a number
  nothing more is used. `PlacesTold` is one part of `FormatNoFault`.
  That the second run is as long as the first needs a history. A frame without its place in the
  buffer is a `Shape`: what it has left to read, its settings, its dump and its length. A step
  leads from the shapes of the calls under way to the next ones in one way only (`Turns`, `OneWay`),
  since a piece is as long wherever it goes (`SizeIs`). `MInv` says that the run that measures has
  come along a sequence of such turns from the shape it began with, and that the run that prints,
  which begins with the same shape, is somewhere on that sequence. It can end only where the
  sequence ends, and so has the length that was measured.
- `DumpsEnd`: `DumpsAdvance`, for every dump, setting and client. By `IInv` the bytes of a
  dump under way are not all taken; then a line that takes none has all its columns skipped,
  because a group begins in each column that is not (`ConsumesIs`), and what is skipped of
  the next one is less by the columns of this (`NextLine`).
- `RangeHolds` and `CallsAdvance`: the scan position of the option parser stays in the
  command line, and `ScanAdvances`, for every command line and any number of contexts,
  for callers that do not call again after EOF. The work is the loop of `exchange()`:
  each round settles the shorter run and leaves the same rotation to be made of the rest
  (`LowSwapped`, `HighSwapped`), so that the loop, whose rounds exist by induction
  (`Iteration`), makes a rotation (`RotatedIs`) and argv stays an array of pointers to
  the words. `Steps` and `OptionStep` say what a call may do at the word it has come to:
  use up one word or two, or leave a shorter rest of it.
- `ErrorsNamed`: `ErrorNamed`, for callers that in addition clear `optopt` and whose
  prefix is no option character (`PrefixesApart`). What was told stays true while other
  contexts scan; what the next call needs is that no error is left from before
  (`Settled`), and that a word whose characters are being read is no long option as a
  whole (`Midway`), so that the word before `optind` is the one the error is about.
- `SplitsStably`: `StableSplit`, for callers that heed EOF and begin no scan while one
  with another ordering is under way. The first half of `SplitInv` (`Modes`) is that
  the static variable is then what every scan under way goes by. The other (`SplitAt`)
  says of a first scan (`Arranged`) that the words from `optind` on are as given, that
  without the operands skipped those before it are in order (`KeptInOrder`), as are the
  operands, and that the words kept can be cut at places of which each begins an option
  (`Parsed`): one word, or two where the last character of the first wants an argument.
  That is what a second scan needs: it reads the permuted line from one of these places
  to the next (`Safe`), comes to "--" or to operands only, and so has nothing to exchange.
  Without the places a second scan might read an option's argument as an operand and
  move it away; without `HasAll` an exchange might lose a word. Passing over operands,
  reading an option and ending a scan keep this (`PassedArranged`, `ReadArranged`,
  `EndArranged`).
- `ReadsLeftToRight`: the refinement `ImplementsOptionStream`, for the same callers and for
  prefixes that are not met again (`PrefixUnread`): the code skips a "-" or "+" at the start
  of the optstring on the first call of a scan only, so that from the second call on it is
  an option character, and a ":" behind it would not be seen. `StreamInv` is `RangeInv` and
  `SplitInv`, that every context has an answer (`Answers`), and that within a word a call is
  past its first character and past no second dash that means a long option (`Halfway`):
  there `sgetopt_long_only()` may try a long option once more, which the stream has as
  `LongRest`. What a call passes over to get to its word is said once (`Came`): the operands
  put aside have grown by it, and the word it stands at is the first of the rest; `Stood`
  says what that word may be. Then each of the calls is a step of the stream: what it
  returns (`Told`) and what it leaves behind (`Behind`) are those of `OptionStream`'s step
  at that word (`WordOption`).

The assumptions are `BoundsAssumption`, `TuningAssumption`, `SubclassAssumption`,
`ArrayAssumption`, `SoundAssumption`, `TimerAssumption`, `ClockAssumption`, `LogAssumption`,
`JobsAssumption`, `SnprintfAssumption`, `ItemsAssumption` and `CallsAssumption`, which TLC
evaluates in every run of the nine components, and the conditions on `Calls` and `Client`
above, which the theorems state. `ClockAssumption` only says that powers of two are numbers
and that one is twice the one before, of which the provers know nothing; for the same reason
`Hashdict` has its powers of two as a recursive function (`Pow2`), and `Snprintf` those of a
radix (`Power`). The theorem on the lock says nothing of what a client stores.

Model-checked only: of the formatter `NumberRight`, `RowsTrue` and, but for the part
that is `PlacesTold`, `FormatNoFault`: what digits a value has and where they stand, and
that they fit into the code's buffers; of the timer `RunEnds`, of the sound player
`PlayingEnds`, of the window subclass `DoomedAreDeleted`. Liveness under
fairness stays with TLC.

## 14. Not modelled

Vendored code (googletest, SimpleIni), which is more than a third of the lines of
the repository, examples, build scripts and the generated copies of the formatter
have nothing of this program's to model. Thin wrappers of one system call, window
layout, tooltips and the other user interface code keep their state in the system's
windows. Conversions of encodings, paths, times and line ends are functions of a
text or a number, all data and no control.

Not reached, though they keep a state of their own: `TScaWithLocalBuf`, `cxx_stack`,
`sdring` and `sdrings`, the intrusive lists, `CalSpeed`, `getch`, `simple_thread` and
`MenuTracker`; `PROJECT.json` says of each what it would take. `MenuTracker` would have to
rest on a guess at the order in which the system sends its messages. Reading `sdrings`
showed two things that need no model: `InsertAt()` adds the position twice to the index it
moves the strings behind it to (`sdring.h:637`), so that only an insertion at the start or
at the end is one, and `DeleteAt()` counts `ndel` strings as deleted even when fewer are
left behind the position (`sdring.h:664`).
