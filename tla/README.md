# A formal model of dxsubfilter

`dxsubfilter` is a DirectShow transform filter that draws subtitles onto video
frames. This directory holds TLA+ models of the filter, of its subtitle
renderer and of the parts of the vendored DirectShow base classes that have
threads of their own, the TLC configurations that check them, and theorems proved with
TLAPS. Line numbers refer to the sources under `src/`.

Contents: [the system](#the-system) ·
[modules](#modules-and-how-they-correspond-to-the-code) ·
[runs](#what-is-checked) · [disagreements](#where-the-code-and-its-documents-differ) ·
[proofs](#what-is-proved) · [fairness](#fairness) ·
[left out](#what-is-not-modelled) · [plan](#plan)

## The system

```
            upstream filter                          filter graph manager
   video samples |        | subtitle lines        Connect, Pause, Stop |
                 v        v                                            v
   +-----------------------------------------------------------------------+
   | CTransformInputPin   CSubtitleInputPin --- LoadExternalSubtitles      |
   |        |  m_csReceive     |  no lock                                  |
   |        v                  v                                           |
   |   Transform -------> ISubtitleRenderer (SRT, or none)                 |
   |        |   count, pictures: store, search set, picture cache          |
   |        v                                                              |
   |   SubPicBlender, CopyBuffer -> CTransformOutputPin                    |
   +-----------------------------------------------------------------------+
                 | video samples
                 v
            downstream filter
```

| Component | State | Operations | Hard parts |
|---|---|---|---|
| SRT renderer's store and cache (`SRTSubtitleRenderer.cpp`) | map of entries by start time, set of spans, spans now valid, list of cached pictures | `ParseLine`, `Invalidate`, `GetSubtitlePictureCount`, `GetSubtitlePicture` | two calls make one frame and must agree; stale spans and pictures after seeks; a search that reads `*end()` |
| SRT script (`ParseScript`, `ParseLine`) | script lines, position; tag stack, text, format ranges | one pass per subtitle block, one per tag | reads beyond the end, positions after `++`, off-by-one on the remainder |
| External subtitles (`SubtitleInputPin.cpp:163-260`) | loaded flag, subtitle type, script | one pass per extension, then a renderer per connection | several files, a missing `.sub`, a factory that returns `nullptr` |
| Video filter while streaming (`dxsubfilter.cpp:404-502`, `transfrm.cpp`) | `m_State`, two locks, flush flags, segment starts, buffers of the allocator | `NewSegment`, `Receive`/`Transform`, `BeginFlush`, `EndFlush`, `Pause`, `Stop` | four threads; a blocked `Receive` against a flush or a stop |
| Subtitle pin while streaming (`SubtitleInputPin.cpp:69-157`) | `m_tStart`, flush flag | `NewSegment`, `Receive`, flush | takes no lock; goes on when the base class says `S_FALSE` |
| Connection (`dxsubfilter.cpp:106-402`, `amfilter.cpp:1697-2184, 2487-2938`) | each pin's pointers to the other pin and to the allocator, with their references; types of the pins, `m_InputVideoType`, buffer length, strides, blender, renderer, reconnections asked for, position in the list of types | `Connect`, `AttemptConnection`, `ReceiveConnection`, `Disconnect`, `GetMediaType`, `CompleteConnect`, `DecideAllocator`, format change | attempts that fail late, at either pin; reconnections done later; a list of types that changes while it is gone through; input pins changed under a connected output |
| Renderer factory | singleton, configuration | `CreateSubtitleRenderer`, `SetSubtitleCoreConfig` | null for a type it does not know |
| Text drawing and effects (`SRTSubtitleRenderer.cpp:609-665`, `CustomTextRenderer.cpp`, `DrawingEffectRendererFactory.cpp`) | reference counts, a cache of effect renderers for the whole process | one entry, its DirectWrite callbacks, `CreateEffectRenderer`, the renderer's constructor and destructor | balance of `AddRef` and `Release`; a cached pointer that outlives what it points to; a slot read outside of the lock |
| Blender, `CopyBuffer` (`SubPicBlender.cpp`, `dxsubfilter.cpp:504-699`) | conversion tables, the bytes of three buffers, strides | `InitializeConversionTables`, `Blend`, `ComputeStrides`, `CopyBuffer` | halves of odd sizes and origins; tables of shorts and casts to a byte; planes told apart by lengths only |
| Configuration, module entry (`registryhelpers.cpp`, `dllmain.cpp`) | registry values, one global record per process | load, write back, remove | loading that fails part-way; several processes at once; a size that was never set |
| `CMemAllocator`, `CMediaSample` (vendored, `amfilter.cpp:2990-3560, 4500-5020`) | free list, waiters, semaphore, decommit under way, reference counts | `GetBuffer`, `ReleaseBuffer`, `SetProperties`, `Commit`, `Decommit` | waiting outside of the lock; a count written without interlock; a decommit that the last sample completes |
| `COutputQueue` (vendored, `outputq.cpp`) | list, batch, `m_hr`, flush flags, two events, the worker | `Receive`, `EOS`, `NewSegment`, `SendAnyway`, `BeginFlush`, `EndFlush`, `Reset`, the destructor | a delivery under way in a flush; one event for flushes and resets; batches |
| Clock and schedule (vendored, `refclock.cpp`, `schedule.cpp`) | time, list of advises, wait of the clock's thread | `AdviseTime`, `Unadvise`, `SetTimeDelta` | a wait computed before the list or the time changes |
| `CPullPin` on `CAMThread` (vendored, `pullpin.cpp`, `wxutil.cpp`) | what the worker was told, request and reply, chunks under way | `Active`, `Inactive`, `Seek` | a worker that is in the reader or in `Receive` when it is told to pause |
| `CBaseRenderer` and its pin (vendored, `renbase.cpp`) | state, sample that waits, advise, two events, end-of-stream flags and timer | `Stop`, `Pause`, `Run`, `Receive`, `EndOfStream`, flushes, the timer's callback | flags read and written outside of the locks; four threads; a timer that may not be killed under a lock |
| Geometry sink (`SCSimplifiedGeometrySink.cpp`) | state of the figure, points | – | no code constructs one |
| DirectShow base classes (vendored), the rest | pins, filters, windows, lists | used by the above, or built into the library only | – |

What makes them correct: the store's two containers agree, and nothing shown
outlives its line; a frame gets as many pictures as it was promised, all of them
on time, and a picture stays as long as its line; a script loses its tags and
nothing else; Stop and the seek return, and leave no frame and no old line
behind; an attempt to connect connects both pins or leaves nothing behind, and all
types are tried; each frame fits the buffer, strides, blender and renderer made for it;
what draws a text is alive, and gone once nobody needs it; every byte of a frame
is in its place and blended as meant, and no access is outside of a buffer; what
a process has agrees with the registry, and what the user set is kept; a sample
is in one place, and whoever waits is woken; a frame is drawn at its time, nothing
is drawn that a seek or a stop has made old, the end is reported once it has come,
and every command returns. `PROJECT.json` lists
the hazards one by one.

## Modules and how they correspond to the code

| Module | Models |
|---|---|
| `SRTSubtitleRenderer` | the store and the cache of `SRTSubtitleRenderer` |
| `SRTSubtitleRendererProofs` | theorems about it, and that it implements its contract |
| `DXSubFilterStreaming` | the filter's threads; the renderer is an `INSTANCE` of `SRTSubtitleRenderer` |
| `SubtitleTypes` | subtitle types, file extensions, the renderer factory |
| `SRTScript` | files to script to parsed entries (`EXTENDS SubtitleTypes`) |
| `SRTScriptProofs` | theorems about it |
| `PinLink` | a connection of two pins: pointers, references, allocators (no variables) |
| `DXSubFilterConnection` | the filter's pins, formats, what `CompleteConnect` sets up (`EXTENDS SubtitleTypes, PinLink`) |
| `DXSubFilterConnectionProofs` | theorems about both |
| `TextDrawing` | how an entry is drawn: effects, callbacks, cached effect renderers |
| `SubtitleRendererContract` | what `ISubtitleRenderer` promises its caller, without a cache |
| `SubPicBlending` | the arithmetic of the blender, and what it is meant to be |
| `FrameComposition` | one frame's bytes through `Transform` (`EXTENDS SubPicBlending`) |
| `TransformProofs` | theorems about what `Transform` does: `DXSubFilterStreaming`, `SubPicBlending`, `FrameComposition` |
| `FilterConfiguration` | `DllMain`, the registry and the processes |
| `SubtitleCoreProofs` | theorems about `TextDrawing` and `FilterConfiguration` |
| `MemAllocator` | the allocator and its samples |
| `BufferPool` | what an allocator is to those who use it |
| `MemAllocatorProofs` | theorems about the allocator, and that it is a `BufferPool` |
| `OutputQueue` | `COutputQueue` |
| `OutputQueueProofs` | theorems about its safety |
| `ReferenceClock` | the clock, its schedule and its thread |
| `PullPin` | a pulling source's worker and its caller |
| `BaseRenderer` | the renderer with its pin (`EXTENDS ReferenceClock`) |
| `Playback` | a graph of these under a manager (`EXTENDS BaseRenderer`, `INSTANCE PullPin`) |
| `PlaybackProofs` | theorems about the clock and about the graph |
| `MC...` | the constants of each instance |

**`SRTSubtitleRenderer`.** Variables carry the members' names. A text is a model
value and `Strip` says what the tags leave of it; that is all the duplicate
check can tell apart. `std::set` order is `Before`; `upper_bound` with its
`rtNow ± 100` is `Above`; the loop that walks backward *from* that result, breaks
at the first span that is not active and leaves out `begin()` is `Walked`, and
`headNode` is what dereferencing `end()` reads, any value of `HeadNodes`. A
picture remembers the span and index it was drawn for and its slot in place of
pixels. `out` is what was stored into the caller's array since the count.
`SRTSpec` lets the calls come in any order except between the two of a frame;
`ForwardSpec` restricts it to a playback that runs forward (frames in order,
lines before their start, one end per start, and no start that equals what lies
behind `end()`).

**`DXSubFilterStreaming`.** One `pc` per thread; a step ends where another thread
can see the difference: taking a lock, reading a flag, entering or leaving the
renderer, waiting for a buffer. `m_csFilter` and `m_csReceive` hold their owner;
a critical section entered and left in one step is a test that it is free. A
renderer call is in progress between two labels (`InRenderer`), and a second
call meanwhile may end the process (`crashed`) or go on: that is the outcome of
a data race. So may blending an array that does not hold the pictures counted.
The neighbours are external: the manager stops downstream before this filter
and upstream after it; upstream's seek flushes both pins, joins its threads,
ends the flush and sends `NewSegment`. The output allocator is
`committed`, `free` and `held`.

**`SRTScript`.** A line is a kind with items, an item a character or a tag;
`Values` are the characters, the names of tags and the times. `TryExtension` is
one pass of `LoadExternalSubtitles`, `ParseBlock` one of `ParseScript`, `AtTag`
one of `ParseLine`'s tag loop and `AtItem` one of its steps from item to item;
`Stripping[n]` is what the loop has after `n` of them. `Strip` ends with the
remainder test as it is written (`line.size() - 1`). A script is `WellFormed` if
only an `.srt` is there, its lines are those of at least one subtitle
(`LinesOf`) with an empty line or two at the end, and each text has supported
tags that match, with no single character after the last of them. What the properties compare
it with, `Match`, `StylesAt` and `Balanced`, knows no stack: tags match if those
between them do. Reading past the end, popping an empty stack and parsing a time
from a line without one end in `status = "undefined"` or, where the code might
get by, may do so. Tags of any name are stripped by the code; the renderer's
header (`SRTSubtitleRenderer.h:27-28`) says others than the supported ones are
displayed as text.

**`PinLink`.** A link is a record of both pins' pointers, the references counted on
pins and allocators, and the allocators committed; an operator stands for a method
and returns the link it leaves. `AttemptConnection` is the code's: `CheckConnect`
takes the `IMemInputPin`, the output pin looks connected, the input pin's
`ReceiveConnection` accepts or breaks off, `DecideAllocator` tries the input pin's
allocator and then one of its own, and what fails is undone by `BreakOutput`,
`GiveUp` and, at the input pin, `Disconnect`. `fails` names the points at which the
other side or the memory fails. The same operators serve both video pins: as
output pin downstream, as input pin upstream.

**`DXSubFilterConnection`.** A media type is a model value with a subtype, a
frame and a sample size. `ConnectOutput` takes `m_csFilter`; `agreeing` says whose
types are tried (one given, the other pin's, then the own), `m_Position` is the
enumerator's, and `GetMediaType` computes the type there from the filter's
present input type, as the code does. `TryType` is an attempt: `CannotConnect`,
`DownstreamRefuses`, `ConnectOutputSame`, `ConnectOutputOther` or
`ReconnectRefused`, until one connects or none is left. `SetUp` is what both
branches of `CompleteConnect` do; `DecideBufferSize` comes after it and may
refuse, which undoes none of it. `ReconnectPin` only asks the manager, so
`Reconnect` happens later and may fail. `untried` is history: what the filter
would have offered when its list was begun and has not been tried. `Spec` lets the
neighbours do what the pins allow; `BuilderSpec` is a manager that connects the
inputs before the output and neighbours that change the stride only.

**`TextDrawing`.** Per renderer: whether it is alive, the count of its effects
collection (0 after it was made: deleted), where its thread is within an entry,
and whose effect is about to be rendered. `BeginEntry` is the layout with
`SetDrawingEffect`; `QueryInterface` starts one of the three callbacks
(`DrawGlyphRun`, `DrawUnderline`, `DrawStrikethrough` do the same with the
effects) and takes the reference that nobody gives back; `Lookup`, `Store` and
`Return` are the three accesses of `CreateEffectRenderer` to its slot;
`EndEntry` is the release by hand and the layout's. How many callbacks a text
takes and how many references a layout keeps is DirectWrite's choice. A renderer
is destroyed only between entries: it goes when the output is connected, which
the filter refuses unless stopped, and then no frame is in it (`StoppedIsQuiet`).
`drawn` records the callbacks the entries took; the properties use it to say for
which texts they hold.

**`SubtitleRendererContract`.** The abstract specification: a set of lines, what
was promised for the frame and what is shown. `Count` promises a number,
`Fetch` shows that many pictures, each of a line active at the time, keeping
those of the frame before whose line still is. `ImplementsContract` maps the
store to the lines and `out` to what is shown.

**`SubPicBlending`, `FrameComposition`.** A table entry is what a short holds
(`Short`), a cast to `BYTE` is `% 256`. `Luma`, `LumaOver`, `ChromaOver` are the
weighted sums that are meant, in integers without a width. `FrameComposition`
keeps three buffers as functions from addresses to a byte and the *site* it
belongs to (plane, column, row), so that `Composed` can ask for every byte of the
output whether it is in its place and blended as defined. The rows of a picture
are blended in any order, as `parallel_for` does; pictures follow one another.
The copy's rows and lengths are those of `CopyBuffer` for planar and packed
formats, with output rows as long as the input's or longer.

**`FilterConfiguration`.** A process is inside `DllMain` at one registry call; the
settings are numbered in the order they are read, the font's name last with its
size asked for first. `ReadValue` fails for a value that is missing or, the first
time, by chance, because `dataSize` holds whatever was on the stack.
`WriteValue` stores the process's record, whatever it is by then.
`RegDeleteKeyEx` makes the handles of a removed key useless (`key` counts keys).

**`MemAllocator`.** What is done under the allocator's section is one step; the
wait on the semaphore, the interlocked decrement and the callback after the
section are others. A thread holds samples, passes them on and releases them;
`Decrement` tells the plain write of a count of 1 from the interlocked decrement.
`life` says whether pins still hold the allocator. `BufferPool` knows only which
buffers are out, how many there are and whether more may be taken.

**`OutputQueue`.** One worker pass is one step, as the section is held for it.
`mode` is what the constructor was given: a queue or direct, batches exact or
not, the optimised flush or not. The list holds samples and marks; `m_ppSamples` is the
batch being filled, `sending` the one that the worker has taken out of the section. Downstream's answer to a delivery comes when it wants, unless it is
flushing or stopped. `fence` remembers what was made before the last flush.

**`ReferenceClock`, `PullPin`, `BaseRenderer`, `Playback`.** The schedule is a set
of packets, its head any with the least time. The clock's thread has the
priority `TIME_CRITICAL`: `Tick` waits for it. `Wake` reads the time,
`Advise` computes the wait from it, and what happens in between is what
`NoOversleep` is about. A correction forward wakes the thread only if it is larger than
`Negligible`, the half millisecond of `refclock.cpp:313`; `unnoticed` is a history
variable that adds up the others, and those backward, since the thread last read
the time. `Client` is any client of the clock; `ClockSpec` is thus a
specification that a graph can implement. The worker of `PullPin` is a label per
place where it can block or see a request: the two loops of `Process` with one
chunk requested ahead, and the flush of the reader that `ThreadProc` makes itself,
in the middle of the caller's if it comes to that. In `BaseRenderer` one step is
what is done under a lock without a wait; `m_State`, `m_dwAdvise` and
`m_bInReceive` are read and written outside of the locks too, and these are steps of
their own (`CheckPaused`, `SignalTimerFired`). `Stop`, `Pause` and a flush are split
where they wait: for the timer's callback, for `Receive`. The parameters of
`SendEndOfStream` are the values its caller has just set. `noTimer` is the system's: while it
is true `CompatibleTimeSetEvent` fails, and the end of the stream is reported at once.
`Playback` puts the
renderer's `Receive` into the worker's hands and lets a manager give commands;
`happened` counts them and the troubles: a correction of the clock, a change of
display, a read that fails, timers that run out or are to be had again. `stale` and `overtaken` are history variables.

## What is checked

All runs are TLC's breadth-first search of all states of the instance; none is
sampled. Symmetry is used in `configuration` only, for the two players: they are
compared with nothing and run the same code.

| Run | Result | Shows |
|---|---|---|
| `srt_forward` | pass | `StoreConsistent`, `CacheFromStore`, `PicturesMatchCount`, `FirstLineShown` for forward playback, and `ImplementsContract` |
| `streaming` | pass | `StoppedIsQuiet`, `NoOldLines`, and that Stop and seeks return (`StopReturns`, `SeekReturns`) |
| `connection` | pass | `FrameFits`, `RendererCurrent`, `ConnectionSound`, `AllTried`, `BothOrNeither` for `BuilderSpec` |
| `script` | pass | `LoadOutcome`, `EachSubtitleOnce`, `StyledAsWritten` |
| `drawing` | pass | `HolderKeepsAlive`, `PlainIsFreed`, `SingleIsSound` |
| `pixels` | pass | `Composed`, `InsideBuffers` for frames of six of the eight subtypes and pictures at even and odd places |
| `configuration` | pass | `Settled`, `UserKept` for two players and an uninstallation |
| `allocator` | pass | `NoLostWakeup`, `SampleOnce`, `AliveWhileOut`, `DecommitReturns`, and that it is a pool (`ImplementsPool`) |
| `delivery` | pass | `EachSampleOnce`, `StreamKept` (`NothingOld` and `InOrder`), `SignalsSound` (`NoLostWakeup` and `ResetReported`), `Returns` for the queue in five modes |
| `playback` | pass | `NoOversleep`, `NothingStale`, `NotEarly`, `CompleteAtEnd`, `CommandsReturn`, `PlaysOn`, `PauseCompletes` for a source, a renderer and a clock |
| `count_promise`, `two_threads` | violation | see below |

The type invariants are proved or were checked apart; no run spends a property on
them. What holds of the renderer in any order of calls (`StoreConsistent`,
`CacheFromStore`) is proved; TLC reaches any order in `count_promise`. That a
picture is of an active line (`OnTime`) and stays (`StaysOnScreen`) is part of
`ImplementsContract`.

Bounds and why they are enough:

- *renderer*: two texts of which one strips to the other, so that a tagged line, a
  plain one and a duplicate of either occur; three or four times, some nearer
  and some farther than the 100 units of the search; spans of all pairs of them,
  ends before starts included where calls come in any order; two entries per start; a
  `headNode` like no span and, in the passing runs, one that covers every frame.
  `MaxPictures` bounds the cache at the start of a frame, which in any order of
  calls can grow without end, each frame drawing the entries of a span once
  more; a forward playback never holds more than eight, so that in `srt_forward`
  the bound of nine cuts nothing off.
- *streaming*: one output buffer, so that the next frame waits for downstream; two
  seeks, so that a flush follows another's restart; two lines per segment, so
  that one may come in the flush and one after it; segments farther apart than
  the search, so that old and new lines are told apart. Pause and Stop are not
  bounded.
- *connection*: two subtypes of 8 bits and one of 16, which has no blender, each
  with two strides, and one the input rejects; the 16-bit frame is longer. So an
  input of 8 bits has a list of three types to offer and one of 16 bits a list of
  four, in two parts. An attempt fails at any of its points. Two reconnections
  wait at most.
- *drawing*: two renderers, which may be those of two filters or one after the
  other; texts of no, one and two callbacks; one or two references kept by a
  layout. `MaxRefs` bounds the references that leak.
- *script*: every text of one to five items over a character and the opening and
  closing tags of two names, so that every nesting and every malformed order of
  two tags occurs; any four lines as a script; two and three subtitles of one or two lines with nested tags
  and an unsupported one; zero to three blank lines at the end, the last line
  ended or not; every combination of the other files.

- *pixels*: a frame of 6 by 4, the smallest with an inner chroma sample on each
  side; output rows of 6 and of 8; a picture that covers the frame, two at odd
  places of which one has padded rows, and one of a single pixel; at most two of
  them in a frame, two frames. The colours include those at which the tables and
  the casts wrap round. What the colours are is proved for all (`LumaExact`).
- *configuration*: two settings, of which the last is the font's name, stand for
  the fifteen; two players and one `regsvr32 /u`; one edit by the user; two keys, the
  one before and the one after the uninstallation; a fresh installation too.
- *allocator*: three threads, two buffers, so that one waits while two hold, or two
  wait for one; one poll.
- *delivery*: four samples in batches of two, two of them queued, so that a batch is
  full, partial and split between list and batch. `InFlight` leaves out a
  `NewSegment` or `SendAnyway` under way when a flush begins, and `MCResetModes`
  a reset after an optimised flush: the code does go wrong then (below).
- *playback*: two chunks, so that one is delivered while the other is requested; a
  stream whose last frame is long enough for a timer, one with a frame that ends
  before it starts and one without times, one whose first frame is refused; a
  seek to the start and to the end. `MaxEvents` allows three commands or
  troubles, enough to run, overtake (pause and run again) and stop or seek; with
  four (1.8 million states) `NoOversleep` and `NothingStale` hold as well. `MaxTime` is
  the last tick; `TimeLeft` keeps it beyond the end of what is played, so that the
  bound hides neither a frame nor the end. `Negligible` is 1 and `Deltas` is 1 and 2: one correction does not wake the clock's
  thread and the other does, and two small ones add up to an oversleep of as much
  as the large one. `Correction` leaves the clock room to come to what is
  advised, though it oversleeps. `Lead`, the millisecond `AdviseThread` adds,
  is 0, with which it is hardest never to oversleep; the theorems hold for any
  `Lead` and `Negligible`, so for the code's, of which one is twice the other. `Deltas` has no
  correction backward, after which `GetTime` would stand still.

Deadlock is checked in `streaming` and `two_threads`. It is off in the others: a
renderer, a pool, a queue or a DLL that nobody calls, a graph whose commands are
used up, a frame that is finished, a parse that has ended in undefined behaviour
and a filter whose process is gone stop without that being an error. That nobody
waits for ever where a call is under way is what the liveness properties say.

### Where the code and its documents differ

Two have a run:

- `count_promise`: `ISubtitleRenderer.h:81` says as many pictures are stored as
  were counted. A line that comes after its span was drawn, or lines with one
  start and two ends, break it.
- `two_threads`: `ISubtitleRenderer.h:26-27` says each thread should own its
  renderer. The video and the subtitle thread share one without a lock.

Five more are stated as definitions without a run. To see one fail, add it as an
`INVARIANT` to the configuration named:

- `ZeroMeansNone` (`SRTSubtitleRenderer`; `srt_forward.cfg`):
  `ISubtitleRenderer.h:78` says a count of 0 means no subtitle is active. The
  search starts at `upper_bound`'s result, which usually is not active, and ends
  there; of the others only `begin()` is looked at.
- `StreamSwitched` (`DXSubFilterConnection`; `connection.cfg`):
  `SubtitleInputPin.h:32` says the pin handles stream switching. The renderer is
  that of the type at the time the output was connected.
- `TimestampsAsserted` (`SRTScript`; `script.cfg`): the assertion at
  `SRTSubtitleRenderer.cpp:167`. Several external files are parsed as one script;
  so is one blank line too many. Every well-formed script meets it
  (`AssertionHoldsIfWellFormed`).
- `DrawsOwnEffect` (`TextDrawing`; `drawing.cfg`):
  `DrawingEffectRendererFactory.h:38` says the effect renderer is based upon the
  effect passed in. It is based upon the first one passed in by any renderer of
  the process. After the output has been connected again that one is freed, and
  so are its brushes.
- `ReleaseFindsAllocator` (`MemAllocator`; `allocator.cfg`): the comment at
  `amfilter.cpp:3359-3364` says the release of a sample leaves the allocator
  alive. `ReleaseBuffer` reads `m_pNotify` after it has left the section, and
  another thread's commit and decommit may have let the allocator go by then.

Others are in the models, where a property leaves them out by name, or beside
them:

- A single last character of a line is not copied (`SRTSubtitleRenderer.cpp:295`),
  so that a line of one character is stored as an empty text; `WellFormed` leaves
  such texts out.
- A text without a glyph takes no callback, so that the release at line 651, meant
  for `SetDrawingEffect`'s reference, takes the renderer's own; `HolderKeepsAlive`
  leaves it out by `0 \notin drawn[r]`.
- `dxsubfilter.cpp:317` says "Expose all the supported formats". An attempt that
  fails after `CompleteConnect` has changed the filter's input from 16 bits to 8
  (`DecideAllocator` comes later) leaves the enumerator at its position in what is
  now a shorter list, and the rest is never tried. `AllTried` leaves that switch
  out by name.
- The video pin may be connected again with another subtype under a connected
  output, against the assertion at `dxsubfilter.cpp:448`; `BuilderSpec` leaves that
  out.
- The queue: a `NewSegment` or `SendAnyway` that read `m_hr` before a `BeginFlush`
  is queued in the flush, and the event of the flush is set a second time (the
  assertions at `outputq.cpp:320` and `329`); with `m_bFlushingOpt` a flush whose
  worker was not yet waiting leaves that event set for a later `Reset`; a direct
  queue with batches that are not exact keeps a partial batch against the
  assertion at 644; `IsIdle`'s assertion at 803-806 does not hold with exact
  batches.
- The allocator: each poll with `AM_GBF_NOWAIT` leaves a count in the semaphore,
  against the comment on `m_lWaiting` at `amfilter.h:1416`. A waiter then wakes for
  nothing and waits again.
- Pixels: a picture at an odd place has its chroma one pixel off, and the last
  column or row of it is not blended; `SetActualDataLength` is given the input's
  length though output rows may be longer. `Composed` says which sites a picture
  reaches.
- The renderer: `SignalTimerFired` forgets the advise outside of the locks; a Pause and
  a Run between the moment a sample has come due and its drawing schedule it once
  more, it is drawn at once, and the second advise stays and may fire for the
  next frame (the assertions at `renbase.cpp:511` and `557` that no advise is
  outstanding). `NotEarly` allows for that by `overtaken`.
- The clock: corrections forward of up to half a millisecond do not wake its
  thread, to save the switches (the comment at `refclock.cpp:306-310`). Nothing
  adds them up: several of them in one wait, each too small, make a packet late
  by their sum. `NoOversleep` allows for that by `unnoticed`, and for no more.
- The renderer: if a timer for the end of the stream cannot be had, EC_COMPLETE
  is sent at once (`renbase.cpp:1291-1293`), while the last frame is still on
  the screen. `CompleteAtEnd` leaves that out by `noTimer`.
- The renderer: with `m_bAbort`, which a change of display sets, a thread that waits in
  `Receive` may be left waiting until the graph is stopped
  (`renbase.cpp:1488-1492`). `PlaysOn` promises nothing then.
- The renderer: a Run from Stopped calls `Ready` before `CBaseFilter::Run` pauses it,
  so that `GetState` answers `VFW_S_STATE_INTERMEDIATE` while running, against the
  comment at `renbase.cpp:357-358`. A flush of a paused renderer calls `NotReady`, but
  a frame between the lock it gave up (1146) and the next still calls
  `Ready`, against the comment at 700. A source that gives up sends no end of
  stream, and the pause is never completed (`GivenUp`; the comment at 325-326 says
  so).
- Settings: loading that stops part-way leaves a mixture, which is written over the
  user's later values under the comment "Write default filter configuration
  data"; a player that runs while the filter is uninstalled writes the key again
  when it ends; the key is never closed. `UserKept` leaves out a first read that
  fails by chance.

## What is proved

For all texts, times, bounds and contents of the memory behind `end()`, from
`RendererAssumption` (types of the constants, `Never` before all times):

- `SRTTypeOK`, `SRTStoreConsistent`, `SRTCacheFromStore`: invariants of `SRTSpec`.
- `ForwardPicturesMatchCount`, `ForwardOnTime`, `ForwardFirstLineShown`,
  `ForwardStaysOnScreen`: of `ForwardSpec`.

For all renderers, callbacks and bounds, from `DrawingAssumption`:
`DrawingTypeOK`, `DrawingHolderKeepsAlive`, `DrawingPlainIsFreed`,
`DrawingSingleIsSound`, invariants of `TextDrawing`'s `Spec`.

For all threads, buffers and bounds, from `MemAllocator`'s assumptions:
`AllocatorTypeOK`, `AllocatorNoLostWakeup`, `AllocatorSampleOnce`,
`AllocatorAliveWhileOut`, and `AllocatorImplementsPool`, the refinement of
`BufferPool` step by step. `ForwardImplementsContract` is the refinement of
`SubtitleRendererContract` by `ForwardSpec`. `LumaExact` and `ChromaExact` say of
every colour, every alpha and every byte below that the tables of shorts and the
casts give the weighted sum meant. `ClockNeverOversleeps` is the clock's, for any
clients and any corrections, forward and backward: a packet is late by no more than the
corrections the thread was not woken for; `PlaybackImplementsClock` says every step of the graph is one of the
clock, and `PlaybackNeverOversleeps` follows.

For all streams, times, chunks and bounds, from the assumptions of the clock, the
renderer and `Playback`: `PlaybackInvariant`, and from it `PlaybackNothingStale`,
`PlaybackNotEarly` and `PlaybackCompletesAtEnd`, of the graph's `Spec` without its
fairness. `RendererConstants` assumes that the clock is corrected forward only, as `GetTime`
is not modelled standing still: `PlaybackNotEarly` says nothing of a clock put
back. `PlaybackCompletesAtEnd` has the exception for a timer that cannot be had.

For all formats the blender and the copy know, all even frame sizes, output
widths, pictures that lie in the frame and bytes, from `FrameCompositionAssumption`
and `FrameByteAssumption`: `NothingStrays` (`InsideBuffers`) and `FramesAreComposed`
(`Composed`), of `FrameSpec`, with the lemmas they rest on, `AddressesApart` and
`RowsAreCopied`.

For all numbers of settings and of processes, from `FilterConfigurationAssumption`:
`ConfigurationInvariant`, `ProcessesSettle` and `UserSettingsKept`.

For all files, scripts of any length and tags nested to any depth, from
`ValuesAssumption` and `DirectoryAssumption`, which are the types of the
constants: `ScriptInvariant`, `ScriptTypes`, `LoadingIsAsAssumed`,
`SubtitlesAreRead`, `StylesAreThoseWritten` and `AssertionHoldsIfWellFormed`.

For all formats, lists of supported subtypes and bounds, from
`ConnectionAssumption` (a format for every subtype and frame): `ConnectionIsSound`
and `AttemptsAreWhole` of `Spec` and of `BuilderSpec`, `FramesFit`,
`RendererIsCurrent`, `AllAreTried` and `ConnectionTypes` of `BuilderSpec`.

For all lines, times, buffers and bounds, from `StreamingAssumption`:
`StreamingStoppedIsQuiet`, `StreamingNoOldLines`, `StreamingBuffersAccounted`,
`StreamingTypeOK` and `StreamingStoreConsistent`, of the streaming filter's `Spec`.
None needs its fairness, nor that only one thread is in the renderer. The last says
of the renderer behind the threads what `SRTStoreConsistent` and `SRTCacheFromStore` say of
it alone: whatever the video and the subtitle thread ask of it, in whatever order,
list and cache agree, as long as no two calls at a time have ended the process.

For all modes, batches, samples and lengths of the list, from
`OutputQueueAssumption`: `QueueSignalsSound`, `QueueNothingOld`, `QueueStreamKept` and
`QueueEachSampleOnce`, of `OutputQueue`'s `Spec` under `ResetsSafely`. That condition
says which calls may be under way when a flush begins (`Receive` and
`EndOfStream`, no other mark) and that no queue made for short flushes is reset.
Without it the event that flush and reset share may be set with nobody waiting:
a mark that comes in a flush, after the worker has emptied the list, makes it
report a second time, and a flush that is cut short ends without asking
for the event. The next `Reset` would find it set. The instance of `delivery`
meets the condition.

The general ones of the renderer follow from `StoreInv`: the three invariants and
finiteness of the sets. Each operation keeps it by itself, whoever calls it and
when; that a frame in progress has a time (`PendingHasTime`) is kept only by a
caller that counts before it asks for pictures, and `ForwardInv` adds it. `CacheFromStore` is inductive only
together with `StoreConsistent` and the types: a picture's entry is found again
under its span and index because `ParseLine` appends and `Invalidate` empties
everything at once.

`PicturesMatchCount` is far from inductive. The count adds up the *drawings* of
the valid spans (span, index); the caller gets *pictures*. `ForwardInv` says why
there are as many: a cached picture is drawn for its own span (`DrawnForOwnSpan`,
which needs `OneEnd` and `HeadInert`), no two have the same span and index
(`NumberedOnce`), every drawing of a valid span has its picture once the frame is
done (`ValidDrawn`), a span once drawn is drawn as a whole (`DrawnWhole`, which
needs that no line comes after its start), and a cached picture of an active line
has its span among the valid ones (`ActiveValid`). Numbering is then a bijection
between pictures and drawings, and the library's facts on cardinality finish the
proof. `OnTime`, `FirstLineShown` and `StaysOnScreen` use `OutIsActive`,
`FirstValid` and the fact that a span leaves the valid ones only when it is over.
TLC finds every conjunct of it true on the instance of `srt_forward`.

`DrawingInv` compares each count with what it is owed (`Owed`): the renderer's
reference, the layout's, and, once the last callback has come, the one that
`EndEntry` takes off by hand. The count covers that if every text had a glyph,
and equals it if every text took one callback (`Covered`). `SingleIsSound` needs
besides that the cache points only to renderers that were made (`EffectsMade`).

`AllocatorInv` adds to the three invariants where each call is (`Calls`), that a
sample's references are accounted for (`Accounted`, `References`), and what a
thread between two steps of a release still holds (`Phases`). Sets of
threads and of samples are counted with the library's facts on cardinality.
`ImplementsPool` needs the invariant for what is free and out.

`ClockInv` adds to `NoOversleep` that the time the thread has read is still right
when it computes its wait, but for `unnoticed`, or it will be woken again
(`TimeStillRight`).

`NothingStale` needs the protocol between the manager, the caller's requests and
the source thread (`ProtocolInv`): a request is replied to once, a pause only by a
source at rest; a renderer that is stopped or flushed has the manager stop or
pause the source before it goes on. What is stale in `Receive` then meets a renderer
that refuses it (`StaleInv`). `NotEarly` adds the chunks and the sample
(`CountInv`, `SampleInv`) and that, unless a Run has overtaken the timer, there is
one advise at most, it is for the sample that waits, and the event is set only
once that has come due (`ScheduleInv`). `CompleteAtEnd` adds that the end comes
behind the last chunk and that `m_SignalTime` is by then no earlier than the end of
the last frame (`EndInv`). A last frame that ends before it starts is drawn at
once and sets no such time: `EndTime` is 0 for it.

`FrameInv` adds to `InsideBuffers` the sizes of the buffers and that the rows still
to be blended are rows of the first picture: rows follow one another, so the
last access of the last row bounds all others. `ComposedInv` says of every site
which pictures have been blended into it so far: sites have distinct addresses
(`AddressesApart`), so a row changes the sites it covers and no other, in
whatever order the rows come; once `CopyBuffer` has come to a row, the output has
the sites of those before it (`RowsAreCopied`). Bytes are exact by `LumaExact` and
`ChromaExact`, and stay bytes under any number of pictures.

`ConfigurationInv` says what a process may rely on between two of its calls to the
registry: it agrees with what is stored as far as it has read or written
(`AgreesInv`), and what the user had set is in the registry and in every process
that has come past it (`KeptInv`), unless a first read failed by chance.

`ScriptInv` is the types and, for a well-formed script, that `ParseScript` stands at
the time of the next subtitle when it has read as many as it has entries.
The rest is about `Strip`: after `n` items of a line the text is the characters
before them (`TextKept`), the stack holds the tags that are open and not
closed (`StackKept`), and the runs made are those of the pairs closed, each with the
styles that were open around it (`RunsKept`). Since tags match, the one a
closing tag pops is its partner (`Partners`), no pop meets an empty stack
(`NeverEmpty`), and nothing is left at the end (`AllClosed`). `StrippedWell` is the sum
of it: nothing but the tags is lost, and every character has the styles of the
tags around it, as `StylesAt` defines them without a stack.

The proofs about the connection rest on one lemma per operator of `PinLink`: what
pointers it leaves and that references stay counted (`Counts`); `AttemptLemma`
composes them to the fact that an attempt leaves a sound link, whole or with
neither pin connected, whatever fails. `ConnectionInv` adds that only what is
connected and running is committed, and that `Connect` works on a stopped filter.
`FrameFits` is not inductive, since a reconnection comes later than the set-up
made for it: `SetupInv` says everything is set up for `Target`, the last type
asked for, or the input's if none waits, while the output is connected; and that
nothing runs while one waits. `AllTried` needs that each type yet to be tried is
at the enumerator's position or behind it (`TriedInv`), although the position
stays while the input type changes: types of the same frame and width have the
same list, but for its first entry (`SameListLemma`).

`QuietInv` adds to `StoppedIsQuiet` who owns `m_csReceive`: a video thread past
`LockReceive` until its `Receive` returns, and the manager while it stops the output
pin, so the allocator is decommitted with no frame in between. `LinesInv` adds to
`NoOldLines` that an entry is filed under its own start, that the pin's `m_tStart` is
the segment's once `NewSegment` is through, and that between `Invalidate` and the note
of the new start nothing is stored, so a frame that draws just then draws nothing. `SharedInv`
takes `StoreInv` over from the renderer's proofs, through an instance of them in which
the calls of the two threads are the operations, and adds what the threads keep
between their steps: the types of their own state, that what they pass to the
renderer is a time, and that a buffer is free, kept downstream or with the video
thread.

`QueueInv` keeps the types, where list, batch and delivery may be filled
(`Placed`, with the parameters of a segment behind their entry), and when the
event may be set: in a flush only by a worker that has emptied the
queue and waits (`Flushes`), in a reset only once the one `RESET_PACKET` is gone
(`Resets`), outside of both, where no flush is cut short, not at all. `NoLostWakeup` is inductive beside it, and
`Fresh` says that whatever is in a place was made after the fence. `OnceInv`
counts occurrences: each step only moves a sample between places. `OrderInv` takes
`InOrder` apart, place by place: what leaves a place comes from its front and joins
the end of the next, where all was before it.

Induction over a line, the pictures of a frame or the subtitles of a script is by
the least counterexample (`UpTo`): a set of numbers that has 0, and with each also
the next, has them all. The recursive functions it is used for exist by
`StepByStep`, which is proved in the same way. Nothing is said of
recursion beyond these.

Model-checked only: what depends on fairness, which is out of the prover's reach
(`StopReturns`, `SeekReturns`, `DecommitReturns`, `Returns`, `CommandsReturn`,
`PlaysOn`, `PauseCompletes`), and the absence of deadlock in `streaming`. Every other property of a passing run is a theorem.

## Fairness

All of it is weak, one condition per thread: a thread's next step is enabled until
it is taken, or waits for a lock or an event that the properties show to come.
Nothing obliges a caller to call, the user to issue commands or a neighbour to
answer, but for what follows.

- `DXSubFilterStreaming`: threads inside a call of the filter are scheduled
  (`VideoStep`, `SubtitleStep`), the manager carries a command through (`AppStep`),
  a seek continues once begun (`SeekerStep`). Downstream's `Receive` returns for
  certain only if downstream is stopped or flushing; a paused video renderer
  keeps its frame. `StopReturns` and `SeekReturns` allow for the crash a data race
  may cause.
- `MemAllocator`: a thread inside a call is scheduled (`InCall`). Nobody has to
  release a sample.
- `OutputQueue`: the caller inside a call, the worker and the control thread are
  scheduled; downstream answers for certain once it is flushing or stopped.
- `Playback`: the source thread, the manager within a command, the clock's thread,
  the timer's thread, and time. A chunk requested from the reader may never
  arrive: `ChunkArrives` has no fairness, and commands return all the same.
  Only `PauseCompletes` assumes that it does.

## What is not modelled

Of dxsubfilter: glyphs and Direct2D calls; timestamps as text; an opening bracket
that is never closed (`ParseLine` then loops for ever); reading samples as
UTF-8; subtitle formats other than SRT, for which there is no renderer; quality
messages, `EndOfStream` (the subtitle pin drops it, the video pin's changes no
state kept here). Of a connection: a partial media type as a filter of the
types tried, the link of the subtitle pin, and reading types while another thread
enumerates them. Frames are shown at their segment's start, as only the segment tells
old lines from new there. The geometry sink, which no code constructs.
Registering the filter, the class factory and its count of locks. The tables of
the blender are filled before its first frame; a second filter made meanwhile on
another thread might find them half filled (`SubPicBlender.cpp:46-48`).

Of the base classes, which are vendored and most of the repository's lines: windows
and their controls, video renderers with their quality management, in-place
transforms, push sources, position helpers, property pages, debug output, lists
and media types. dxsubfilter derives from none of them. `COutputQueue`, the
clock, the pull pin and the renderer are in the library that is built and are
modelled for the library's sake; dxsubfilter's own pins use the allocator, the
transform and the pins. Left out of these: `SetNotify`, periodic advises, the
connection of a pull pin, `EC_REPAINT` and media positions.

## Plan

Done: the renderer, its contract and its drawing; the streaming filter; the
connection; files and scripts; pixels; the configuration; the allocator; the
output queue; clock, pull pin and renderer; and the proofs of their safety. What
could come next:

1. Marks of the output queue told apart from each other, so that each is known to
   come where it was given between the samples.
2. Bounded arithmetic: `ComputeTimestamp` with `lexical_cast`.
