# TLA+ models of cs-app-labs

This directory is a verification development of the programs in `src/`: the
solutions of the CS:APP labs and the programs they run in.  It contains TLA+
modules, TLC configurations that check them on small instances, and TLAPS proofs
that hold for every value of the constants.  Every definition is translated from
the source; `PROJECT.json` names the lines each one stands for.

    tlc -config MCSbuf.cfg MCSbuf          one run; PROJECT.json lists them all
    tlapm SbufProofs.tla                   one module of proofs

## 1. The system

The repository is a set of independent programs, one or more per lab.

| part | state | operations | hard |
|---|---|---|---|
| proxylab buffer (`sbuf.c`) | ring, `front`, `rear`, three semaphores | insert, remove | acceptor and workers interleave at every statement; full and empty |
| proxylab cache (`cache.c`) | item list, LRU list, `total_size`, `readers_count`, two semaphores | `cache_get`, `cache_add` | readers that write the LRU list; lookup and addition are separate critical sections; eviction under readers |
| proxylab pipeline (`proxy.c`) | per worker: request, headers, response | `proxy`, `forward`, parsers | two sockets with a jump target each, errors on every path, reads without a timeout |
| Rio (`csapp.c`) | read buffer | `rio_readlineb`, `rio_readnb`, `rio_readn`, `rio_writen` | short counts, interrupts, errors in the middle |
| tiny (`tiny/tiny.c`) | one connection | `doit` and what it serves | one process: what ends or blocks it ends or blocks the service |
| shell (`tsh.c`) | job table, signal mask, handler stack, children | `eval`, builtins, `waitfg`, three handlers | handlers run between any two statements; signals merge |
| allocator (`mm.c`, `memlib.c`) | boundary tags and links in untyped memory | `mm_malloc`, `mm_free`, `mm_realloc` | a wrong bit shows many calls later |
| driver (`mdriver.c`, `fcyc.c`, `clock.c`, `ftimer.c`) | ranges, statistics, samples | the passes over a trace | ranges live through passes; counters wrap; noise |
| csim (`csim.c`) | sets of lines, counters | one line of a trace | order of last use |
| transpose (`trans.c`, `test-trans.c`) | matrices, cache | blocked loops | sizes that are no multiple of a block |
| puzzles (`bits.c`, `btest.c`) | none; errors, alarm | 13 functions, the harness | edges of number formats |
| Y86-64 (`isa.c`, `ssim.c`, `psim.c` with their HCL) | memory, registers, pipeline registers | one instruction, one cycle | stalls, bubbles, forwarding, wrong paths, faults in flight |
| assembler (`yas.c`) | symbol table, code | two passes | labels used before they are defined |
| hcl2c (`node.c`, `outgen.c`, `hcl.y`) | symbol table, parse tree | reductions, code generation | nodes shared between lists |
| bomblab, attacklab | | | disassembly and write-ups of given binaries; the C files there restore functions of those binaries for study and are not built |

Correct means: the buffer is a bounded queue and the cache an LRU cache whatever
the interleaving; every request gets one whole answer, of the server it names;
the job list is the set
of children and the prompt comes back exactly when it should; blocks are
disjoint, keep their contents and nothing leaks; both processors do what the
instruction-level machine does; the tools (assembler, HCL compiler, simulators,
drivers, harnesses) report what is the case.

How the parts meet: `proxy.c` calls the buffer, the cache and Rio, and talks to
tiny over sockets; the handlers of the shell interrupt its main loop; `mdriver`
calls `mm.c` and reads what it wrote; `test-trans` feeds the accesses of
`trans.c` to `csim`; the assembler feeds the simulators, which check themselves
against `isa.c` (option `-t`), and the HCL compiler produces their control logic.

## 2. Modules

| module | what it is |
|---|---|
| `BoundedFifo` | abstract: a bounded queue several threads put into and take from |
| `Sbuf` | `sbuf.c`, one action per statement, with acceptor and workers |
| `LruCache` | abstract: a cache of bounded size with eviction in order of last use |
| `ProxyCache` | `cache.c`, one action per shared access, with the `forward` that uses it |
| `ProxyCacheLists` | what the two lists of `ProxyCache` mean; the refinement of `LruCache` |
| `Uri` | `parse_uri` of `proxy.c` and of `tiny.c` on sequences of characters |
| `Tiny` | `tiny.c`: one connection after the other, its answers and its ends |
| `Proxy` | `proxy.c`: workers from request line to cache, composed with `Tiny` |
| `Rio` | the Rio package of `csapp.c` on one connection |
| `JobList` | the job list of `tsh.c` |
| `Tsh` | the whole shell: EXTENDS `JobList`, with main, handlers, children and kernel |
| `Allocator` | abstract: what an allocator promises to its client |
| `Mm` | `mm.c` on `memlib.c`, driven by any program |
| `Mdriver` | EXTENDS `Mm`: reading traces, the three passes, K-best, timers, score |
| `Csim` | `csim.c`: options, cache, loop over a trace |
| `TestTrans` | EXTENDS `Csim`: `trans.c` under `tracegen.c` and `test-trans.c` |
| `Words` | machine words of a given width |
| `Bits` | the puzzles of `bits.c` and the references of `tests.c` |
| `Btest` | EXTENDS `Bits`: `btest.c` with the table of `decl.c` |
| `Y86Isa` | memory, ALU, conditions and `step_state` of `isa.c` |
| `Y86Control` | the control logic the HCL files of both processors share |
| `Y86Seq` | one cycle of `ssim.c` under `seq-full.hcl` |
| `Y86Pipe` | `psim.c` under `pipe-std.hcl`, with the machine it is compared with |
| `Y86Asm` | both passes of `yas.c` and `load_mem` |
| `Y86Tty` | command lines, runs and the check `-t` of the simulators; `yis` |
| `Hcl` | the compiler `hcl2c`: reductions, checks, code, breaking of lines |
| `MC...` | instances for TLC |
| `SbufProofs`, `ProxyCacheProofs`, `ProxyProofs`, `RioProofs`, `TshProofs`, `MmProofs`, `MdriverProofs`, `Y86PipeProofs` | theorems and their proofs |

**Sbuf.**  `pc[t]` is the next statement of a thread.  `buf[++rear % n] = item`
is two steps, since the increment and the store are two accesses to memory: the
mutex must protect both.  Producers may be several, which is more than `proxy.c`
uses.

**ProxyCache.**  Nodes are a finite set; a node stands for a `struct item` and
its `struct lru`, `free` is the set of nodes the heap may hand out, and both
lists are heads and next/prev functions over nodes, so that a dangling pointer
can be expressed.  `Enter*`, `Scan*`, `Touch*`, `Copy`, `Leave*` are `cache_get`,
`AddWait`, `Evict`, `Insert`, `AddUnlock` are `cache_add`.  `Evict` and `Insert`
are each one step, because the writer is alone in the lists (`WritersAreAlone`,
proved); the touch of a reader is two.  Entries are a key, a size and the number
of the request that fetched them, so that an old response can be told from a new
one.

**Proxy, Tiny, Uri.**  A connection has a thread from `Take` to its close; the
labels of `pc` are the calls that may block.  One action goes from one such call
to the next with every exit in between, and `Answered` is `clienterror`.  A
response is a sequence of blocks, a block being what one `rio_readnb` returns,
and carries what it answers, so that a mixed or cut response can be told.  The
cache is the abstract LRU list that `ProxyCache` is shown to implement, and the
connections are taken in the order they came, as `Sbuf` promises.  A client may
go away and a connection to a server may be reset at any step.  There is a `Tiny`
for each address, a host with a port, and its responses say where they come from,
so that an answer of the wrong server can be told.  `Tiny` dies or hangs where its
code does.  What is allocated on the way is counted: the headers (`stored`), and
the copy that `cache_get` makes on a hit (`cached`).  A header line sent to the
server is the set of the header names `strstr` finds in it, so that two headers
on one line can be expressed.  A URI is a sequence of characters, of which a run
that the code never looks into is one.

**Rio.**  Each `read` or `write` returns any count up to what was asked for, is
interrupted, or fails; one system call or one round of a loop is one step.

**Tsh.**  The shell is a stack machine: the frames of the handlers are on
`stack`, main runs when it is empty, and `Deliver(sig)` pushes a handler before
any step unless the signal is blocked or its handler is running (sigaction
without SA_NODEFER).  `pending` is a set: the kernel merges signals.  A job-table
function is one step.  A handler that interrupts it half way sees a slot that is
half filled; main holds SIGCHLD off where it calls `addjob`, and the key handlers
only look for a slot in state FG, so that the one effect is a key that finds no
foreground job, which the model has anyway.  Children go from `started` (forked)
to `grouped` (setpgid) to `running` (execve), may stop themselves, are stopped,
continued and ended by `kill`, and are zombies until `waitpid` reaps them.
Command lines go through `parseline`; a word that is looked at letter by letter
is a sequence of letters, any other is one.

**Mm, Mdriver.**  Memory is a function from the multiples of eight to integers:
the code is built with four-byte words at a stride of eight bytes, so each word
of the model is one tag, pointer or piece of data.  The functions of `mm.c` are
operators from heap to heap, written to memory in the order of the code where
the order matters.  Lengths are `size_t` and `int` of WORD values (2^32 in C),
with the conversions of `mm_malloc` in place.  `Mdriver` makes the same calls from a
trace: its lines are chosen when the first pass comes to them and are the same
in the later passes.  Of a measured pass the model chooses how many cycles go by
and whether a tick of the timer is counted, each without regard to the other:
`callibrate` (`clock.c:213`) only estimates what a tick costs, as the least ratio it
has seen, and `times` counts ticks coarsely.  So the time of a pass may come out too
small, or negative, as it may in the code.

**Csim, TestTrans.**  A set is its list of tags, least recently used first; the
loop of the transposition is one step per iteration over i, whose accesses are
simulated in order.

**Bits, Btest.**  The puzzles are operators on words of `Width` bits and floats
of a smaller format.  `Btest` is the harness: the lists of values, one comparison
a step, and the alarm before any of them.

**Y86.**  A word has `WordBytes` bytes.  Signals of the pipeline are state
functions under their HCL names; one step is one cycle.  Beside the pipeline
runs `isa`, one step of `isa.c` for each instruction that leaves write-back.
`Y86Tty` runs `ssim` and `yis` as a whole, with their limits.  `Hcl` has one
action for each reduction of the grammar, a stack in place of the parser's, and
sequences in place of lists linked by `next`.

## 3. Runs

| run | instance | distinct states | shows |
|---|---|---|---|
| `sbuf` | 2 producers, 2 consumers, N = 2, 4 insertions | 64 359 | `sbuf.c` is a bounded queue, and what is put in is taken out |
| `cache_locks` | 3 threads, 1 key, 3 requests, room for one entry | 47 914 | additions are alone, readers relink one at a time, no lookup stands on a freed node; requests finish |
| `cache_lru` | 2 threads, 2 keys, 3 nodes, 5 requests, responses of three sizes | 1 178 841 | the whole is an LRU cache: the entry used longest ago goes, of several for a key the newest is found; both lists hold the same entries, sizes add up, an eviction has a victim, the older of two entries for a key goes first |
| `shell` | 2 job slots, 2 processes, 4 commands of every kind, 2 keys | 933 896 | the job list and the children agree; one foreground job, none at the prompt; states change as the table in `tsh.c` says |
| `shell_live` | the same, 3 commands, 1 key, with fairness | 75 914 | every zombie is reaped; the prompt comes back |
| `shell_ghost` | the same | violation | `fgpid` does not find the foreground job behind an entry that `fg` left |
| `cachelab` | traces of five lines on three caches; matrices | 539 884 | `csim` counts right; the transposes are right and as good as graded |
| `datalab` | words of 8 bits, the whole harness | 38 246 | puzzles and references agree; so do verdict and alarm |
| `mm` | any program on a small heap, traces of four lines | 130 345 | tags, free list and blocks agree; the allocator keeps its promise; the driver's verdict is right, and its score is computed from the best of the samples |
| `rio` | streams longer than both buffers, cut anywhere | 205 854 | nothing is lost or repeated, and calls return |
| `web` | 3 connections, 2 threads, 3 servers, one fault | 241 445 | one whole answer each, of the server that was named but for shared cache keys; only whole responses in the cache; nothing leaks but the copy made on each cache hit; what the server is sent of headers; requests finish |
| `y86` | bodies of four statements; expressions of four reductions | 142 789 | pipeline, sequential processor and `isa.c` agree; the check `-t` succeeds; assembler and compiler do what they should |

The bounds are the smallest at which the interesting cases meet.  `sbuf`: the
ring wraps and is both full and empty with two threads on each side.
`cache_locks`: two readers share a node while a third thread waits to evict it;
`cache_lru`: two or three entries at a time, of which a hit moves one to the end
before an addition evicts the first, an addition that evicts two, an entry too
large to cache, a key stored twice, and an eviction between two lookups; with the
list left as it was on a hit (`TouchForgotten`) the run fails.  `web`: the third
connection waits for a free thread and may find what the first has cached; two of
the three servers, a:880 and a8:80, have the same key, and both are asked; every
kind of bad request is among the second ones, a request line that cannot be read
or is blank and an address where nobody listens included; a response is shorter
than, as long as and longer than what may be cached.  `rio`: a line longer than the
caller's buffer, a buffer of the package longer than that, streams longer than
both.  `shell`: two processes are a foreground beside a background job, in a
table they fill; since a pid is never given twice, the commands after two
programs are for `fg` and `bg` on them.  `mm`: all four cases of `coalesce`, both cases of
`place`, a realloc in place, one that moves and one that is refused, a request
that needs the heap to grow into a free last block, and a heap that is full; for
the driver, two traces of four lines together, with a cycle counter that starts
just below its wrap, passes of fewer and of more cycles than a tick is estimated
to take, and ticks that are counted or not.  The `mm` run has a VIEW: two states that differ only in
words nothing will read before writing them (the insides of free blocks, bytes
the program has not written) are one.  `cachelab`: sets fill, hit at the head and
at the tail and evict; matrices are smaller than a block, end in the middle of
one, are not square, and are those the driver grades.  `datalab`: every word of
eight bits, pairs of them, and triples of chosen ones.  `y86`: a body of four
statements over eight of the catalogue in `MCY86`, with a `call`, a `ret`, a
`jne` whose outcome differs, pushes and pops of `%rsp`; the prologue, the halt, the
subroutine and the data below the stack make them wrong paths, loops, jumps into
data and accesses past the end of memory; and every expression of three further
reductions for the compiler.

`cache_lru` uses the symmetry of threads, nodes and keys, which no definition
tells apart; it has no liveness property.

Deadlock is not checked where the system really stops: the bounded numbers of
insertions, requests, commands, lines and calls come to an end.

Fairness, where a run has liveness properties: weak fairness of each thread's
own step (`sbuf`, `cache_locks`), of "some thread or server that can run
does" (`web`), of the call in progress (`rio`), of the shell's main-or-handler
step, of the delivery of each signal, and of a child's way to `execve`
(`shell_live`).  That is what the schedulers of the kernel and of the thread
library give.  No strong fairness is assumed of semaphores: a thread that waits
on one may be overtaken.  With a bounded number of calls it still gets its turn,
and that is what the runs show; with an unbounded stream of lookups an addition
to the cache can starve, because the code prefers readers.  Nothing makes
clients connect, users type, or jobs end or stop, and nothing makes a server
that hangs answer.

Each property has at least one faulty variant of a definition under which TLC
finds it violated (`mutants` in PROJECT.json).  The variants stand beside the
definitions they replace and are marked as such.

### Where the code does not do what it should

One run ends in a violation, `shell_ghost`: `fg` on a job that ends meanwhile
leaves a slot in state FG without a process; `fgpid` stops at it, and keys no
longer reach later foreground jobs (`tsh.c:354`, against the comment at 536).

The others were met while modelling.  The models do what the code does, and the
properties are worded so that they hold of it; where an exception is needed it is
named in the property.

* shell: job IDs wrap at MAXJOBS without a look at the table and can coincide
  (`tsh.c:502`); a stop reported between the state change and SIGCONT leaves a
  running job listed as stopped (348); ctrl-c before the child has called
  `setpgid` and `execve` is lost (431); with a full table the child runs unlisted
  (202); a line without a command, `&` alone or a quote that is never closed gives
  `strcmp` a null pointer (290); `fg %` uses a `jid` that was never set (322).
* proxy: an unsupported HTTP version is answered with an error and the request is
  then served as well (`proxy.c:170`): `OneAnswer` is about supported versions.
  Without a `Host` header the line the proxy makes has no end, and User-Agent comes
  on it (318): `HeadersForwarded` says so of such requests.
  Whoever is answered from the cache leaves a copy of the answer allocated:
  `cache_get` makes it (`cache.c:114`) and `forward` returns without freeing it
  (`proxy.c:221`).  `NothingLeaks` names this one.
  One header more than the array holds is stored past its end (452).  A failed
  read is taken for a length (339): what keeps a cut response out of the cache is
  that this length is too large.  Keys are joined without separators (528), so that
  what a8:80 has said of a query may be answered to who asks a:880: `OneAnswer`
  names it.
* tiny: `read_requesthdrs` never ends after EOF (`tiny.c:119`).  As it stands
  `tiny.c` does not compile: its `Rio_writen` calls have three arguments and
  `tiny/csapp.h:184` declares four.
* csim: without `-E` the help is printed and the simulation goes on with sets of
  no lines.
* mdriver: the time of a pass can be negative, when ticks are counted that cost less
  than estimated (`clock.c:213`); the index may then be outside 0 to 100, and
  `BestIsScored` bounds it for times that are not.  `add_range` compares the ends of a new block with the old ones, and
  does not see a new block that contains an old one (`mdriver.c:407`).
* psim: `-l` counts cycles where instructions are meant (`psim.c:750`), so that
  `-t` with a limit compares different runs.  ssim: a run that its limit ends
  shows a state one instruction old.  In `isa.c` `%rsp` has moved when the access
  of `pushq`, `call` or `popq` faults, in the processors it has not.
* hcl2c: a case expression among the members of a set is miscompiled
  (`node.c:194`); members of a set are not checked to be Booleans or words;
  numbers are not counted for the breaking of lines (against `outgen.c:7`).
  `pipe-full.hcl:263` is rejected by it.  `pipe-std.hcl:222` compares `E_dstE`
  with a forwarded source that may be `RNONE` for an absolute address, which the
  programs of the run leave out.

## 4. Proofs

`SbufProofs`, for any finite, disjoint sets of producers and consumers, any
N >= 1 and any bound on insertions (the assumptions `NAssumption`,
`MaxInsertsAssumption`, `ThreadsAssumption`, `ItemsAssumption` of `Sbuf`):

* `TypeCorrect`: `Spec => []TypeOK`.
* `SbufInvariant`: `Spec => []SbufInv`, where `SbufInv` is `TypeOK`, `MutexHeld`,
  `MutualExclusion`, `SlotsAccounted` and `ItemsAccounted`.  Exclusion alone is
  not inductive: that the mutex is free says nothing of who is in the critical
  region, which is what `MutexHeld` adds.  The two accounts are equations between a
  semaphore, the counters and the number of threads at some labels; a step moves
  one thread from one label to another, and `CountMove` says by how much that
  changes such a number.
* `MutexIsExclusive`, `SlotsAndItemsAccounted`: parts of the invariant.
* `NoOverrun`: `0 <= rear - front <= N`, from the two accounts, in which every
  other term is a natural number.

* `BufferIsFifo`: `Spec => RefinesFifo`, the refinement of `BoundedFifo`.  The
  queue is what the ring holds between the numbers of items fetched and stored,
  which differ from `front` and `rear` while a thread is between an increment and
  its access.  A store puts its item at the end, a fetch takes the oldest, every
  other step stutters; slots of counters less than N apart differ, and the
  accounts of `SbufInvariant` keep the counters that close.

`ProxyCacheProofs`, for any finite set of threads and whatever the threads do to
the lists (assumption `ThreadsFinite`):

* `LockInvariant`: `Spec => []LockInv`: `readers_count` is the number of threads
  between the counting steps, a free semaphore has no holder, readers take turns
  and writers are alone.  The first and the last reader are the hard steps: between
  counting and taking (or releasing) `writers_lock` the count and the lock do
  not agree, and only the hold on `readers_lock` keeps other readers away.
* `AddIsExclusive` (`WritersAreAlone`), `TouchIsExclusive` (`ReadersTakeTurns`).

* `ListsStayLinked`: the pointers of both lists agree two by two and lead to
  nodes that are allocated, and every lookup stands on such a node.  That each
  node's neighbours point back to it is preserved step by step and, with
  `LockInv`, excludes what `NoLookupOnFreedNode` (`NoUseAfterFree`) is about.

The same module, for any finite sets of threads and nodes and any keys and
sizes (assumptions `NodesFinite`, `NoneAssumption`, `MaxRequestsAssumption`,
`SizesAssumption`, `NullAssumption`):

* `ListsAlwaysAgree` (`ListsAgree`).  Its invariant `OrderInv` says that the
  pointers of each list are those of a sequence without repetition (`Chain`)
  whose members are the allocated nodes, or, for the LRU list, those and not the
  one a reader is moving.  An operation of the lists takes a node out of such a
  sequence or puts one at an end of it, so that what each action does is one of
  three things: a use, an eviction, an addition (`Uses`, `Evicts`, `Inserts`).
  `SizeInv` adds that the sizes of the entries sum up to `total_size`.
* `OlderDuplicateLeaves` (`OlderDuplicateGoesFirst`).  A lookup goes through the
  item list from its head, so that it has passed every newer entry
  (`ScanInv`): what it matches is the newest entry for its key.  Hence the newest
  one is always the one used last (`DuplicateInv`).
* `CacheIsLru` (`RefinesLruCache`): every step is one of `LruCache` or a stutter.
  A hit takes effect when its node leaves the LRU list, a miss at the end of the
  item list; `LruCache` knows entries only, and an entry stands for its node
  because no two are equal: each bears the number of the request that fetched it
  (`StampInv`).

`ProxyProofs`, for any number of connections, threads and servers, any requests,
files and limits, and any number of faults (assumptions `LimitAssumption`,
`BatchesAssumption`, `RequestsAssumption`, `ServersAssumption` of `Proxy`,
`FilesAssumption` of `Tiny`; the fourth is that no server has an empty name):

* `PipelineInvariant`: where a thread is says what there is of its connection to
  the server: none yet, queued, served, or closed.  A server's queue and the one
  it serves are connections to its address (`AtHome`).  While the response comes, what
  is copied, what is on the way and what the server has yet to write are, one
  after the other, the response to the request.  That is stated block by block,
  with one offset for each part: a statement about the concatenation would need
  an induction.
* `OnlyWholeResponses` (`WholeResponsesCached`): an end of file means that nothing
  is left to write, and everything else that ends the loop makes the copy
  uncacheable or the process end.
* `NothingIsLeaked` (`NothingLeaks`): the headers are freed and the connection to the
  server is closed on every path; the copy made on a hit stays, and there is one
  only where no connection to a server was opened.
* `EveryoneGetsOneAnswer` (`OneAnswer`): what the client has been sent is one more
  part of the same response, in front of what is copied, so that a response that
  is complete is the response.  What is in the cache is the response of a
  server to a query under the key of both.  The key tells the query,
  and what host and port read put together: `KeyTellsQuery`.  It joins host, port
  and query without a mark between them, so that hosts and ports can be confused,
  but the query begins at the first slash of the key.  Hence the exception in
  `OneAnswer`, and no more than it.  `RequestsAssumption` is that a URI is a sequence
  of characters, and an array of headers one of sets of names.
* `HeadersArrive` (`HeadersForwarded`), for any requests.  What is in a concatenation
  is what is in its parts (`ConcatsElements`), so every line but the last three comes
  from a header that was passed on; and of the headers that name a host there is a
  first, or the first of the last three names it.  The property speaks of places in
  the sequence of lines, not of a selection from it: `SelectSeq` has no definition
  that the provers can expand.

`RioProofs`, for any set of streams, any size of the buffer and of a call, and any
number of interrupts (assumptions `SizeAssumption`, `StreamsAssumption`, the latter
only that a stream is a sequence):

* `RioInvariant`: what the calls have delivered, what the call in progress has
  moved, the buffer of the package and what is still to come are, one after the
  other, the stream, as long as no call has failed (`Whole`).  To be inductive that
  needs to know which buffers are empty when (`BufferUsed`: an unbuffered read
  leaves nothing behind) and that a call in progress is not finished
  (`Unfinished`): its line has not ended and it has room.  A step either moves the
  beginning of one part to the end of the one before (`MoveKeeps`), or returns
  what the call has (`ReturnKeeps`).
* `StreamIsWhole` (`NothingLostOrRepeated`).

`TshProofs`, for any size of the job table, any number of processes and any
commands and keys:

* `ShellInvariant`: at each statement of main the invariant says which slot may
  be in state FG, that no two entries have one process ID (so that `waitfg`
  finds the foreground job), and that the ID of a new process is not yet in the
  list.  A handler may run between any two of these statements: `Interruption` is
  what all of them, and the processes, can do to the list, and
  `InterruptionKeeps` shows that none of it disturbs what main knows.
* `OneForeground` (`AtMostOneForeground`), `PromptMeansNoForeground`
  (`PromptWithoutForeground`).
* `TransitionsFollowTable` (`StatesFollowTable`): a listed job changes its state
  only along the arrows of the table at `tsh.c:23`.
* `ListInvariant`: which process each frame of a handler and each statement of
  main is about.  The list is that of the children but for one that `eval` has
  forked and not yet added, while SIGCHLD is held off, and one that `waitpid` has
  reaped and the handler is about to delete.  That the handler is not
  interrupted by itself leaves one frame of it on the stack.
* `ListMatchesWhileRoom` (`JobListMatchesChildren`): as long as there is a free slot
  whenever a job is added (`RoomForJob`, as `addjob` demands without telling
  its caller); `ListMatchesFewProcesses`: without that premise when there are no
  more processes than slots, a slot being free for each that is not listed.

`MmProofs`, for any heap, any chunk by which it grows, any number of blocks and
any requests (assumptions `WordAssumption`, `ChunkAssumption`, `HeapAssumption`,
`SizesAssumption`, `IdsAssumption`, `NoneAssumption` of `Mm`) that, doubled and with
a header, are not negative as an `int` (`ModestSizes`, the premise of every theorem
here and in `MdriverProofs`: `mm_malloc` keeps its size in an `int`, and `mm_realloc` asks for twice what
it was asked; beyond that the one turns negative and the other wraps round):

* `HeapStaysSound`: the heap is sound (`Sound`), that is, there are addresses T which
  cut it into blocks, and among them U, the blocks in use, such that each header
  and each footer of a free block tells the truth about T and U, of two neighbours
  one is in U, and the free list runs through the others, each once, forwards and
  backwards.  T and U are nowhere in the program: the proof of a function names
  the new ones, and that every block of U but its own is kept (`KeptAll`).  Tiling by
  itself, what `mm_check_heap` walks along, is not inductive: where a walk leads
  after a tag is rewritten takes knowing that all the other tags were right.
  `coalesce` is entered with a heap that is not sound, a free block being in no list
  and next to other free ones (`Loose`), and its four cases are one: what is between
  the last used block before and the first one after is merged (`Run`).
* `HeapIsConsistent` (`HeapConsistent`) and `HeldIsInUse` (`HeldExactly`): the walks of
  `Tiling` and `FreeList` visit T and the list, so that every check of a debug build
  succeeds, and the blocks in use are the program's.
* `AllocatorImplemented` (`RefinesAllocator`): a block lies in the heap and apart from
  the others because T does not let them overlap; its contents are kept because
  the words any function writes are tags and links, which are not in the payload
  of a used block; `mm_realloc` copies before it frees.

`MdriverProofs`, on top of them:

* `DriverIsRight` (`VerdictsAreRight`), of any number of traces: the driver reports
  nothing of `mm.c` but a heap that is too small, and no pass after the first one
  is refused a request (`app_error`, `mdriver.c:721`, `743`, `804`, `813`).
* `DriverHeapIsRight` (`HeapConsistent`, `HeldExactly`): the heap is sound in every
  pass, although `mem_reset_brk` leaves in memory what an earlier pass wrote.
* `DriverScoresRight` (`BestIsScored`): what `fcyc` decides by are the best of all
  samples, each of them the cycles that went by less the estimate for every tick
  that was counted, wherever the two halves of the counter wrap; the time of a trace
  is the least of its samples; no trace uses more space than the heap has; there is
  no index after an error, and one is made of valid traces only; it is a number of
  points out of 100 if no time is negative.  How near the estimate is to what a tick
  takes is not claimed: nothing in the code bounds it.  The further premise
  `ModestCycles`: a pass takes fewer than `HALF` * `HALF` cycles, that is, the counter
  does not go all the way round in one pass (for the 64 bits of `clock.c`, 2^64
  cycles).

For the first pass the invariant adds to the sound heap that the range list holds
the extent of each block once (`Exact`) and that every block but the one that
`memset` is about to fill holds its index (`Marked`): since blocks of a sound heap
are disjoint, `add_range` never sees an overlap, and since the other blocks are kept,
`mm_realloc` is never found to have lost data.  The later passes need an argument of
another kind.  That what was granted once is granted again is a fact about two
runs, on memories that differ.  Two heaps are alike (`Alike`) if they have the same
blocks and agree in the words the allocator reads: all headers, and the two links
of each free block (`Core`).  Of two alike heaps `mm_malloc`, `mm_realloc` and `mm_free`
give the same block and leave alike heaps, and `mm_init` makes alike heaps of any
two memories.  So the invariant remembers a history of the first pass (`Story`: a
state before each request, each got from the one before by a request that was
granted) and says that the state of the pass under way is alike the one the first
pass had at this request (`Retold`).

The score rests on three more invariants.  Of the counter: the difference of two
readings, taken half by half with a borrow, is the number of cycles between them
(`CounterIsRight`).  Of the K best: `Best` says that there is an injection from the
values to the samples and that what is left out is not better; it becomes
inductive together with the order of the values and, as long as there are at most K
samples, none being left out (`Chosen`, `Sampled`), and `SampledMore` shows that
`add_sample` keeps it, by naming the injection after the insertion.  Of the space:
`total_size` is the number of bytes in the payloads of the blocks held (`Taken`), which
are disjoint and in the heap, so that the most there was fits a heap that does not
shrink during the pass (`RoomSound`).  The index is made of sums over the table, folds
whose bounds are got, as below, from any function that satisfies the fold's equation
(`SumBounds`).

`Y86PipeProofs`, for words, memories and limits of any size:

* `NeverConflicting` (`NoConflictingControl`), for every program: no pipeline register
  is told to stall and to be emptied in one cycle.  The invariant is that no
  register has the status of a conflict.
* `NeverIdleForLong`, for every program: from the first instruction in write-back on,
  at most three cycles in a row bring none there.  Its invariant `Steady` says which
  registers may be empty together, and after how many idle cycles (`Bubbles`,
  `Retiring`).
* `PipelineIsRight` (`PipelineMatchesIsa`) and `SequentialIsRight`
  (`SequentialMatchesIsa`): both processors do what `isa.c` does.  The premise is that
  the reference machine starts in a set of states with `RunsIn`: it does not leave
  the set before it stops, and at each of them the instruction at the program
  counter lies in memory as a whole, not within `FetchProbe` of its end, ends before
  `CodeEnd` and names the registers it works with.  Each part is needed: `isa.c` reports
  an instruction that is cut off by the end of memory where `psim.c:1405` probes
  another byte; the pipeline forwards to register 15 (`pipe-std.hcl:222`) what
  `isa.c` takes for zero, so an absolute address is outside; and an instruction that
  a store has changed after it was fetched is executed as it was (`selfmod`).  The
  premise does not limit what a program computes, where it jumps or what it stores,
  nor faults: it may end in a bad address, an invalid instruction or the limit.
  Of the 4096 programs of the run `y86` it is true of 4056; `ProgramsRun` has TLC
  find one for each statement of the catalogue.

The invariant `IInv` of the pipeline says, while no fault has been seen and no store
has changed the code, that the instructions in write-back, memory, execute and
decode and the one fetched next are the next ones of the reference machine, in
order (`InOrder`): S1 is its state after the first, S2 after the second, and so on.
Each register holds what the stages so far compute of its instruction at its state
(`InStep`).  That the pipeline and `isa.c` agree after each instruction is not
inductive, since most of what an instruction will do is decided while
older ones are in flight.  The steps: the values that are forwarded are those the
registers will have at the instruction's state; condition codes set in execute are
those of the state after; a return, a misprediction and a load/use hazard leave a
register empty, and only as long as they are in flight (`Bubbles`), so that what
is fetched behind a wrong prediction never gets further than decode; an instruction
that faults keeps those behind it from writing.

A recursive definition (`Walk` along a list, `SizeOf` of a sequence) is got by the
provers from any function that satisfies its equation, and two such functions
agree because there is no least number at which they differ: the library's
theorem that the naturals are well founded has that without an operator as a
parameter (`LeastExists`).

Only model-checked: liveness under fairness and everything with ENABLED (out of
the prover's reach); the allocator with requests outside `ModestSizes`; programs of
the Y86 machines for which the premise of `PipelineIsRight` is false; and the
comparisons of a finite table of algorithms with what they should compute (`TraceCounts`,
`SubmissionScores`, `PuzzlesCorrect`, `CheckSucceeds`, `AssemblerRoundTrip`,
`CompiledAsWritten`): puzzles, transposes and expressions are given one by one, and
what the assembler, the compiler and the simulators' runs do is defined by folds
over sequences, about which a proof needs induction over data.

## 5. Not modelled

* Generated code: `hcl.tab.c`, `lex.yy.c`, `yas-grammar.c`.  Its grammar actions
  are in `Hcl`, its tokens are what `Y86Asm` begins with.
* The graphical halves of `psim.c` and `ssim.c` (Tcl/Tk), the displays, listings
  and statistics of all simulators; the Verilog and UCLID back ends of the HCL
  compiler, which are not built.
* The wrappers of `csapp.c` that call one function of the system and print its
  error; `ishow.c`, `fshow.c`; usage texts; scripts.
* The test programs of shlab: to the shell they are processes that end or stop.
* bomblab and attacklab: binaries and write-ups; `csim-ref`, `test-csim`: binaries.

Within what is modelled:

* `front` and `rear` of the buffer are C ints that only grow; past 2^31 - 1
  connections they overflow.  The models assume fewer.
* `Sem_wait` and `Sem_post` never fail, `malloc` never fails in `cache.c`, and the
  copy of a key that an eviction does not free (`cache.c:45`) is outside the model.
* A response that may be cached always fits an empty cache, as in `cache.h`.
* The proxy: a request line with fewer than three fields, one that ends the stream
  before any byte of it, or one longer than the buffer leaves variables of `proxy`
  unset or cuts the line (`proxy.c:143`, `152`); ports that are no numbers; clients that
  connect and send nothing.  How much memory the copies left behind by cache hits
  take is not counted, only that they are left.
* An overload of lookups that starves an addition (`cache.c:92`) needs an endless
  stream of requests, and the runs have a bounded one.
* `tsh`: no signals from other programs, no `setpgid` by jobs, the text of
  messages and of `jobs` is left out.
* `mm`: sizes that are negative as an `int` (`mm.c:115`) are defined (`Int32`,
  `SizeT`) but the run has none: the driver never asks for one.  `mm_init` is
  called before the first `mm_malloc`; the heap starts aligned to eight bytes.
* csim: addresses have the width of an `int`; a trace line that `sscanf` cannot
  read leaves its variables as they were.
* test-trans: a `.csim_results` file left by an earlier run; btest: an option given
  twice, and an alarm that goes off after the last comparison.
* The probe of psim that looks for an instruction's last bytes (`psim.c:1405`) is
  modelled for programs that end where memory does, not for longer registers.
* yas: the arrays of tokens have fixed sizes that no line of the run reaches.

## 6. Plan

Done, in this order: `Sbuf`, `ProxyCache`, `JobList`, `Tsh`, `Mm` with their
abstract specifications; proofs for the buffer and the cache's locks; `Proxy` with
`Tiny` and `Rio`; `Csim` and the transposes; the Y86 machines, assembler and
compiler; the puzzles with their harness; the malloc driver; proofs for the
cache's lists, the shell and its job list, the request pipeline, the Rio package,
the allocator, its driver's verdicts and score, both Y86 processors, and the
refinements of `BoundedFifo`, of `LruCache` and of `Allocator`.

Next:

* `TraceCounts` of the cache simulator against its definition by last uses.
