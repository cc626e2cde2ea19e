# Verification of eoc

TLA+ models of the runtime library of `eoc` (its collector, its concurrent parts,
its containers and its readers) and of its compiler, with the runs of TLC that
check them on small instances and the theorems that TLAPS proves of them for
every instance. Paths below are relative to the repository; the C
sources are under `packages/runtime.c/src`, the compiler under
`packages/compiler.x/src`.

## The system

`eoc` follows the book *Essentials of Compilation*. It has two packages.

**`packages/runtime.c`** is the runtime library of compiled programs and a set
of data structures and concurrency helpers.

| component | state | operations | interacts with | what is hard |
|---|---|---|---|---|
| gc (`gc/gc.c`), tuple (`gc/tuple.c`) | two spaces, `free_pointer`, `scan_pointer`, root stack; in each tuple a header with size, pointer mask and forward bit | `gc_allocate_tuple`, `gc_copy`, `gc_grow`, roots, tuple accessors | the compiled program, which keeps tuples alive only through the root stack; `memory` for `realloc` | moving a graph with sharing while it is rewritten, stale words in the to-space, growth in two halves |
| queue (`helpers/queue`) | buffer, two atomic cursors, a cached copy of each | push, pop, length, is_empty, is_full, get, purge | one producer thread and one consumer thread, no lock | memory order, stale copies, wrap-around |
| allocator (`helpers/allocator`) | a shared stack and a mutex; a private stack per thread | allocate, maybe_allocate, free, recycle | `stack`, `lock`, threads | conservation, bounds, refusal with values in other caches |
| thread, thread_pool (`helpers/thread`) | array of threads, an id per thread | start, join, join_all | the threads it starts | ids set after the start, joined threads left in the array |
| stats_counter (`helpers/counter`) | one atomic word per thread | add1, sub1, total, total_is_zero | `thread->id` of a pool | relaxed loads over several words |
| lock (`helpers/lock`) | a pthread mutex, a spinlock, an inline spinlock | lock, try_lock, unlock | allocator, deque | test before exchange |
| deque (`helpers/deque`) | a list and a spinlock | push and pop at both ends, get, length | list, lock, threads | mutual exclusion |
| list (`helpers/list`) | nodes linked both ways, two ends, a length, a cursor | push, unshift, pop, shift, remove, find, copy, purge, first, next, prev, last, get | deque, hash, stack, lexer | five functions that each relink by hand; one cursor for all loops |
| hash, set (`helpers/hash`, `set`) | chains, a count of used chains, a cursor, owned keys | set, put, get, delete, purge, first, next; rehash when overloaded | the program that owns keys and values | rehash and deletion under the cursor, who destroys a key |
| array, stack (`helpers/array`, `stack`) | a block of words, a size, a cursor | push, pop, get, set, pick, pop_front, resize, purge; tuck_n | allocator, thread_pool, gc roots, text, path | what a block uncovers after growth and pops |
| string (`helpers/string`) | - | integers out of strings; searches and wrappers of the C library | lexer | ends of the range, signs and prefixes |
| lexer, code (`helpers/lexer`, `code`) | cursor, line and column, token list | one consumer after the other over a string | string, list; sexp | positions across strings, escapes and comments |
| sexp (`helpers/sexp`) | a tree | parse, print | lexer | what is printed is read again |
| path (`helpers/path`) | segments and the string written from them | make, copy, join, resolve, relative | stack, string | "..", empty segments, slashes at the ends |
| text, utf8 (`helpers/text`, `utf8`) | code points | read, append, slice, write | array, string | boundaries between the lengths of characters |
| char, int, file, blob, commander, time, vec, test, and the entry points of a compiled program | - | wrappers, bits of a number, output | the C library | - |

**`packages/compiler.x`** is the compiler, in x-lisp: a source language of
integers, booleans, `let`, `if` and primitives; passes `shrink`, `uniquify`,
`check-type`, `remove-complex-operands`, `explicate-control`,
`uncover-locals`, `select-instructions`, `uncover-live`, `build-interference`,
`allocate-registers`, `assign-homes`, `patch-instructions` and
`prolog-and-epilog`; and x86-64 output. Each pass is a function from programs to
programs, so its correctness is agreement with an interpreter; what is hard is
what one pass silently relies on another to have done (unique names, atomic
operands, live sets that miss no access).

What makes each component correct:

- queue: it behaves as a bounded FIFO with atomic operations, without a data
  race on a slot; the loops around it do not spin for ever;
- gc: to the program no tuple moves, no tuple in reach of a root is lost, no two
  become one or one two; assertions do not fail; a call returns;
- allocator: a value is in exactly one place; caches are bounded; no thread owns
  much more than it uses, so that with enough values none is refused; the mutex
  is given back;
- thread pool: every thread is in reach of a join by its id; `join_all` leaves
  none running;
- stats counter: a total is never ahead of the counts, never goes back, and is
  exact after a join;
- deque: to its threads every call happens at one moment;
- list, hash, array, stack: they are a sequence with a cursor, a map and a
  growable array after any calls; a loop over them misses nothing and, where
  that can be had, repeats nothing, although its body changes them;
- lexer, sexp, string: tokens cover the source in order, each at its place; what
  is printed is read again as the same; integers have their value;
- path: a relative path leads where it should;
- text: what is read and written again stays what it was;
- compiler: what it makes prints and returns what the program does, keeps to the
  calling convention, and consists of instructions that exist; every well-typed
  program of the supported forms is compiled.

## Modules

| module | models |
|---|---|
| `BoundedFifo` | what the two threads may rely on: a queue with atomic operations whose status answers are out of date only on the safe side |
| `Queue` | `queue.c`, one step per shared access |
| `QueueLoops` | the two loops of `test_queue_multi_thread.c` over `Queue` |
| `QueueProofs` | the inductive invariant of `Queue`, and the refinement of `BoundedFifo` |
| `TupleHeap` | what a program may rely on: tuples with names that never move |
| `Gc` | `gc.c` and `tuple.c` |
| `GcProofs` | the inductive invariant of `Gc`, in the middle of a collection too, and the refinement of `TupleHeap` |
| `Allocator`, `MCAllocator` | `allocator.c`, with `mutex.c` and the two halves of `stack_push`/`stack_pop` |
| `AllocatorProofs` | the inductive invariant of `Allocator` |
| `ThreadPool` | `thread_pool.c` and `thread.c` |
| `StatsCounter` | `stats_counter.c`, over `ThreadPool` |
| `CounterProofs` | the invariant of the pool, that the counter uses the pool in no other way, and the inductive invariants of the words and of the totals of `StatsCounter` |
| `Induction` | induction over numbers and over recursive functions, for the proof modules |
| `Containers` | what containers hold: values and NULL |
| `CursorList`, `List` | a sequence with a position in it; `list.c`, nodes and links |
| `Dictionary`, `Hash` | a map whose entries can be iterated; `hash.c` and `set.c` |
| `HashProofs` | the invariant of `Hash`, its loops and owners, and the refinement |
| `AtomicDeque`, `Deque` | a deque whose calls happen at one moment; `deque.c` with `fast_spinlock.h` |
| `GrowableArray`, `Stack` | a sequence that can be set beyond its end; `array.h`, `array.c` and `stack.h` |
| `ContainerProofs` | the invariants of `List`, `Deque` and `Stack`, and their refinements |
| `Xint`, `Lexer`, `Sexp` | the integers of `string.c`; `lexer.c` and `code.c`; `sexp.c`, each over the one before |
| `Path` | `path.c` |
| `Text` | `text.c`, `utf8.c` and `utf8_iter.c` |
| `StringProofs` | the invariants of `Path`, `Text` and `Lexer`, for strings of every length |
| `MCHelpers` | the helpers from `List` to `Text` side by side, for TLC |
| `LangS` | the source language: expressions, type checker, interpreter (`langs/s`, `builtin`) |
| `FrontPasses` | passes 005 to 020, from the source language to itself |
| `LangC`, `ControlPasses` | the language of labelled sequences (`langs/c`); passes 030 and 031 |
| `LangX86`, `RegisterPasses` | instructions and registers (`langs/x86`) with a machine that runs them; passes 040 to 080 |
| `Compiler`, `MCCompiler` | `compile-mod`: the passes in order, and small programs for it |

Operators that begin with "A slip" in their comment are not part of a
specification. They are faulty variants of the definition they precede, and each
shows that some property would notice that fault.

### Queue

The state is `queue_t`: `values`, `front_cursor`, `back_cursor`, and the two
cached copies. `PushBegin`, `PushReload`, `PushWrite`, `PushPublish` are
`queue_push_back` cut at its accesses to shared memory, and the `Pop...` actions
are `queue_pop_front`. Cursors are size_t and live in `0 .. CursorMod - 1`.

The memory model is what C11 promises and the code uses. A load of the other
thread's cursor may return any value from the one last seen by this thread up to
the newest (`Visible`). An acquire load of a release store also synchronises:
`hb_front` is how far the consumer's reads are known to happen before the
producer's next step, `hb_back` how far the producer's writes are known to
happen before the consumer's. A slot may be written only if the read of its
previous value happens before (`NoDataRace`). The relaxed loads of
`queue_is_full`, `queue_is_empty` and `queue_length` move `seen_...` but not
`hb_...`. `Rejoin`, `queue_get` and `queue_purge` are what one thread does when it
owns both ends; joining the others makes everything visible.

- `QueueRelaxed`: every interleaving with `Size = 2`, the smallest queue, and
  cursors modulo 6, so that they wrap and full and empty occur at every offset.
  Checked: `CursorOrder`, `NoDataRace`, `RoomToPush`, `ValueToPop`, and that
  `Queue` implements `BoundedFifo`, with the values between the cursors as the
  abstract queue. One of the two values is NULL: NULL may be pushed, and a pop
  of it looks like a pop that found nothing. At any moment at which the threads
  are between two calls, the loops of `test_queue_multi_thread.c` may take over
  (`looping`, of `QueueLoops`), and then the threads call only what these call.
  Fairness, of the loops alone: each thread
  keeps running (weak fairness of its steps), and a store becomes visible to a
  thread that keeps loading (strong fairness of the load that returns the newest
  cursor), which C11 asks of implementations. `KeepsMoving`: once the loops run,
  both threads publish infinitely often.

### Gc

The two spaces are functions from offsets to words; a word is a header (size,
mask, forward), the address of a tuple or an atom. Nothing clears a space, so
old words stay, and what the code makes of an old word that it takes for a
header (`AsHeader`) is explicit: of an atom its bits, of an address any bits but the
last three. `with_bit` and `without_bit` are the shift of `tuple.c:51` and `:59`, that
of an int: at index 24 it sets the bits of all fields from there on, and beyond it comes round to
the forward bit, the size and the first fields. `tuple_init` takes up to 50
fields; `SizesAssumption` allows programs the 24 for which the bit is the right one.
`MaxHeader` is the greatest size that six bits can tell, 63, and less in a run, where
it bounds what an address is taken for. The mutator works on what the root stack
reaches: it makes tuples, sets fields, reads a tuple out of a field, pops, and
calls `gc_grow`. The collector is `gc_copy` with one step per root and per field.
`realloc` may move a block, after which old addresses lead nowhere, or fail
beyond `MaxHeap` (the program stops). An access outside a space ends in `wild`.

`TupleHeap` is the abstract heap; the refinement mapping follows forwards, so
that it also holds in the middle of a collection.

- `GcSharing`: one field per tuple, two names, two roots, spaces of 3 that grow
  to 6 words: every graph of two tuples, with sharing, self loops and cycles.
  `SharingKept`, `TuplesWhole` and the refinement are checked here. `MaxHeader` is 4.
- `GcMixed`: tuples of one and two fields, and an atom with the bits of a header,
  so that old words are read as headers of any kind, for `CollectionEnds`, and an
  address as one of 0, 4 or 8 fields (`MaxHeader` is 8), more than any space has left. It
  assumes only that the collector, once called, keeps running.
- `GcScan` finds `assert(in_from_space(self, tuple))` violated (see Findings).
  The other runs go on where the assertion stops the program, and so say what
  holds up to that point.

### Allocator

One action per piece of code that touches the shared stack once. `stack_pop` and
`stack_push` on it are two steps, the read of the length and the update, so
that only the mutex protects them. `Hold` is how many values the program's
threads use at a time.

- `Allocator`: two threads that hold up to three of five values each, one value
  less than is enough for both, and `CacheSize = 1`: refills, flushes and refusals
  all happen. `OneOrder` pushes the values in one order (any
  other is that order with the values renamed), and asks for weak fairness of each thread
  inside an operation, which `MutexReleased` needs: an operation has no loop
  without end, and the scheduler runs every thread.
- `OwnsLittle` is why `test_allocator_thread_safe.c:44` asserts that no allocation
  fails: a thread that owns at most `Hold + CacheSize - 1` values leaves, when
  there are enough of them, one in the shared stack or in its own cache for
  each that still asks.

### ThreadPool and StatsCounter

`ThreadPool` has the owner's calls and the threads' returns. `StatsCounter`
adds the words. `history[j]` are the values word `j` has had; `seen` is the newest a
thread knows; a relaxed load returns any from there on. Joining a thread merges
what it has seen into what the owner has seen. `thread->id` may still be the 0 of
the cleared struct when the thread reads it, and `misread` records that it was.

- `StatsCounter`: two threads that add or subtract twice, an owner that starts,
  joins, joins all and asks for totals in any order. Fairness: threads, and the
  owner inside an operation, keep running.
- `StatsFinal`: see Findings.

### Helpers

Each helper is a module with its own state and actions, one action per call.
`MCHelpers` starts one behaviour per helper: `subject` says which of them moves, so
that the run `Helpers` is the sum of their state spaces and not the product. All
of them are sequential but `Deque`. No fairness is assumed: nothing here is about
what must happen. `CHECK_DEADLOCK FALSE` since the lexer stops, at the end of its
source or at a failed assertion.

- `List`: nodes are a function from addresses, which `malloc` gives out again.
  `walk` and `due` follow a loop of `list_first` and `list_next` whose body may change
  the list. With three addresses and two equal values, all removals at the
  ends, in the middle and under the cursor occur. `ListIsSequence` is the refinement
  of `CursorList`, `NoneMissed` is about the loop.
- `Hash`: keys have a content and a copy; two of the four keys are equal but not
  the same object, a third shares their chain in the first table and not in the
  second, and the fourth comes to share a chain after the rehash. The table
  grows once (primes 3 and 5 for `hash_primes`), entries have three addresses
  which are used again, and a `size_t` wraps at 16, so that the count of used
  chains passes zero as in the code. `is_set` makes the values the keys. `freed` are the
  destroyed keys: an entry never has one as its key (`KeysLive`). `loop`
  follows a loop over the entries, and says until when it is well defined: until
  a rehash, or the deletion of the entry that comes next. `HashIsMap` is the
  refinement of `Dictionary`.
- `Deque`: what a function of `list.c` reads and what it writes are two steps, so
  that only the lock makes them one; the lock is a relaxed load, which may be
  old, and an exchange. Two threads make any of the calls, up to a length of 2.
- `Stack`: arrays made with sizes 1 and 2, up to 4 values, so that each size grows
  more than once and `array_set` goes beyond the end; `stack_tuck_n` pops and pushes one
  value per step. `ArrayIsGrowable` is the refinement of `GrowableArray`.
- `Lexer` and `Sexp`: the lexer takes a step per token or blank, and the parser
  and printer are operators on what it leaves. The sources are all strings of up
  to four characters over `n 0 blank newline ( ) ; " \` and over `t b f r " \`, so that
  every escape, an unclosed string or list, and a comment to the end of the file occur,
  all of up to three with the other blanks of `isspace`, and all of
  up to four or five characters from which numbers with signs and prefixes (`0x`, `0o`,
  `0b`, and the `0X` that `strtol` takes behind `0x`) are made. `IntMax` is 127 for the largest int64_t, so that three digits pass it on both
  sides.
- `Path`: strings of up to three pieces out of "", ".", "..", a and b, which also
  gives slashes at either end and in a row; paths of up to 4 segments.
- `Text`: the code points on both sides of each boundary between lengths, and the
  greatest; up to two of them in a text.
- `SetPut`, of a set alone, and `Utf8`, of a text alone: see Findings.

### Compiler

`Compiler` is `compile-mod` as a state machine: `source` is the program, `pass` the
last pass that has returned, `code` what it has returned, `info` the record that
the x86 passes hand on. Each action applies the operator that models the pass. A
pass that calls `exit`, or that finds no case in a `match`, ends in `pass = "stopped"`.

Two variables are only looked at. `meaning` holds, for each sequence of dice in
`Dice`, what `code` prints and returns: by `eval_mod` for the source language, by
`run_c_mod` for sequences, and by the machine of `LangX86` for x86. `machine` holds
the final states of that machine. The repository has an interpreter only for
the source language; the other two are specifications of the target, and in
`map` they are external. The machine is hostile where the
convention allows it: a call fills every caller-saved register and all memory
below the stack pointer with junk, and the caller of the compiled function has
values of its own in the callee-saved registers. Before there is a prolog, the
same machine runs code whose operands are variables or slots of a frame.

Names are sequences (`<<"x", 1>>` is `x₁`), so that made names can collide with
each other as in the code but no text is put together. `graph-coloring!` belongs to
the library of the language and is not in the repository: `ColorVertex` takes the
variables in any order and gives each the least free color, which is all that
the passes may rely on. Registers that are not precolored are colored in one
step: they do not interfere with each other.

- `Compiler`, over the 231 programs of `MCCompiler`: all ways to fill the holes of
  a few shapes. `Nested` has two operands of nine kinds each (lets, ifs, begins,
  dice and prints among them), `Branching` a condition of seven kinds in five
  positions, `Chains` and `Comparisons` up to four variables live at once, and `Odd`
  the forms that stop the compiler, in each pass that can stop. The code's own
  "testing with limited registers" table (`052:19`) leaves `rcx` and `rbx`, so that both kinds
  of saved registers, and up to three slots, are in use. Two sequences of dice
  take both ways through every condition. The model is finite and stops, hence
  `CHECK_DEADLOCK FALSE`.
  - `MeaningKept`: every step of a pass that returns keeps `meaning`. `Provided`
    names the two things that a pass relies on and does not always get (findings
    4 and 6): different names for `remove-complex-operands` (223 of the 227 programs
    that get there), and a register for the result of a comparison for
    `patch-instructions`. The other programs are followed through the remaining
    passes, with the meaning that they then have.
  - `LiveEnough`: after `uncover-live` the code is run again, and after each
    instruction every variable and register outside the live-after set is
    forgotten. That the outcome stays says that the sets miss no access, on any
    path that a die can take.
  - `FrameKept`: the compiled function returns with its caller's stack and
    callee-saved registers, calls with the stack a multiple of 16, and never
    names a slot outside its frame.
  - `SupportedCompiles` says which programs are compiled at all: a grammar
    (`IsValue`, `IsCondition`) whose well-typed members are never stopped.
- `CompilerNames`: see Findings.

## Findings

1. `gc.c:152` scans while `scan_pointer <= free_pointer`, one word too far. The word
   at `free_pointer` is left from an earlier collection; if it is a header, its
   fields are copied as live, and if they point into the space that has become
   the to-space, the assertion of `gc.c:117` fails. Run `GcScan`. After `gc_grow`
   the same junk may instead fill the new space to its last word, so that `free_pointer`
   is behind the space and the assertion of `gc_print` (`gc.c:195`) fails. That takes
   more words than a run can search. With `gc_new(2, 13)`, and `r[i][k]` for field k of
   root i: new 7, pop, new 1, new 1, `r[1][0] = r[1]`, `r[0][0] = r[1]`, pop, new 7,
   `r[1][1] = 24`, `r[0][0] = 1670`, `r[1][0] = r[1]`, pop, new 1, pop, pop, new 9,
   `r[0][1] = 142`, `gc_grow` leaves `free_pointer` at word 26 of 26. `TuplesWhole` says
   what does hold.
2. `thread_pool_start` sets `thread->id` after the thread has been started
   (`thread_pool.c:31`); a thread may count in the word of thread 0, and the
   assertion of `test_stats_counter.c:34` fails. Run `StatsFinal`.
3. `utf8_encode_into` masks a continuation byte with `(uint8_t) code_point << 2 >> 2`
   (`utf8.c:99`), whose shifts are those of an int and cut off nothing: U+07FF is
   written DF FF. Reading it back masks the same bits, so the round trip of code
   points holds (`TextRoundTrip`) and that of strings does not. Run `Utf8`.
4. `uniquify` passes its counts of names down and not from one subexpression to the
   next (`010-uniquify.lisp:43`), so lets in two operands get one name, and
   `remove-complex-operands` moves both to one scope:
   `(iadd (let ((x 1)) x) (let ((x 2)) x))` compiles to 4. Run `CompilerNames`. In the
   same way a variable that the program calls `_` becomes `_₁`, a name that `freshen`
   makes too (`NoTemporary`).
5. `set_put` gives `hash_put` one pointer as key and as value, and the destroy function of
   a set is that of the keys (`set.c:33,69`). When the set has an equal element,
   `hash_put` destroys the key it was given and stores it as the value
   (`hash.c:301-307`): the new element is destroyed and the old one never, where `set.h:18`
   says "put auto destroy old value if there is destroy_fn". Run `SetPut`; the key of the entry
   stays the old element, which `KeysLive` says is still alive.

Met while modelling, and visible in the modules without a run of their own:

6. `patch-instr` (`070-patch-instructions.lisp:33`) turns `movzbq al, slot` into
   `movq slot, rax; movzbq al, rax`. The slot is never written, and the first
   instruction overwrites `al`. A comparison whose variable has no register gets a wrong
   value: this is the second case of `Provided`.
7. `compile-mod` is claimed to be `(-> mod? x86-mod?)` (`compile-mod.lisp:5`), but
   some pass has no case for: a condition that is a variable (`030:138` makes an
   expression without a type), and so also the negation of a comparison, whose
   operand has become a variable; a boolean or void constant, or a negation, as a
   value (`040:91`, and no `xorq` in `050:135`); `imul`; a type annotation in the source
   (`010:23`); anything but an atom or a primitive of atoms before the end of a
   `begin` (`030:171`). `SupportedCompiles` is about what remains.
8. `extend-byte-register` (`instr.lisp:62`) matches `(reg-rand 'al)` where the operand is
   `(byte-reg-rand 'al)`, so `al` counts as a location of its own that is live from the
   start; it costs a color and breaks nothing, since `rax` is never given out.
9. `thread_pool_join_all` (`thread_pool.c:48`) frees the threads and leaves them in the
   array; a second join of one of them uses a freed thread.
10. `hash_delete` counts a chain as unused when its head is deleted, whatever
    follows (`hash.c:260`); `used_indexes_size` can pass zero and wrap, and the
    table is then rehashed without need.
11. A loop over a hash whose body deletes the entry that comes next, or sets
    enough keys to rehash, reads a freed entry or repeats entries
    (`hash.c:266`); `EachOnce` is about the other loops. `list_copy` moves the cursor of the
    list it copies, and a `list_next` after the removal of the node of the cursor
    starts again from the front (`list.c:160`).
12. `sexp.c:66,80` takes a string that reads "(" or ")" for a bracket, and the printer writes
    quotes and backslashes as they are (`sexp.c:130`, where a TODO says so).
13. `path_relative` goes up once for a segment that is ".." (`path.c:204`); the result
    leads elsewhere when that is where the two paths part (`PartsBelowParent`).
14. The least int64_t is read as the next one, since the sign is put on after
    `strtol` (`string.c:264-269`), and `0x-1` and `0x0x1` are read as integers. `0b` is read as a
    prefix too, which `string.h:33` says it is not.

## Proofs

`QueueProofs` assumes `SizeAssumption`: the size is at least 2 and the range of the
cursors is a multiple of it, at least twice as large (`make_queue` asserts a power
of two, and the range is 2^64). The inductive invariant is `TypeOK`, `CursorOrder`,
`RoomToPush` and `ValueToPop`. `CursorOrder` alone is not inductive: a
`PushPublish` keeps the cursors at most `Size` apart only because the producer
has found room (`RoomToPush`), and its answer stays true only because every copy
it has of `front_cursor` is behind it (`CursorOrder`). All arithmetic on cursors
is in lemmas about `distance` and `slot`: remainders are unique, moving an end
changes the distance by one, fewer than `Size` cursors have different slots.
From the invariant follow `NoDataRace` and, with the values between the cursors
as a sequence, the refinement: a publication appends or removes one value, every
other step leaves the sequence alone.

`AllocatorProofs` assumes `AllocatorAssumption`: natural numbers, a finite set of
values, NULL apart. The inductive invariant is `TypeOK`, `MutexHeld`, `LoopsOK`,
`CacheBound` and `Conserved`. `LoopsOK` is the strengthening: it relates the loop
counters to the lengths of the caches, which is why a flush never pops from an
empty cache and a refill never overfills one. `Conserved` uses `MutexHeld`: a
length that was read is still the length when it is used. One lemma (`Moving`) says
when a step of one thread conserves the values, and each action is an instance.


`ThreadsOwnLittle` needs one part more, `Asking`: a thread refills only when it
holds less than `Hold` values. A refill starts with an empty cache and stops at a
batch, so what it owns is below `Hold + CacheSize`; every other step moves a value
between the places that `Owned` counts, or away.

`ContainerProofs` assumes, for the deque, `DequeAssumption` (what calls look like). The invariant is
`OneInside`, which the exchange alone keeps (the load before it decides nothing),
and `CallsOK`: what a thread has read is still the list when it writes. So the
write is the moment at which the call happens, and every other step is a stutter
of `AtomicDeque` or the start of a call.

For the stack it assumes `StackAssumption`: sizes are positive. The invariant says that
the block is NULL from the cursor on (`IsArray`), and what `stack_tuck_n` has still to
do (`TuckOK`). Only the first makes the refinement work: growth, a set beyond the
end and a push after pops must not uncover an old word. The sequence of
`GrowableArray` counts the values that `stack_tuck_n` has in its hands, so its pops
and pushes are stutters but for the one push of the new value.

For the list it assumes `ListAssumption`: addresses are natural numbers, and NULL is no
address and no value. `Links(self, s)` says that the struct and its nodes link the
sequence `s` of addresses in both directions, with its ends and its length.
For each function of `list.c` there is a lemma that it turns the links of `s` into the
links of the sequence that it should leave: `s` with one more at an end, or without one
place; `list_pop` and `list_shift`, which relink by hand, leave what `list_remove` of the end
node would. `chain`, the nodes that a loop comes to, is a recursive function along `next`;
that it is `s` is shown by induction (`ChainIs`). `NoneMissed` alone is not inductive: a
value that a loop has still to visit could be behind the cursor. `Ahead` says that what
is due is after it, and that the cursor is NULL only at the end. From the links
follows the refinement of `CursorList`, function by function, with the values
along the links as the sequence and the place of the cursor as the position.

The part of `CounterProofs` about the pool has no assumption but that the number of
threads is a natural number. The invariant is that the k-th thread has the k-th entry and the
id k - 1 (`Entries`), and what the owner is in the middle of (`Joining`). That the
counter's behaviours are behaviours of the pool (`CounterUsesPool`) carries the
theorems over to `StatsCounter`.

The part about the counter assumes `CounterAssumption`: each thread adds a natural
number of times, with add1 and sub1 only. `NoCountLost` says of every word what
`FinalTotalKnown` says of their sum. The invariant is that, as long as no thread has
read another thread's id, a thread has seen the newest value of its own word, and a
loaded count that is not stored yet is that value (`WordsOwned`): nobody else stores
to the word, so a relaxed load of it cannot be old. For the totals there is a second
invariant, `TotalInv`, which also holds when threads share a word. A word is at most
the number of its stores (`WordsBounded`), which grows by one per turn whatever it is that
a turn stores, and over all words there are as many stores as turns (`TurnsStored`):
hence a total cannot be ahead (`TotalsNotAhead`). What the owner has added so far is at
least what the same words had at its last total, since it has seen them
(`TotalsOK`, `Growing`), so that totals do not go back (`TotalsMonotone`). And a
thread that has been joined has been seen to the end (`JoinedSeen`), so that after
`thread_pool_join_all` the total is exact (`FinalTotalsKnown`). Sums over the threads are recursive
functions; what holds of them (equal terms, one term more, larger terms) is shown
with `Induction`.

`HashProofs` assumes `HashAssumption`: addresses are positive numbers, NULL is none, there
is a prime, all of them are positive (that they are primes does not matter), and a key is the
number that it hashes to and a copy. The invariant says of the table (`IsTable`) that each
entry is once in the chain of its index and in no other (`Chained`), that the index is the
remainder of its key, and that no two entries have equal keys; so that the first found in one
chain is the only one there is. For each function of `hash.c` there is a lemma that it makes
such a table of such a table. `hash_rehash` is the hard one: what a bucket gets is in the
opposite order of the loop over the old chains, which is a total order (`Before`), so that a
sequence in that order exists and has each entry once (`CanBeEnumerated`, `Stacked`). For the loops,
`LoopOK` says that what is due is ahead of the cursor, and that whatever else is ahead was
added after the loop began; it is kept by a push at the head of a chain and by every removal
but that of the next entry, and `EachOnce` alone is what is left of it when the loop ends. `Owns`
says that destroyed keys are in nothing but the values of a set. The refinement of `Dictionary`
follows from lemmas that say how the map of a set of entries changes (`AddedMap`,
`DeletedMap`, `SameMap`); a rehash changes indexes, which are not in the map.

`GcProofs` assumes `SizesAssumption` and `NamesAssumption`: natural numbers, tuples of up to 24 fields, memory for
the spaces that `gc_new` makes, and as many names as there can be tuples in a space.
What the roots reach is a recursive function, the closure of the roots under
fields; a set that contains the roots and with a tuple its fields contains it
(`ReachedIn`), so that two copies of a tuple would have to be in every such set. The
invariant gives one in which names are unique. While the collector is not at work
it is a set of tuples that are whole, do not overlap, point to each other only, and
lie below `free_pointer` (`Live`). During a collection there are three sets: the tuples
still to be copied, those that have become forwards, and the copies, which fill the
to-space without a gap; a field of a copy points to a copy if it is before the place that
is being scanned, and into the from-space if not (`Copying`). When the scan pointer reaches
`free_pointer` everything is copied and `Live` holds of the to-space, but the loop goes on
(finding 1), scans a word that is no live tuple and may copy what it takes for
its fields. `Copied` says that from then on all writes are behind the live tuples: the scan
pointer, `free_pointer` and the tuple being scanned only move up. Neither part alone
is inductive, and SharingKept is not either, since a stale word in reach could name
a tuple twice. A new tuple needs a name that no tuple in reach has; there
is one because tuples do not overlap (`LiveCount`). `TuplesWhole` is what `Live` says of the
tuples in reach when the program runs.

`CollectorIsInvisible` says that `Gc` implements `TupleHeap`. What the program sees
is read from the words of the heap by following forwards. `Heap!Reachable`, a recursion over
the fields of the abstract tuples, is first shown to be the closure of the roots
(`NamesWithinExist`), so that any set of addresses that has what the roots reach, each
under a name of its own (`Graph`), gives the same abstract heap (`GraphSeen`): a proof may choose
the set that the invariant names, although it holds dead tuples too. A step of
the collector carries such a set to one that looks the same (`Carries`, `Looks`): a
collection begins, a tuple moves and leaves a forward, a field of a copy is
redirected, junk is copied behind the live tuples, the spaces are exchanged, and
the spaces grow. Each is a stutter of `TupleHeap` (`Unseen`). A call of the program is
a step of it, which follows from how each call changes the fields of one tuple or
the root stack (`Pictures`). `gc_allocate_tuple` takes effect long after it was called,
past a collection and a growth; `Pushing` keeps what held at the call: the size is one
of `Sizes`, and there is still room on the root stack for the tuple.

`Induction` has no state: induction over the natural numbers as a statement about
sets, and that a function given by its value at 0 and a step exists and is unique. It
follows from the well-foundedness of < without a fact that takes an operator as a parameter.

`StringProofs` has three parts. Its subjects are sequences that a loop of the program goes
along, so each part has a recursive function that is the loop (one element, or one
turn, at a time) and shows by induction what the loop leaves.

For paths it assumes `PathAssumption`: a string is at least one piece, each of them
empty, ".", ".." or a name. The invariant is `PathIsNormal`: the segments are names
behind nothing but "..", none is empty or ".", and the string is the one that
`path_update_string` writes from them. Without it `RelativeLeadsThere` fails: a name before
a ".." is taken off when the path is resolved and counts when it is not. As many ".." as
`path_relative` writes take off the names behind where the two paths part, and none more
(`Climbs`); the names of the other are then appended (`Descends`). When a ".." is among what
is to be left, there are more segments than names, another ".." is appended and the result
has a length of its own (`Climbed` says which); this is the other direction, that the
exceptions of `RelativeLeadsThere` are all of them real.

For texts it assumes `TextAssumption`: code points are numbers from 1 to 1114111. Per
length of a character there is a lemma that `utf8_decode` gives back what was written,
whatever two bits stand above the six of each continuation byte, so that it holds of `utf8_encode`
(finding 3) and of UTF-8 alike (`CodePointIs`). That the iterator goes from character to
character is shown of any way to write code points that one turn reads (`ReadsBack`); there
are at most as many turns as bytes.

For the lexer it assumes `LexerAssumption`: a source is a sequence of characters, without NUL. The
invariant `TokensFit` has three parts. `LocatedAt`: line and column are those of the cursor,
counted from the start of the source; every consumer keeps this through `forward`, whatever it
passes over. `Tiled`: between the tokens, and from the last to the cursor, there
are only spaces and comments; the text of a token that is not a string is the
source between its ends. For strings it says what the code does, which takes the start
from the length of the buffer: with an escape in it the start is not that of the string.
`Judged`: no token is an integer before `postprocess_int`, and then those are that
`string_is_xint` takes. `TokensTile` is what the invariant says in the end.

For `IntsAreRead` it assumes `XintAssumption`: the greatest integer is a natural number. What
`PlainInt` spells, a sign, a prefix and digits, is laid out in one way only (a digit is no
sign, and no two prefixes are equal), `strtol` reads the digits to the last one, and their value
is `Denoted` (`LaidReads`). The other way round, what `string_is_xint` takes and is
not laid out so has a sign, an x or an X beyond its second character (finding 14).

Only checked by TLC: liveness (`KeepsMoving`, `CollectionEnds`, `MutexReleased`,
`JoinEnds`), which is out of the prover's reach. And `PrintReads` of `Sexp`, with `TypeOK`, `LiveEnough`, `FrameKept`
and `SupportedCompiles` of `Compiler`: what they are built from are operators declared RECURSIVE over
trees, which the prover does not support, and what they say would have to be shown
by induction over programs.

## Not modelled

- In `lock`: `try_lock`, which nothing calls, and `spinlock.c`, one call of pthread per function.
  Failures of the pthread library and of `malloc`: the code does not handle them.
- In the collector: programs with tuples of more than 24 fields, whose masks `tuple.c:51` gets
  wrong, and of size 0 (see the hazard at `tuple.c:51`). `gc_print` and the log are output.
- In the lexer: `postprocess_float`, which asks `strtod` (so that `nan` and `inf` are read as
  floats), and the bound of `collect_char` on the length of a token. `sexp_parse_list` sets
  the lexer up in one way, and only that way is modelled.
- `hash_report` and the printing functions; `*_destroy`, which is purge and free.
- Iterating over bytes that are not UTF-8: `utf8_char_length` ends the program or runs past
  the end; strings are valid or written by the program.
- char, int, file, blob, commander, time, vec, test: wrappers of the C library, bits of
  one number, or output; there is no state to go wrong. The entry points of a
  compiled program only call the collector and stdio.
- Of the compiler: parse, form, format and the command line, which turn programs into text and back.
