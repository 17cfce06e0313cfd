# Conque Term and miniterm in TLA+

The repository is a personal Linux environment: a Vim configuration with its
plugins, and a directory of tools. Most of it is data, shell, or copies of other
people's programs. Two parts run concurrently and keep state for long: **Conque**, a
terminal emulator inside Vim (`.vim/autoload/conque_term.vim`,
`.vim/autoload/conque_term/*.py`), and **miniterm**, a serial terminal of three threads
(`bin/miniterm.py`). This project models both; the other programs are listed below with the
reason why they are left out.

All paths are relative to `src/`; `conque_term/` stands for
`.vim/autoload/conque_term/`.

## 1. Inventory

### Conque Sole, the Windows terminal

Two processes. Vim runs `ConqueSoleWrapper` (`conque_sole_wrapper.py`) and
`ConqueSole` (`conque_sole.py`); a helper, the *communicator*
(`conque_sole_communicator.py`, `conque_sole_subprocess.py`), owns a console window in
which the program runs. They share named blocks of memory
(`conque_sole_shared_memory.py`) and no lock.

| block | writer | reader | what it holds |
|---|---|---|---|
| input | Vim | communicator, which clears it | text typed, at most one put |
| command | Vim | communicator, which clears it | one of idle, resume, close |
| stats | communicator | Vim | is the terminal alive, top line, cursor |
| output, attributes | communicator | Vim | lines of the console |
| rescroll | communicator | Vim, which clears it | key and size of a new output block |
| resize | Vim | communicator, which clears it | new size of the window |

Hard here: every mailbox is tested, read, written and cleared in separate steps of
two processes; a later message overwrites an earlier one; both sides clear the
mailboxes while starting; most failures are exceptions caught far away.

* *Input channel.* State: `bucket` (Vim), the mailbox, the text in the communicator's
  hand. Correct when text arrives in order, once, with key sequences whole.
* *Life cycle and commands.* State: the command mailbox, the stats, `is_idle`, the
  loop counter, the attribute `is_alive` that hides the method of that name, the
  processes of the console. Correct when commands are obeyed, the end of the
  communicator is published, and no process is left.
* *Screen blocks and window size.* State: both sides' idea of key, number of blocks
  and width. Correct when Vim reads the block that is written with a width that fits,
  and the console follows the window.

### Conque, the Unix terminal

Vim and a program on a pty, two processes. `ConqueSubprocess` (`conque_subprocess.py`) forks the program on a pty;
`Conque` (`conque.py`) reads its output, splits it with a pattern, and plays each chunk
on `ConqueScreen` (`conque_screen.py`), a view of the last lines of a Vim buffer.
State: the buffer, `screen_top`, `screen_height`, the cursor, the scroll region, the
origin mode, the sizes. Hard: rows of the screen are lines of a buffer that is longer
or, at first, shorter than the screen; a program may set any two rows as its scroll region,
and nothing checks them; an exception in any chunk silently drops the
rest of the output. Correct when the cursor stays in its region and, for programs that use
the screen they have, output is not erased and not dropped and the scrollback is never written again.

Below that is the pty. State: the process number, the list of typed characters
(`input_buffer`, an attribute of the class that `auto_read` replaces by one of the terminal), what
waits in the pty in either direction. Hard: output is read in slices and each is decoded by
itself; a write blocks while the program does not read, in the same thread that would read its
output; `is_alive` waits for the program and so gives its number back, and signals follow;
a fork that failed leaves the number 0. Correct when output is shown whole, a key is written
once, in order, to its own terminal, and a signal strikes its own program.

### The terminals of one Vim

`conque_term.vim` opens terminals, gives each buffer its autocommands and mappings,
polls (`auto_read` on CursorHoldI in the focused terminal, `read_all` for the others),
sends a terminal to sleep and resumes it as the focus moves, pauses and resumes it on a
key, and closes it. State: the counter `g:ConqueTerm_Idx`, the objects
`g:ConqueTerm_Terminals`, the hooks of each buffer, the polling interval. Hard:
a function may mean the terminal it was called for, the one of the current buffer
(`b:ConqueTerm_Var`) or the one opened last (`g:ConqueTerm_Var`), and autocommands call
functions in the middle of commands. Correct when a closed terminal's program has been
told to end, the death of a program is noticed, and closing one terminal leaves the
others alone.

### miniterm

Three threads: *reader* copies the serial line to the screen, *writer* copies keys to the line
and obeys a menu, *main* waits for them. State: `alive`, `repr_mode`, `convert_outgoing`, the
mode of the tty, and where each thread is; nothing is locked. Hard: the reader tests a mode up to
four times while the writer changes it in two steps; a thread that fails tells the other by
`alive`, which a thread waiting for a key does not see, and the reader does so only for one kind of exception; prompts and the exit function put the
tty into another mode. Correct when each received character is displayed, a failed line or the exit key
ends the program, and the tty is raw when a key is awaited and restored in the end.

### Other parts

| part | where | treatment |
|---|---|---|
| ConqueGdb: breakpoints of gdb and the signs that show them | `.vim/autoload/conque_gdb/` | does not load beside this `conque_term.vim`: it calls `conque_term#dependency_check(0)` and `conque_term#get_py()`, which are of another version |
| agent proxy: ports, break sequences, packets of gdb | `bin/android-agent-proxy_src/` | third-party copy |
| drawing of the Windows console, colors | `conque_sole.py`, `conque_win32_util.py` | layout, left out |
| gdbx, logviewer | `bin/` | scripts of one thread: a layer over gdb's Python interface, and patterns that color a log |
| repo, samsung.c, Command-T, the other Vim plugins | `bin/`, `.vim/` | third-party copies |
| shell scripts, snippets, docs, colors | `bin/`, `.vim/` | sequences of commands, and data |

`PROJECT.json` lists each with its sources, and every hazard at its line.

## 2. Modules

| module | models | composes |
|---|---|---|
| `InputFifo` | what the input channel promises: a queue that may lose a beginning | |
| `SoleInput` | the input channel, both processes | implements `InputFifo` |
| `SoleControl` | commands, health, end of the communicator | |
| `SoleScreen` | output blocks, widths, the rescroll and resize mailboxes | |
| `ConqueScreen` | rows of the Unix terminal | |
| `ConqueTerm` | the terminals of one Vim | |
| `UnixPty` | ptys, process numbers, keys and output of the Unix terminals | |
| `Miniterm` | the threads of miniterm | |
| `MC*` | constants for TLC | extends the module |
| `*_proofs` | theorems | extends the module |
| `IntervalInduction` | induction over an interval, as a fact about sets | extended by `ConqueScreen_proofs` |

The three `Sole*` modules share the communicator's loop but no state: the
blocks of one are not accessed by the code of another, so each is a projection of the
loop on its blocks, and every interleaving of the loop's parts with Vim is in one of them.
Where one depends on another (the communicator's end) the other is an action that may
happen at any time (`CommExit` of `SoleInput`, `CommEnd` of `SoleScreen`), or is followed to its own end
(`SoleControl`).

**Granularity.** In the `Sole*` modules a step is what a process does between two
accesses to shared memory; an access to a block is one step. In `ConqueScreen` a step is
a chunk of output or one call of `update_window_size`; in `ConqueTerm` it is one command of the
user, a script or a timer, with all the autocommands it triggers (Vim runs one command at a
time), beside steps of the programs. `UnixPty` goes below that: a step is one key
written or one slice read by the command Vim is in, so that programs and other processes run
between them; which commands come, and in which order, is `ConqueTerm`'s matter and any may come
here. In `Miniterm` a step is what a thread does up to its next access to something shared, so
the tests of a mode are steps of their own, and so are the two halves of its change.

### SoleInput

`Write` is `wrapper.write` up to the test of the mailbox, `VimPut` the write and the cut of the
bucket. `CommRead`, `CommClear`, `CommDeliver` are the three parts of
`subprocess.write`; `CommRaise` is an exception while a text is typed piece by piece (`PieceEnds`: the pieces are key
sequences and what is between them), after which the communicator is gone with the rest in its hand; `VimOpen` and `CommInit` clear the block when each side starts. A key
sequence is three symbols (`Esc`, a code, `VkEnd`); `Events` says which
symbols of a text the console gets as a key and which as characters. Symbols have a width
in bytes, since 500 symbols are put in a block of 1000 bytes (`Fits`). The module assumes (`KeySequences`)
that no text typed or pasted stops inside a key sequence, and that codes, which are digits and `;`, neither begin nor end one; `write_vk` puts
whole sequences. A sequence written by a script piece by piece is left out with that.

### SoleControl

`commPc` follows the communicator from its start through the main loop (`top`, `health`,
`poll`, `pollClear`, `read`, `check`, `checkClear`, `stats`) to `close`, `kill` and `terminate`.
`shadowed` is the attribute `is_alive = False` that hides the method; calling it raises, and
`HealthOk` is false in both cases. `CommSwallow` and `CommRaise` are the exceptions that
`read` swallows and those that reach the script's bare `except`. `Listed` says whether
the process list, which has room for `ListSize`, can be filled. `CommKill` takes the list;
`CommKillProgram` and `CommKillOther` then end the listed processes one by one, or fail to, while the processes
of the console go on starting and ending others; `CommKillSelf` comes last. `escaped` counts the processes that started after the list was taken
and those that could not be ended.

### SoleScreen

A block is its key and its size; a map succeeds when Vim asks for no more than
there is (`Mapped`). `CommSwap` is `reset_console` up to the new block, `CommNotify` its message to
Vim and the rest; fast mode raises in between. A window wider than the console can have (`MaxWindow`) gets the widest, and the
communicator keeps that (`Clamped`). Changes of the height alone are resizes that keep the width. `VimPoll`, `VimClear`, `VimMap` are the parts of
`get_stats`.

### ConqueScreen

A line of the buffer is TRUE when there is text in it; columns are left out, so text that
wraps is a text, a newline, a text. `Get`, `Set`, `Del`, `Insert`, `AppendLine` are the methods of
`ConqueScreen` on a record of buffer, top and "no IndexError yet"; actions are the control
characters and escape sequences that move rows. `Leave` ends a chunk: after an IndexError the read
is over and `lost` says so. `strayed` remembers that the cursor was addressed outside the
scroll region (`csi_cursor` bounds it by the screen) or that a resize moved either. A program may set any two rows
(`Rows`: 0 to `MaxRow`) as the region, as `csi_set_coords` takes what it gets: `misset` remembers that, since the screen has
its size, the region was empty or not on the screen. The cursor may then be on a row that is not on the screen, even a negative one:
`Place` is what a negative index of a list means to Python. `Usual` is neither strayed nor misset.

### ConqueTerm

The functions of `conque_term.vim` are operators on a record of the variables they may change
(`OnBlur`, `OnFocus`, `Unhook`, `Abort`, `Closed`, ...); an action puts those together that one
command calls, in the order Vim runs them. Deleting the current buffer may run the autocommands
before or after another buffer becomes current: both are allowed. The three options that matter
are chosen in the initial state. `Read` is any read of one terminal by a key or a script.
A program that is "told" is one `abort` sent SIGHUP; `signal` swallows the failure of a kill, so "told" does not say that
it arrived, and the program may live on for as long as it likes.

### UnixPty

`program` is the state of a terminal's program (`zombie` until `is_alive` waits for it, then
`reaped`, its number free for others), `strangers` the numbers of other processes; a signal of
a terminal strikes whom `Struck` says. `TypeBuffered` is `write_buffered_ord`, into the list of the
class until `auto_read` has made one for the terminal (`rebound`); `TypeDirect` is
`write_ord`. A key may be `odd`, one whose number `unichr` refuses: `WriteRaises` ends the poll before the list is made new.
A call goes through `write` (`WriteKey`, `Written`), `check` (`FindsAlive`,
`FindsDead`) and `read` (`ReadSlice`, `ReadEmpty`). Output is bytes with the boundaries that matter:
the halves of a character and of an escape sequence. `Decodes` is the decoding of a slice,
which is dropped with the rest of the read when it fails, and `Played` what `Conque.read` makes of the
output of one read. Any chunk may raise (a full clear of the screen does), which ends in a bare `except`: `Returns` shows a beginning of the
output, up to any boundary of characters and sequences (`Stops`), and the rest is dropped. `spoilt` remembers a terminal in which
that, or a cut, or output that is not utf-8 occurred.

### Miniterm

`readerPc` follows a character through the tests of `repr_mode` (`test0` ... `test3`, in mode 1 also
those of `convert_outgoing`) to the display or, after the last test, to nothing (`Drop`).
`writerPc` follows a key through the menu, a prompt, an upload; `MenuRepr` and `WrapRepr` are the two
assignments to `repr_mode`. `Handled(FALSE)` is an exception that reaches the writer's bare `except`. The reader has two ends by an
exception: `ReaderRaise`, a `SerialException`, clears `alive`; `ReaderDies`, any other, tells nobody.
`Cleanup` and `Setup` are the console's, and what was typed is lost with the first.

## 3. What is checked

TLC checks these on small instances (`*.cfg`); those marked (T) are also proved, for every value
of the constants.

**SoleInput** (pass). `NoLossNoDup` (T): wiped, delivered, under way and waiting
text is what was typed, in order. `ImplementsFifo` (T): the queue of `InputFifo`.
`KeysWholeUnlessCut` (T): only the cut of the bucket breaks a key sequence. `PutIsDelivered`: what is put is delivered.

**SoleControl** (pass). `ExitIsPublished` (T): the end of the communicator is
published before it is gone. `NeverAliveAgain` (T): what was published dead is never published alive.
`NoOrphansWhenListed` (T): when the list has room for all, those processes of an attached console that outlive the communicator started after they were
listed or could not be ended. When the list, which holds ten ids, has no room for all, `GetConsoleProcessList` fills nothing and none is ended
(`Listed`): "Close all running subproccesses" (`conque_sole_subprocess.py:637`) is not kept then. `CommandObeyed`: a command that stays in the
mailbox is obeyed; `DeathEnds`: a program's death ends the communicator.

**SoleControl_close** (violation, finding). A close posted while the communicator starts, or
between its read and its clear of an earlier command, is wiped.

**SoleScreen** (pass). `WriterNeverWider` (T): lines are never wider than Vim thinks.
`ReaderFollowsUnlessDropped` (T), `ReaderNeverGoesBack` (T): Vim follows the
communicator from block to block unless a message was cleared unread, and never goes back.
`NeverBlankWithoutGrowth` (T): without a wider window Vim never loses its block.
`WindowFollowsUnlessLost` (T) and `ResizeReaches`: the console gets the window's width, as far as it can, unless the resize is cleared
unread or the communicator ends.

**SoleScreen_early** (violation, finding). A resize before the first line was read ends the
terminal.

**SoleScreen_fast** (violation, finding). `ReaderFollows`, which is `ReaderFollowsUnlessDropped` in either mode: in fast mode
Vim is not told of a new block and goes on reading the old one.

**ConqueScreen** (pass). `InRegionUnlessStrayed` (T): the cursor stays in every region that has a row, wherever it lies, unless it was addressed outside
or a resize moved either. `BufferFits` (T): the buffer ends with the screen
or one line below. `NewlineScrolls` (T): with the whole screen as its region a newline keeps every line with text, although
`append` replaces the last line of a buffer that is one too long, and moves the cursor a line down once
the screen is filled.
`ScrollbackKept` (T): what has scrolled off is not written again. `FilledScreenDropsNothing` (T): on a
filled screen nothing is dropped.
All but the first speak of states in which the cursor did not stray and no region was set that is empty or not on the
screen (`Usual`), which is what programs that use the screen they have lead to. Outside of them the code does not satisfy them: after
`ESC[3;2r` newlines walk off the screen, after `ESC[0;2r` the cursor goes up into the scrollback. A full clear (`ClearScreen`)
always raises NameError, at `conque_screen.py:171`, and drops the rest of the output; the last property is about IndexErrors.

**ConqueTerm** (pass). `LastIsAwake` (T): the terminal opened last is awake when it has
the focus, although `on_focus` resumes a terminal chosen by a global. `DeletedIsTold`
(T): no running program is left behind a deleted, unpaused buffer unless it was signalled first.
`AloneStaysTerminal` (T): as long as there is one terminal, it is unhooked only by the user or
its end. `DeathNoticed`: the death of the program of a terminal in which the user stays is
noticed.

**ConqueTerm_stop** (violation, finding). Closing one terminal unhooks the one in the current
buffer.

**ConqueTerm_output** (violation, finding). The last output of a program is never shown when its
death is noticed before the next read.

**UnixPty** (pass). `OutputWhole` (T): what a program sends is shown once and in order, unless a slice
ended in a character, a read in a sequence, or playing raised. `KeysOnceInOrder` (T): every key typed is written or waits; unless an odd
one waits, it is written once, and keys of one kind keep their order. `KeysStrayOnlyEarly` (T): a key reaches another
terminal than its own only if it was typed before the first `auto_read` that wrote one. `StrayOnlyAfterDeath`
(T): a signal strikes another process only after the program was found dead, and Vim itself only
after a fork that failed. The exceptions these name are in the code, and hazards of
`PROJECT.json` say at which line. `CallsReturn`: Vim's call ends, unless Vim writes to a program that takes no key for ever, because it sleeps, is
stopped, or waits in turn for its output to be read.

**Miniterm** (pass). `ShownUnlessWrapped` (T): a received character is dropped only when `repr_mode` was
beyond its last value meanwhile. `TtyModes` (T): raw when a key is awaited, restored in the end.
`OneKeyAfterEnd` (T): once `alive` is false the writer obeys one more key at most. A reader that ends by another exception than
`SerialException` leaves `alive` true, and the writer goes on.
`EndsUnlessWaiting`: the exit key or a line that fails ends the program, unless the writer waits for the user.

### Bounds, and why they are enough

* `SoleInput`: chunks of 4 symbols, so that a key sequence of 3 is cut at both places and one fits whole beside a character, between which
  the communicator may raise; a mailbox of 6 bytes, so that a chunk with one two-byte character fits with its terminator and one with two
  does not; 7 symbols typed: three puts and a key that spans them.
* `SoleControl`: the program and 2 more processes with room for 4 in the list (the communicator is in it); 3 commands, so
  that one is overwritten and one comes late; a poll every third loop, so that loops with and without a poll alternate.
* `SoleScreen`: 3 widths, so that the window can be narrowed below, kept and widened above its first width, the last beyond what the
  console can have; 3 resizes:
  one read, one overwritten, one cleared unread; 2 fillings of the console, so that a rescroll message is overwritten; the
  7 keys are never exhausted by these.
* `ConqueScreen`: screens of 2 and 3 rows, so that a region is a proper part of the screen; the window begins with 2 and is
  resized twice, so that it grows, shrinks, and a region outlives the screen it was set on; rows 0 to 4, so that a region may
  be empty, begin above the screen or end below the highest; 4 lines of buffer before a chunk, so that one and two lines of scrollback exist.
* `ConqueTerm`: 2 terminals, the least in which "this one", "the current one" and "the last one" differ; a
  check for death every second read instead of every 32nd.
* `UnixPty`: 2 terminals, so that a key can stray and a number be taken by the other; 2 process numbers; 4
  events (programs, keys, bytes): a program that starts, ends and whose number is taken by a stranger, or two
  terminals with a key each, or a character cut by a slice, with an event to spare; a pty of 1 key and 2 bytes, so that both directions fill; slices
  of 1 and 2 bytes. With 5 events the properties hold as well (1.7 million states).
* `Miniterm`: 4 keys, enough to turn a mode over (menu, mode, menu, mode) or to prompt and exit;
  one key typed ahead; `--debug` up to 4 times, one more than there are modes; an empty file, and one with a blank
  line in the middle.

Each bound is a constant named in the module and in the guard it limits.

### Fairness

* `SoleInput`, `SoleControl`, `SoleScreen`: weak fairness of the communicator's steps: it is a loop that waits only in
  `sleep`. Its end (`CommEnd` of `SoleScreen`, the exceptions of `SoleInput`) has none: it need not end. In `SoleInput` and `SoleControl` also of what Vim does without waiting for anything: opening the blocks, and the put
  that follows a test of the mailbox. The programs, the
  user and Vim's later calls have no fairness: nobody has to type.
* `ConqueTerm`: weak fairness of the poll of the focused terminal in insert mode: `auto_read` types two keys after each read
  (`feedkeys`), after which Vim's timer fires again. The other terminals have none: `read_all` depends on
  options.
* `UnixPty`: weak fairness of the call Vim is in (`select` has a timeout, the loop a last slice). Of the programs nothing is assumed: one may
  stop reading for ever, and the property then allows the call to wait (`Blocked`).
* `Miniterm`: weak fairness of each thread, since threads are scheduled and a read of the line times out after
  a second. Answers to prompts, keys and the line have none.

## 4. What is proved

All theorems hold for every value of the constants that satisfies the module's ASSUME.

* `SoleInput_proofs`. The invariant is `TypeOK /\ MailboxProtocol`, inductive by itself. The only non-obvious leaf is that cutting
  the bucket loses nothing (`CutIsExact`). `NothingLost` adds `NoLossNoDup`; its steps regroup a concatenation of
  sequences, which the prover does not do by itself, so `ConcatType` and `Regroup` are lemmas, the second about a folded definition (`Regroups`), which the solver cannot apply without end.
  `KeysStayWhole` needs what the console would make of everything that is still under way: `Stream` is what was delivered, is under way
  and waits, and `KeyInv` says that it does not stop inside a key sequence and that, unless the bucket was cut inside one,
  none lies across a seam between two puts. A key sequence is three symbols, so whether a symbol is part of one depends on its neighbours
  alone, and `EventsOfParts` (the events of a concatenation are those of its parts, when the first does not stop inside a
  sequence) needs no induction.
  An exception in the middle of a text is a delivery of its first part: `CutAnywhere` and `HandsOver` say that it loses nothing, `KeysApart` and `PieceEndsWhole`
  that the first part does not stop inside a sequence.
  `RefinesFifo` maps each step to `Send`, `Deliver`, `Lose` or a stutter; `SplitConcat` gives the lengths of the parts.
* `SoleControl_proofs`. `Inv == TypeOK /\ Published /\ DeadEnd`. `Published` says nobody writes the stats before the
  communicator has its blocks and that on its way out it has published the end; `DeadEnd` is needed
  for `NeverAliveAgain`, which fails in unreachable states where a dead terminal completes a read. `NoneLeft` rests on `Accounted`: while the list is worked
  off, a process of the console is listed or counted in `escaped`, which the room in the list (`Room`) makes true when it is taken.
* `SoleScreen_proofs`. Two layers on `TypeOK`: `WidthInv` bounds every copy of a width by the one that heard of it first, and
  `KeyInv` relates the key in each hand (mailbox, Vim's message, Vim's block) to the communicator's.
  `Area` and `MapOfMessage` show that a block named by a message is large enough for a reader that is no wider.
* `ConqueScreen_proofs`. `CursorInRegion` needs the types only: the region and the cursor do not depend on the buffer.
  The rest is in layers. First what each access of `ConqueScreen` does to a buffer, twice: for any row (`Grows`: it
  stays a screen and loses no lines), which gives `TypeCorrect`, and for a row of a screen that lies at the end of
  the buffer (`OnScreen`: the screen does not move, what is above and below it is left alone, and nothing raises on a filled screen). Then
  `ScreenInv`: types, the cursor in its region, `BufferFits`, a region on the screen unless `misset` (`Within`), and an empty line
  below the screen, without which `append`, which replaces the last line of a buffer that is one too long, would erase
  text. Then `PlaysWell`, what a step of a read leaves: the scrollback as it was, no IndexError on a filled screen, the screen
  at the end. `StepPlays` shows it for each chunk, and the invariant and the three action properties follow. Chunks
  that clear or scroll many rows are recursive functions of the number of rows, unrolled with
  `IntervalInduction`.
* `ConqueTerm_proofs`. Each function keeps a state sane (`SaneState`: hooks imply a buffer, nothing exists for terminals not yet
  opened, the closed were told), and the actions put the functions together. `AwakeState` carries
  `LastIsAwake`; `DeletionTells` proves the action property by cases on who deletes, `AloneUnhooked` and `HiddenHooked` by
  cases on who unhooks.
* `UnixPty_proofs`. `Inv == TypeOK /\ SignalInv /\ KeyInv /\ LineInv /\ TodoInv /\ WholeInv`. `SignalInv` says who may hold which
  number: a program that was not waited for shares its number with nobody, one that was is known to be dead. `KeyInv` says whose keys
  lie in which list. `LineInv` is about the keys of a terminal written, being written and waiting, as one sequence;
  `InsertInOrder` shows that a direct key inserted before the waiting ones keeps the order of both kinds. `TodoInv` says that a poll writes keys that wait in the list, so that an odd key, which ends it, is still there. `WholeInv` adds to `OutputWhole` that
  no slice boundary so far lies in a character; `WholeSliceDecodes` and `WholeOutputPlays` then give that a slice
  decodes and is played unchanged.
* `Miniterm_proofs`. `Inv == TypeOK /\ ModeInv /\ PlaceInv /\ TestInv /\ LateInv`. `PlaceInv` relates where main and the writer are to the
  tty; `TestInv` says what a failed test still tells about the mode (`repr_mode` only grows until it wraps);
  `LateInv` says that a key can be taken late only by a writer that was already waiting.

* `IntervalInduction`, a lemma. The induction theorems of the library take a predicate as a parameter, which the installed provers
  cannot instantiate. Stated of the set of the numbers that have the property it is first-order, and follows
  from the library's `WFMin` (a well-founded order on a set that is not empty has a minimal element).

Some theorems state what no run repeats, as the runs' properties follow from or rest on them:
`ProtocolCorrect` (what Vim saw empty is empty when it writes, what the communicator clears is what it read),
`MessagesAreCurrent`, `BuffersAreThere`, `ClosedAreTold` (no program runs untold behind a closed terminal), and `HiddenStays`: what
`ConqueTerm_stop` shows can only happen to a terminal that the user sees when the command begins or ends. TLC agreed with each before it was
proved.

Every safety property of the passing runs, invariant or action property, is proved. Only model-checked: liveness
(`PutIsDelivered`, `CommandObeyed`, `DeathEnds`, `ResizeReaches`, `DeathNoticed`, `CallsReturn`, `EndsUnlessWaiting`) and
ENABLED, which are out of the prover's reach; and the five properties of the runs that expect a violation.

## 5. What is left out

* An access to shared memory is atomic; a reader may in truth see half of a copy, and no property here speaks of that.
* Columns, tab stops, character sets, fonts, titles and colors.
* In `UnixPty`: a read of a script whose output is returned and not played (`update_buffer=False`), the file descriptor,
  which is never closed, the kernel's echo and the attributes of the tty.
* In `Miniterm`: the parsing of options; a serial call either returns or raises. An upload stops at the first blank line of the
  file and still prints that the file was sent: `FileEnds` models it, and no property says what an upload promises.
* In `ConqueTerm`: a program that could not be started (`UnixPty` has it), sending text and files, sessions, commands refused before anything happened, `close_all` when Vim exits, hooks of
  the user.
* The content of what the program writes; only whether it was read.

## 6. What could follow

1. `UnixPty` composed with `ConqueTerm`, so that its calls come in the order the autocommands give.
2. Columns and tab stops: `init_tabstops` (`conque_term/conque.py:1060`) appends to a list of the class.

To run: `tlc -config SoleInput.cfg MCSoleInput.tla` (each `.cfg` belongs to the `MC` module whose name begins its own), and
`tlapm SoleInput_proofs.tla`.
