----------------------------- MODULE SoleScreen -----------------------------
(***************************************************************************)
(* The screen of a Windows terminal: a block of shared memory that holds   *)
(* the console's lines, each as many columns wide as the writer's buffer.  *)
(* The communicator writes it; Vim reads it with its own idea of the       *)
(* width.  When the console is almost full, or wider, the communicator     *)
(* moves to a new block, whose key it posts in the one-message mailbox     *)
(* "rescroll"; when its window changes, Vim posts the new width in the     *)
(* one-message mailbox "resize".  A step is what a process does between    *)
(* two accesses to shared memory.                                          *)
(***************************************************************************)
EXTENDS Naturals

CONSTANTS Widths,      \* the widths the Vim window may take
          InitWidth,   \* its width when the terminal is opened
          MaxWindow,   \* external: the widest window the console can have
          Fast,        \* g:ConqueTerm_FastMode
          MaxResizes,  \* bound: changes of the window
          MaxOutputs,  \* bound: times the output fills the console
          MaxKeys      \* bound: blocks created

ASSUME SoleScreenAssumption ==
    /\ Widths \subseteq Nat \ {0}
    /\ InitWidth \in Widths /\ MaxWindow \in Nat \ {0}
    /\ Fast \in BOOLEAN
    /\ MaxResizes \in Nat /\ MaxOutputs \in Nat /\ MaxKeys \in Nat

VARIABLES shmResize,   \* the resize mailbox: a width, 0 when clear
          shmRescroll, \* the rescroll mailbox: a message, NoMessage when clear
          vimPc,       \* Vim: "boot", "ready", "clear", "map"
          asked,       \* Vim: width of the window
          columns,     \* Vim: width the wrapper reads lines with
          got,         \* Vim: the rescroll message read
          vimKey,      \* Vim: key of the mapped block, 0 when it has none
          resizes,     \* changes of the window, for the bound
          commPc,      \* where the communicator is
          cmdWidth,    \* communicator: the width read from the mailbox
          adding,      \* communicator: the reset adds a block (add_block)
          window,      \* communicator: window_width
          bufferWidth, \* communicator: buffer_width, of the lines in its block
          blocks,      \* communicator: output_blocks
          key,         \* communicator: key of its block
          size,        \* communicator: columns times height of its block
          hasData,     \* communicator: a line of the console has been read
          nearEnd,     \* the console's cursor is near the end of its buffer
          outputs,     \* times that happened, for the bound
          dropped,     \* history: a rescroll message was cleared unread
          resizeLost   \* history: a resize message was cleared unread

vimVars  == <<vimPc, asked, columns, got, vimKey, resizes>>
commVars == <<commPc, cmdWidth, adding, window, bufferWidth, blocks, key, size, hasData>>
progVars == <<nearEnd, outputs>>
histVars == <<dropped, resizeLost>>
vars     == <<shmResize, shmRescroll, vimVars, commVars, progVars, histVars>>

Wider(a, b) == IF a > b THEN a ELSE b

\* set_window_size: a window wider than the console allows gets the widest it allows.
Clamped(width) == IF MaxWindow < width THEN MaxWindow ELSE width

Message   == [key : Nat \ {0}, blocks : Nat \ {0}]
NoMessage == [key |-> 0, blocks |-> 0]

-----------------------------------------------------------------------------
Init ==
    /\ shmResize = 0 /\ shmRescroll = NoMessage
    /\ vimPc = "boot" /\ asked = InitWidth /\ columns = InitWidth
    /\ got = NoMessage /\ vimKey = 1 /\ resizes = 0
    /\ commPc = "boot" /\ cmdWidth = InitWidth /\ adding = FALSE
    /\ window = Clamped(InitWidth) /\ bufferWidth = InitWidth
    /\ blocks = 1 /\ key = 1 /\ size = InitWidth /\ hasData = FALSE
    /\ nearEnd = FALSE /\ outputs = 0
    /\ dropped = FALSE /\ resizeLost = FALSE

(* Vim *)

\* wrapper.init_shared_memory: nothing was posted yet.
VimOpen ==
    /\ vimPc = "boot"
    /\ vimPc' = "ready"
    /\ shmResize' = 0
    /\ dropped' = (dropped \/ shmRescroll # NoMessage)
    /\ shmRescroll' = NoMessage
    /\ UNCHANGED <<asked, columns, got, vimKey, resizes, commVars, progVars, resizeLost>>

\* Mutated form: the reader's width follows the window when it shrinks.
MutVimResize(w) ==
    /\ vimPc = "ready" /\ resizes < MaxResizes
    /\ resizes' = resizes + 1
    /\ asked' = w
    /\ columns' = w
    /\ shmResize' = w
    /\ UNCHANGED <<vimPc, got, vimKey, shmRescroll, commVars, progVars, histVars>>

\* ConqueSole.update_window_size and wrapper.window_resize, when the width or only the
\* height has changed: "we don't shrink buffer width"; the mailbox is overwritten.
VimResize(w) ==
    /\ vimPc = "ready" /\ resizes < MaxResizes
    /\ resizes' = resizes + 1
    /\ asked' = w
    /\ columns' = Wider(w, columns)
    /\ shmResize' = w
    /\ UNCHANGED <<vimPc, got, vimKey, shmRescroll, commVars, progVars, histVars>>

\* get_stats up to its read of the rescroll mailbox.
VimPoll ==
    /\ vimPc = "ready" /\ shmRescroll # NoMessage
    /\ got' = shmRescroll
    /\ vimPc' = "clear"
    /\ UNCHANGED <<asked, columns, vimKey, resizes, shmResize, shmRescroll, commVars,
                   progVars, histVars>>

VimClear ==
    /\ vimPc = "clear"
    /\ dropped' = (dropped \/ shmRescroll # got)
    /\ shmRescroll' = NoMessage
    /\ vimPc' = "map"
    /\ UNCHANGED <<asked, columns, got, vimKey, resizes, shmResize, commVars, progVars,
                   resizeLost>>

\* The communicator has closed its blocks.
Gone == commPc \in {"crashed", "ended"}

\* What mmap makes of the block named in the message (external: Windows).  A named
\* section that still exists is opened, unless it is smaller than asked for; one
\* whose writer has closed it is created anew, and nobody writes it.
Mapped(msg) ==
    IF msg.key = key /\ ~Gone
    THEN IF columns * msg.blocks <= size THEN msg.key ELSE 0
    ELSE msg.key

\* Mutated form: the blocks are not reopened.
MutVimMap ==
    /\ vimPc = "map"
    /\ vimPc' = "ready"
    /\ UNCHANGED <<vimKey, asked, columns, got, resizes, shmResize, shmRescroll, commVars,
                   progVars, histVars>>

\* get_stats closes its block and maps the new one.  With no block to close (an
\* earlier map failed) it raises, and returns False.
VimMap ==
    /\ vimPc = "map"
    /\ vimKey' = IF vimKey = 0 THEN 0 ELSE Mapped(got)
    /\ vimPc' = "ready"
    /\ UNCHANGED <<asked, columns, got, resizes, shmResize, shmRescroll, commVars,
                   progVars, histVars>>

-----------------------------------------------------------------------------
(* The program fills the console up to its last 200 lines. *)

ProgramOutput ==
    /\ ~nearEnd /\ outputs < MaxOutputs
    /\ nearEnd' = TRUE
    /\ outputs' = outputs + 1
    /\ UNCHANGED <<shmResize, shmRescroll, vimVars, commVars, histVars>>

-----------------------------------------------------------------------------
(* The communicator *)

\* subprocess.init_shared_memory clears the mailboxes.
CommInit ==
    /\ commPc = "boot"
    /\ commPc' = "check"
    /\ resizeLost' = (resizeLost \/ shmResize # 0)
    /\ shmResize' = 0
    /\ shmRescroll' = NoMessage
    /\ UNCHANGED <<cmdWidth, adding, window, bufferWidth, blocks, key, size, hasData,
                   vimVars, progVars, dropped>>

\* Mutated form: the mailbox is taken for full when it is clear.
MutCommCheck ==
    /\ commPc = "check"
    /\ commPc' = "resize" /\ cmdWidth' = shmResize
    /\ UNCHANGED <<adding, window, bufferWidth, blocks, key, size, hasData, shmResize,
                   shmRescroll, vimVars, progVars, histVars>>

\* check_commands reads the resize mailbox ...
CommCheck ==
    /\ commPc = "check"
    /\ IF shmResize = 0
       THEN commPc' = "read" /\ UNCHANGED cmdWidth
       ELSE commPc' = "resize" /\ cmdWidth' = shmResize
    /\ UNCHANGED <<adding, window, bufferWidth, blocks, key, size, hasData, shmResize,
                   shmRescroll, vimVars, progVars, histVars>>

\* Mutated form: the window is changed only when the buffer grows.
MutCommResize ==
    /\ commPc = "resize"
    /\ resizeLost' = (resizeLost \/ shmResize # cmdWidth)
    /\ shmResize' = 0
    /\ bufferWidth' = Wider(cmdWidth, bufferWidth)
    /\ window' = IF cmdWidth > bufferWidth THEN cmdWidth ELSE window
    /\ adding' = FALSE
    /\ commPc' = "swap"
    /\ UNCHANGED <<cmdWidth, blocks, key, size, hasData, shmRescroll, vimVars, progVars,
                   dropped>>

\* ... clears it, and resizes: "only change buffer width if it's larger".
CommResize ==
    /\ commPc = "resize"
    /\ resizeLost' = (resizeLost \/ shmResize # cmdWidth)
    /\ shmResize' = 0
    /\ bufferWidth' = Wider(cmdWidth, bufferWidth)
    /\ window' = cmdWidth
    /\ adding' = FALSE
    /\ commPc' = "swap"
    /\ UNCHANGED <<cmdWidth, blocks, key, size, hasData, shmRescroll, vimVars, progVars,
                   dropped>>

\* Mutated form: the new block has the height of the old one.
MutSwapSize ==
    /\ commPc = "swap"
    /\ key' = key + 1
    /\ blocks' = IF adding THEN blocks + 1 ELSE blocks
    /\ size' = bufferWidth * blocks
    /\ commPc' = IF hasData /\ ~Fast THEN "notify"
                 ELSE IF adding THEN "check" ELSE "crashed"
    /\ UNCHANGED <<cmdWidth, adding, window, bufferWidth, hasData, shmResize, shmRescroll,
                   vimVars, progVars, histVars>>

\* Mutated form: a reset that adds no block takes the first key again.
MutSwapKey ==
    /\ commPc = "swap"
    /\ key' = IF adding THEN key + 1 ELSE 1
    /\ blocks' = IF adding THEN blocks + 1 ELSE blocks
    /\ size' = bufferWidth * blocks'
    /\ commPc' = IF hasData /\ ~Fast THEN "notify"
                 ELSE IF adding THEN "check" ELSE "crashed"
    /\ UNCHANGED <<cmdWidth, adding, window, bufferWidth, hasData, shmResize, shmRescroll,
                   vimVars, progVars, histVars>>

\* reset_console up to the notice.  Both self.data[0] before the first line is
\* read and self.attributes[0] in fast mode raise IndexError, the block being
\* replaced already: from check_commands this ends the communicator, from read it
\* is swallowed.
CommSwap ==
    /\ commPc = "swap"
    /\ key' = key + 1
    /\ blocks' = IF adding THEN blocks + 1 ELSE blocks
    /\ size' = bufferWidth * blocks'
    /\ commPc' = IF hasData /\ ~Fast THEN "notify"
                 ELSE IF adding THEN "check" ELSE "crashed"
    /\ UNCHANGED <<cmdWidth, adding, window, bufferWidth, hasData, shmResize, shmRescroll,
                   vimVars, progVars, histVars>>

\* The rest of reset_console: "notify wrapper of new output block", and give the console
\* the size of the block and the window it has room for, whose width is kept.
CommNotify ==
    /\ commPc = "notify"
    /\ shmRescroll' = [key |-> key, blocks |-> blocks]
    /\ window' = Clamped(window)
    /\ nearEnd' = (nearEnd /\ ~adding)
    /\ commPc' = IF adding THEN "check" ELSE "read"
    /\ UNCHANGED <<cmdWidth, adding, bufferWidth, blocks, key, size, hasData,
                   shmResize, vimVars, outputs, histVars>>

\* read: lines and statistics are written, and the console checked for a reset.
\* The bound on keys stops only fast mode, where a failed reset is tried again and
\* again.
CommRead ==
    /\ commPc = "read"
    /\ hasData' = TRUE
    /\ IF nearEnd /\ key < MaxKeys
       THEN commPc' = "swap" /\ adding' = TRUE
       ELSE commPc' = "check" /\ UNCHANGED adding
    /\ UNCHANGED <<cmdWidth, window, bufferWidth, blocks, key, size, shmResize,
                   shmRescroll, vimVars, progVars, histVars>>

\* A close, the death of the program or another exception ends the communicator, wherever
\* it is (SoleControl says how).
CommEnd ==
    /\ ~Gone /\ commPc' = "ended"
    /\ UNCHANGED <<cmdWidth, adding, window, bufferWidth, blocks, key, size, hasData,
                   shmResize, shmRescroll, vimVars, progVars, histVars>>

Comm == CommInit \/ CommCheck \/ CommResize \/ CommSwap \/ CommNotify \/ CommRead

Next ==
    \/ VimOpen \/ VimPoll \/ VimClear \/ VimMap
    \/ \E w \in Widths : VimResize(w)
    \/ ProgramOutput
    \/ Comm \/ CommEnd

Spec == Init /\ [][Next]_vars

\* The communicator is a loop that never blocks; it need not end.
FairSpec == Spec /\ WF_vars(Comm)

-----------------------------------------------------------------------------
(* Properties *)

TypeOK ==
    /\ shmResize \in Widths \cup {0} /\ shmRescroll \in Message \cup {NoMessage}
    /\ vimPc \in {"boot", "ready", "clear", "map"}
    /\ asked \in Widths /\ columns \in Widths
    /\ got \in Message \cup {NoMessage} /\ vimKey \in Nat
    /\ resizes \in 0..MaxResizes
    /\ commPc \in {"boot", "check", "resize", "swap", "notify", "read", "crashed",
                   "ended"}
    /\ cmdWidth \in Widths /\ adding \in BOOLEAN /\ window \in Widths \cup {MaxWindow}
    /\ bufferWidth \in Widths /\ blocks \in Nat \ {0} /\ key \in Nat \ {0}
    /\ size \in Nat /\ hasData \in BOOLEAN
    /\ nearEnd \in BOOLEAN /\ outputs \in 0..MaxOutputs
    /\ dropped \in BOOLEAN /\ resizeLost \in BOOLEAN

\* The communicator is not in the middle of a change of block, nor has it ended.
Settled == commPc \in {"check", "read"}

\* The lines of the writer's block are never wider than the lines Vim reads: both
\* keep the widest width they have heard of, and Vim hears of each first.
WriterNeverWider ==
    /\ bufferWidth <= columns
    /\ cmdWidth <= columns /\ shmResize <= columns

\* The message that waits in the rescroll mailbox names the block the communicator
\* writes: a block is never replaced without its message being overwritten.
MessageIsCurrent ==
    (shmRescroll # NoMessage /\ Settled) =>
        shmRescroll = [key |-> key, blocks |-> blocks]

\* Outside fast mode Vim reads the writer's block as soon as no message waits,
\* provided no message was cleared unread and Vim did not fail to map one.
ReaderFollowsUnlessDropped ==
    (Settled /\ ~Fast /\ vimPc = "ready" /\ shmRescroll = NoMessage
        /\ ~dropped /\ vimKey # 0) => vimKey = key

\* Vim loses its block for good (a map that failed is not repaired by a later
\* message) only after the window was widened.
NeverBlankWithoutGrowth == columns = InitWidth => vimKey # 0

\* Vim never goes back to an older block, whatever the messages it missed.
ReaderNeverGoesBack == [][vimKey' = 0 \/ vimKey' >= vimKey]_vars

\* The console has the width of the Vim window, or the widest it can have if that is less,
\* as soon as no resize waits, unless a resize was cleared unread.
WindowFollowsUnlessLost ==
    (Settled /\ shmResize = 0 /\ ~resizeLost) => window = Clamped(asked)

\* A change of the window reaches the console, as far as the console can follow, if it is
\* not lost on the way and the communicator does not end before.
ResizeReaches ==
    \A w \in Widths :
        (asked = w) ~> (window = Clamped(w) \/ asked # w \/ resizeLost \/ Gone)

\* Vim reads the writer's block in either mode ("notify wrapper of new output block"),
\* provided no message was cleared unread and Vim did not fail to map one.
ReaderFollows ==
    (Settled /\ vimPc = "ready" /\ shmRescroll = NoMessage /\ ~dropped /\ vimKey # 0)
        => vimKey = key

\* "Resize console window": a resize does not end the terminal.
ResizeNeverKills == commPc # "crashed"
=============================================================================
