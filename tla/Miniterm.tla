------------------------------ MODULE Miniterm ------------------------------
(***************************************************************************)
(* The serial terminal of bin/miniterm.py: a reader thread copies the line  *)
(* to the screen, a writer thread copies keys to the line and obeys a menu, *)
(* and the main thread waits for both.  The threads share `alive', the two  *)
(* display modes and the user's tty, without a lock: a step of a thread is  *)
(* what it does up to its next access to one of these.                      *)
(*                                                                          *)
(* A mode is a number that is counted up and afterwards put back to 0, so a *)
(* value beyond the last mode can be seen by the reader.  Flags that only   *)
(* the writer and the port use (echo, RTS, DTR, BREAK) are left out.        *)
(***************************************************************************)
EXTENDS Integers, Sequences

CONSTANTS MaxDebug,  \* bound: how often --debug is given (the code has no bound)
          MaxKeys,   \* bound: keys typed in the session
          MaxAhead,  \* bound: keys typed and not yet read
          Files      \* the files the user may upload, as sequences of lines

ASSUME MinitermAssumption ==
    /\ MaxDebug \in Nat /\ MaxKeys \in Nat /\ MaxAhead \in Nat
    /\ Files \subseteq Seq({"text", "blank"})

CONVERT_LF   == 0
CONVERT_CR   == 1
CONVERT_CRLF == 2
REPR_MODES   == 0..3  \* raw, some control, all control, hex

\* "line" toggles RTS, DTR or BREAK; "settings" is any of 7 8 n e o s m 1 2 3 x r;
\* "other" is every other character: echo and help in the menu, text elsewhere.
Key == {"exit", "menu", "newline", "upload", "baud", "repr", "linefeed", "line",
        "settings", "info", "other"}

VARIABLES port,        \* the serial line works
          input, typed,  \* keys that wait in the tty, and how many were typed
          tty, old,    \* mode of the tty; console.old, the mode cleanup() restores
          alive,
          reprMode, convertOutgoing, newline,
          mainPc,      \* "open", "start", "writer" (started the reader), "join" the
                       \* writer, "joinBoth", "exited"
          readerPc, data, shown,  \* the character received and how it was displayed, until
                       \* the reader looks at alive again
          writerPc, key, menuActive,  \* c, until it is handled
          rest,        \* lines of the uploaded file not yet read
          wrapped,     \* history: repr_mode was beyond its last value since the
                       \* reader received its character
          late         \* history: keys taken after alive became false

readerVars == <<readerPc, data, shown>>
modeVars   == <<reprMode, convertOutgoing, newline>>
ttyVars    == <<input, tty, old>>
writerVars == <<writerPc, key, menuActive, rest, late>>
vars       == <<port, typed, ttyVars, alive, modeVars, mainPc, readerVars, writerVars, wrapped>>

\* The console was set up when the script was loaded; the options gave the modes.
Init ==
    /\ port = TRUE /\ input = <<>> /\ typed = 0
    /\ tty = "raw" /\ old = "cooked"
    /\ alive = FALSE /\ mainPc = "open"
    /\ reprMode \in 0..MaxDebug
    /\ convertOutgoing \in {CONVERT_LF, CONVERT_CR, CONVERT_CRLF}
    /\ newline = convertOutgoing
    /\ readerPc = "unborn" /\ data = "none" /\ shown = "none"
    /\ writerPc = "unborn" /\ key = "other" /\ menuActive = FALSE
    /\ rest = <<>> /\ wrapped = FALSE /\ late = 0

-----------------------------------------------------------------------------
(* The console (posix).                                                      *)

\* Mutated form: the terminal keeps its mode.
MutCleanup == input' = <<>> /\ UNCHANGED <<tty, old>>

\* cleanup(): TCSAFLUSH also throws away what was typed and not read.
Cleanup == tty' = old /\ input' = <<>> /\ UNCHANGED old

\* setup(): the mode it finds is the one it will restore.
Setup == old' = tty /\ tty' = "raw" /\ UNCHANGED input

\* The user types a key while the tty is raw; what is typed at a prompt is taken by
\* the prompt.
Type(k) ==
    /\ tty = "raw" /\ mainPc # "exited" /\ typed < MaxKeys /\ Len(input) < MaxAhead
    /\ input' = Append(input, k) /\ typed' = typed + 1
    /\ UNCHANGED <<port, tty, old, alive, modeVars, mainPc, readerVars, writerVars, wrapped>>

\* The line is unplugged: from now on every use of it raises SerialException.
Unplug ==
    /\ port /\ port' = FALSE
    /\ UNCHANGED <<typed, ttyVars, alive, modeVars, mainPc, readerVars, writerVars, wrapped>>

-----------------------------------------------------------------------------
(* The main thread.                                                          *)

\* sys.exit, or the end of main: the exit function restores the tty.
Exit == mainPc' = "exited" /\ Cleanup

\* The options are refused or the port cannot be opened.
MainFails ==
    /\ mainPc = "open" /\ Exit
    /\ UNCHANGED <<port, typed, alive, modeVars, readerVars, writerVars, wrapped>>

\* The port is open: start() starts the reader thread ...
MainStart ==
    /\ mainPc = "open" /\ port /\ mainPc' = "writer"
    /\ alive' = TRUE /\ readerPc' = "loop"
    /\ UNCHANGED <<port, typed, ttyVars, modeVars, data, shown, writerVars, wrapped>>

\* ... and then the writer thread.
MainStartWriter ==
    /\ mainPc = "writer" /\ mainPc' = "join" /\ writerPc' = "loop"
    /\ UNCHANGED <<port, typed, ttyVars, alive, modeVars, readerVars, key, menuActive, rest,
                   late, wrapped>>

\* join(True)
MainJoin ==
    /\ mainPc = "join" /\ writerPc = "done" /\ mainPc' = "joinBoth"
    /\ UNCHANGED <<port, typed, ttyVars, alive, modeVars, readerVars, writerVars, wrapped>>

\* join(), and the end of the program
MainExit ==
    /\ mainPc = "joinBoth" /\ readerPc = "done" /\ Exit
    /\ UNCHANGED <<port, typed, alive, modeVars, readerVars, writerVars, wrapped>>

Main == MainFails \/ MainStart \/ MainStartWriter \/ MainJoin \/ MainExit

-----------------------------------------------------------------------------
(* The reader thread.                                                        *)

otherThanReader == <<port, typed, ttyVars, modeVars, mainPc, writerVars>>

\* Mutated form: the loop does not look at alive.
MutReaderTop ==
    /\ readerPc = "loop" /\ readerPc' = "read"
    /\ data' = "none" /\ shown' = "none" /\ wrapped' = FALSE
    /\ UNCHANGED <<otherThanReader, alive>>

ReaderTop ==
    /\ readerPc = "loop"
    /\ readerPc' = IF alive THEN "read" ELSE "done"
    /\ data' = "none" /\ shown' = "none" /\ wrapped' = FALSE
    /\ UNCHANGED <<otherThanReader, alive>>

\* serial.read(1) times out after a second; no mode displays the empty string.
ReaderTimeout ==
    /\ readerPc = "read" /\ port /\ readerPc' = "loop"
    /\ UNCHANGED <<otherThanReader, alive, data, shown, wrapped>>

ReaderReceive(d) ==
    /\ readerPc = "read" /\ port /\ readerPc' = "test0"
    /\ data' = d /\ wrapped' = (reprMode \notin REPR_MODES)
    /\ UNCHANGED <<otherThanReader, alive, shown>>

\* SerialException: the writer is told, but not woken.
ReaderRaise ==
    /\ readerPc = "read" /\ ~port /\ readerPc' = "done" /\ alive' = FALSE
    /\ UNCHANGED <<otherThanReader, data, shown, wrapped>>

\* Any other exception, an OSError of the line or an IOError of the screen: the reader
\* catches SerialException alone, and nobody is told.
ReaderDies ==
    /\ \/ readerPc = "read" /\ ~port
       \/ readerPc \in {"raw", "crlf", "lf", "cr", "escape", "hex", "drop"}
    /\ readerPc' = "done"
    /\ UNCHANGED <<otherThanReader, alive, data, shown, wrapped>>

\* repr_mode is read again for each of the modes.
ReaderTest(pc, mode, yes, no) ==
    /\ readerPc = pc /\ readerPc' = IF reprMode = mode THEN yes ELSE no
    /\ UNCHANGED <<otherThanReader, alive, data, shown, wrapped>>

Display(pc, how) ==
    /\ readerPc = pc /\ readerPc' = "loop" /\ shown' = how
    /\ UNCHANGED <<otherThanReader, alive, data, wrapped>>

\* Mode 0
DisplayRaw ==
    Display("raw", IF data = "cr" /\ convertOutgoing = CONVERT_CR THEN "newline" ELSE "as is")

\* Mode 1 reads convert_outgoing up to three times.
DisplayCrLf ==
    /\ convertOutgoing = CONVERT_CRLF /\ data \in {"cr", "lf"}
    /\ Display("crlf", IF data = "lf" THEN "newline" ELSE "swallowed")

NotCrLf ==
    /\ readerPc = "crlf" /\ readerPc' = "lf"
    /\ ~(convertOutgoing = CONVERT_CRLF /\ data \in {"cr", "lf"})
    /\ UNCHANGED <<otherThanReader, alive, data, shown, wrapped>>

DisplayLf == data = "lf" /\ convertOutgoing = CONVERT_LF /\ Display("lf", "newline")

NotLf ==
    /\ readerPc = "lf" /\ readerPc' = "cr"
    /\ ~(data = "lf" /\ convertOutgoing = CONVERT_LF)
    /\ UNCHANGED <<otherThanReader, alive, data, shown, wrapped>>

DisplayCr ==
    Display("cr", IF data = "cr" /\ convertOutgoing = CONVERT_CR THEN "newline" ELSE "escaped")

\* After the last test there is no else: the character is dropped.
Drop == Display("drop", "nothing")

Reader ==
    \/ ReaderTop \/ ReaderTimeout \/ ReaderRaise \/ ReaderDies
    \/ \E d \in {"cr", "lf", "text"} : ReaderReceive(d)
    \/ ReaderTest("test0", 0, "raw", "test1") \/ ReaderTest("test1", 1, "crlf", "test2")
    \/ ReaderTest("test2", 2, "escape", "test3") \/ ReaderTest("test3", 3, "hex", "drop")
    \/ DisplayRaw \/ DisplayCrLf \/ NotCrLf \/ DisplayLf \/ NotLf \/ DisplayCr
    \/ Display("escape", "escaped") \/ Display("hex", "hex") \/ Drop

-----------------------------------------------------------------------------
(* The writer thread.                                                        *)

otherThanWriter == <<port, typed, mainPc, readerVars>>

\* Mutated form: the loop does not look at alive.
MutWriterTop ==
    /\ writerPc = "loop" /\ writerPc' = "getkey"
    /\ UNCHANGED <<otherThanWriter, ttyVars, alive, modeVars, key, menuActive, rest, late, wrapped>>

WriterTop ==
    /\ writerPc = "loop"
    /\ writerPc' = IF alive THEN "getkey" ELSE "done"
    /\ UNCHANGED <<otherThanWriter, ttyVars, alive, modeVars, key, menuActive, rest, late, wrapped>>

\* getkey() blocks until there is a key, whatever alive has become.
WriterGetKey ==
    /\ writerPc = "getkey" /\ input # <<>>
    /\ key' = Head(input) /\ input' = Tail(input) /\ writerPc' = "handle"
    /\ late' = IF alive THEN late ELSE late + 1
    /\ UNCHANGED <<otherThanWriter, tty, old, alive, modeVars, menuActive, rest, wrapped>>

\* The key has been handled, or it raised, as every use of the line or of the screen may:
\* the bare except ends the thread.
Handled(ok) ==
    /\ writerPc' = IF ok THEN "loop" ELSE "done"
    /\ alive' = (alive /\ ok)
    /\ menuActive' = (~menuActive /\ key = "menu") /\ key' = "other"

\* Keys outside of the menu
MenuKey ==
    /\ writerPc = "handle" /\ ~menuActive /\ key = "menu"
    /\ Handled(TRUE)
    /\ UNCHANGED <<otherThanWriter, ttyVars, modeVars, rest, late, wrapped>>

\* stop(), and break
ExitKey ==
    /\ writerPc = "handle" /\ ~menuActive /\ key = "exit"
    /\ alive' = FALSE /\ writerPc' = "done"
    /\ UNCHANGED <<otherThanWriter, ttyVars, modeVars, key, menuActive, rest, late, wrapped>>

SendKey(ok) ==
    /\ writerPc = "handle" /\ ~menuActive /\ key \notin {"menu", "exit"}
    /\ ok => port
    /\ Handled(ok)
    /\ UNCHANGED <<otherThanWriter, ttyVars, modeVars, rest, late, wrapped>>

\* Keys of the menu
Menu(keys) == writerPc = "handle" /\ menuActive /\ key \in keys

\* The menu or exit character itself is sent; RTS, DTR and BREAK are set on the port.
MenuPort(ok) ==
    /\ Menu({"menu", "exit", "line"})
    /\ ok => port
    /\ Handled(ok)
    /\ UNCHANGED <<otherThanWriter, ttyVars, modeVars, rest, late, wrapped>>

\* dump_port_settings() names the mode by its number, and raises when it has no name.
DumpOk == reprMode \in REPR_MODES

\* A change of the port's settings and their dump; on a line that fails it may raise or not.
MenuInfo(ok) ==
    /\ Menu({"info", "settings"}) /\ (ok => DumpOk) /\ Handled(ok)
    /\ UNCHANGED <<otherThanWriter, ttyVars, modeVars, rest, late, wrapped>>

\* Echo, help, and "unknown menu character"
MenuOther(ok) ==
    /\ Menu({"newline", "other"})
    /\ Handled(ok)
    /\ UNCHANGED <<otherThanWriter, ttyVars, modeVars, rest, late, wrapped>>

\* Mutated form: the modes are cycled downwards.
MutMenuRepr ==
    /\ Menu({"repr"}) /\ writerPc' = "wrapRepr"
    /\ reprMode' = IF reprMode = 0 THEN 3 ELSE reprMode - 1
    /\ wrapped' = (wrapped \/ reprMode' \notin REPR_MODES)
    /\ UNCHANGED <<otherThanWriter, ttyVars, alive, convertOutgoing, newline, key, menuActive,
                   rest, late>>

\* Ctrl+A: repr_mode += 1 ...
MenuRepr ==
    /\ Menu({"repr"}) /\ writerPc' = "wrapRepr"
    /\ reprMode' = reprMode + 1
    /\ wrapped' = (wrapped \/ reprMode' \notin REPR_MODES)
    /\ UNCHANGED <<otherThanWriter, ttyVars, alive, convertOutgoing, newline, key, menuActive,
                   rest, late>>

\* ... and then if repr_mode > 3: repr_mode = 0.
WrapRepr(ok) ==
    /\ writerPc = "wrapRepr" /\ Handled(ok)
    /\ reprMode' = IF reprMode > 3 THEN 0 ELSE reprMode
    /\ UNCHANGED <<otherThanWriter, ttyVars, convertOutgoing, newline, rest, late, wrapped>>

\* Ctrl+L: convert_outgoing likewise ...
MenuLineFeed ==
    /\ Menu({"linefeed"}) /\ writerPc' = "wrapLineFeed"
    /\ convertOutgoing' = convertOutgoing + 1
    /\ UNCHANGED <<otherThanWriter, ttyVars, alive, reprMode, newline, key, menuActive, rest,
                   late, wrapped>>

\* Mutated form: the counter is put back one too late.
MutWrapLineFeed(ok) ==
    /\ writerPc = "wrapLineFeed" /\ Handled(ok)
    /\ convertOutgoing' = IF convertOutgoing > 3 THEN 0 ELSE convertOutgoing
    /\ newline' = convertOutgoing'
    /\ UNCHANGED <<otherThanWriter, ttyVars, reprMode, rest, late, wrapped>>

\* ... and newline, which only the writer reads, follows.
WrapLineFeed(ok) ==
    /\ writerPc = "wrapLineFeed" /\ Handled(ok)
    /\ convertOutgoing' = IF convertOutgoing > 2 THEN 0 ELSE convertOutgoing
    /\ newline' = convertOutgoing'
    /\ UNCHANGED <<otherThanWriter, ttyVars, reprMode, rest, late, wrapped>>

\* Ctrl+U and b ask the user, for whom the console is put back to its old mode.
MenuPrompt ==
    /\ Menu({"upload", "baud"}) /\ writerPc' = "prompt" /\ Cleanup
    /\ UNCHANGED <<otherThanWriter, alive, modeVars, key, menuActive, rest, late, wrapped>>

\* The question cannot be shown.
PromptRaise ==
    /\ Menu({"upload", "baud"}) /\ Handled(FALSE)
    /\ UNCHANGED <<otherThanWriter, ttyVars, modeVars, rest, late, wrapped>>

\* No file was named, the file cannot be opened, or the rate is not a number.
PromptRefused ==
    /\ writerPc = "prompt" /\ Setup /\ Handled(TRUE)
    /\ UNCHANGED <<otherThanWriter, modeVars, rest, late, wrapped>>

\* A rate was given.
PromptBaud ==
    /\ writerPc = "prompt" /\ key = "baud" /\ DumpOk /\ Setup /\ Handled(TRUE)
    /\ UNCHANGED <<otherThanWriter, modeVars, rest, late, wrapped>>

\* An exception that no answer is expected to raise leaves the tty as it is.
PromptDies ==
    /\ writerPc = "prompt" /\ Handled(FALSE)
    /\ UNCHANGED <<otherThanWriter, ttyVars, modeVars, rest, late, wrapped>>

PromptFile(f) ==
    /\ writerPc = "prompt" /\ key = "upload" /\ writerPc' = "upload" /\ rest' = f
    /\ UNCHANGED <<otherThanWriter, ttyVars, alive, modeVars, key, menuActive, late, wrapped>>

\* A line without text ends the file for the loop, like its end.
FileEnds == rest # <<>> => Head(rest) = "blank"

UploadLine ==
    /\ writerPc = "upload" /\ ~FileEnds /\ port /\ rest' = Tail(rest)
    /\ UNCHANGED <<otherThanWriter, ttyVars, alive, modeVars, writerPc, key, menuActive, late,
                   wrapped>>

\* The end of the upload, or an error of the line: as an IOError the upload takes it for one
\* of the file.
UploadEnd ==
    /\ writerPc = "upload" /\ (FileEnds \/ ~port)
    /\ Setup /\ Handled(TRUE) /\ rest' = <<>>
    /\ UNCHANGED <<otherThanWriter, modeVars, late, wrapped>>

\* Any other exception, or one of the screen while the error is reported, leaves the tty as
\* it is.
UploadRaise ==
    /\ writerPc = "upload"
    /\ Handled(FALSE) /\ rest' = <<>>
    /\ UNCHANGED <<otherThanWriter, ttyVars, modeVars, late, wrapped>>

\* What the writer does without waiting for the user
WriterRuns ==
    \/ WriterTop \/ WriterGetKey \/ MenuKey \/ ExitKey
    \/ \E ok \in BOOLEAN : \/ SendKey(ok) \/ MenuPort(ok) \/ MenuInfo(ok) \/ MenuOther(ok)
                          \/ WrapRepr(ok) \/ WrapLineFeed(ok)
    \/ MenuRepr \/ MenuLineFeed
    \/ MenuPrompt \/ PromptRaise \/ UploadLine \/ UploadEnd \/ UploadRaise

Answer ==
    \/ PromptRefused \/ PromptBaud \/ PromptDies
    \/ \E f \in Files : PromptFile(f)

-----------------------------------------------------------------------------
Next == Main \/ Reader \/ WriterRuns \/ Answer \/ Unplug \/ \E k \in Key : Type(k)

Spec == Init /\ [][Next]_vars

\* Threads are scheduled and a read of the line times out; nobody has to type, to answer
\* a prompt, or to unplug the line.
Fairness == WF_vars(Main) /\ WF_vars(Reader) /\ WF_vars(WriterRuns)

FairSpec == Spec /\ Fairness

-----------------------------------------------------------------------------
(* Properties *)

TypeOK ==
    /\ port \in BOOLEAN /\ input \in Seq(Key) /\ typed \in 0..MaxKeys
    /\ tty \in {"raw", "cooked"} /\ old \in {"raw", "cooked"}
    /\ alive \in BOOLEAN /\ menuActive \in BOOLEAN /\ wrapped \in BOOLEAN
    /\ reprMode \in Nat /\ convertOutgoing \in 0..3 /\ newline \in 0..2
    /\ mainPc \in {"open", "writer", "join", "joinBoth", "exited"}
    /\ readerPc \in {"unborn", "loop", "read", "test0", "test1", "test2", "test3", "raw",
                     "crlf", "lf", "cr", "escape", "hex", "drop", "done"}
    /\ data \in {"none", "cr", "lf", "text"}
    /\ shown \in {"none", "as is", "newline", "swallowed", "escaped", "hex", "nothing"}
    /\ writerPc \in {"unborn", "loop", "getkey", "handle", "wrapRepr", "wrapLineFeed",
                     "prompt", "upload", "done"}
    /\ key \in Key /\ rest \in Seq({"text", "blank"}) /\ late \in Nat

\* A received character is displayed in some way although the reader tests the mode up to
\* four times while the writer changes it; it can only be dropped when the mode was
\* beyond the last one meanwhile.
ShownUnlessWrapped == readerPc = "drop" \/ shown = "nothing" => wrapped

\* The tty is raw whenever a key is waited for and has its first mode when the program has
\* ended, whatever prompts, uploads and exceptions came in between.
TtyModes ==
    /\ writerPc = "getkey" => tty = "raw"
    /\ mainPc = "exited" => tty = "cooked"

\* When the session has ended (alive is false: the exit key, or an exception that the
\* thread it ended has caught) the writer, which may wait for a key by then, obeys that key
\* and no other.  A reader that ends by anything but a SerialException ends nothing: the
\* writer goes on without it, and the property says nothing of its keys.
OneKeyAfterEnd == late <= 1

WaitsForUser == writerPc = "prompt" \/ (writerPc = "getkey" /\ input = <<>>)

\* Once the exit key was taken or the line has failed, the program ends, unless
\* the writer waits for the user ("would be nice if the console reader could be
\* interruptted", in reader).
EndsUnlessWaiting == (mainPc = "join" /\ ~(alive /\ port)) ~> (mainPc = "exited" \/ WaitsForUser)
=============================================================================
