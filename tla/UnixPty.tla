------------------------------ MODULE UnixPty ------------------------------
(***************************************************************************)
(* The terminals of one Vim on Unix and the programs behind their ptys:    *)
(* ConqueSubprocess, and the parts of Conque that read, write, poll and    *)
(* signal through it.  Vim runs one call at a time and is blocked in it;   *)
(* the programs and the rest of the machine run beside it, also between    *)
(* two slices of one read and two keys of one write.  Which calls come is  *)
(* the matter of ConqueTerm; here any call may come for any terminal that  *)
(* was opened.                                                             *)
(*                                                                         *)
(* Output is bytes: "a" is a character, "h" "t" a character of two bytes,  *)
(* "E" "F" an escape sequence.  A key is a record of where and when it was *)
(* typed; an odd one has a number that unichr() refuses.                   *)
(***************************************************************************)
EXTENDS Integers, Sequences, FiniteSets

CONSTANTS Terms,     \* terminals
          Pids,      \* process numbers of the machine
          MaxEvents, \* bound: programs started and ended, other processes started, keys
                     \* typed and bytes sent, all together; and keys written again
          InRoom, OutRoom,    \* what a pty holds in either direction
          Slices,    \* size of the first, second, ... slice of a read (32, 512, 2048)
          Buffered   \* g:ConqueTerm_InsertCharPre: characters are not written when typed

ASSUME UnixPtyAssumption ==
    /\ Pids \subseteq Nat \ {0} /\ MaxEvents \in Nat
    /\ InRoom \in Nat \ {0} /\ OutRoom \in Nat \ {0}
    /\ Slices \in Seq(Nat \ {0}) /\ Slices # <<>> /\ Buffered \in BOOLEAN

VARIABLES program, pid,    \* of each terminal
          strangers,       \* numbers of processes that are no terminal's program
          foundDead,       \* is_alive() has said that the program is dead
          struck,          \* history: what a signal of the terminal has struck beside it
          events, typed,   \* number of events so far, and of keys typed
          classBuffer,     \* Conque.input_buffer, the list of the class
          rebound, buffer, \* the terminal has a list of its own, and that list
          inPty, written,  \* keys that wait in the pty; history: all keys written to it
          outPty, sent,    \* bytes that wait in the pty; history: all bytes sent
          shown,           \* history: how the bytes were played
          spoilt,          \* history: a slice ended in a character or a read in a sequence,
                           \* playing raised, or what was sent was no utf-8
          at, term,        \* "idle", or where Vim's call is, and for which terminal
          polling,         \* the call is auto_read, before its check
          todo,            \* keys the call has yet to write
          readCt, output   \* of the call of read

procVars  == <<program, pid, strangers, foundDead, struck>>
listVars  == <<typed, classBuffer, rebound, buffer>>
inVars    == <<inPty, written>>
outVars   == <<outPty, sent, shown, spoilt>>
readVars  == <<readCt, output>>
callVars  == <<at, term, polling, todo, readVars>>
vars      == <<events, procVars, listVars, inVars, outVars, callVars>>

Opened(i) == program[i] # "none"

\* A signal to its own group ends Vim, and with it what this module is about.
Event == events < MaxEvents /\ at # "dead" /\ events' = events + 1

Init ==
    /\ program = [i \in Terms |-> "none"] /\ pid = [i \in Terms |-> 0]
    /\ strangers = {} /\ foundDead = [i \in Terms |-> FALSE] /\ struck = [i \in Terms |-> {}]
    /\ events = 0 /\ typed = 0 /\ classBuffer = <<>> /\ rebound = [i \in Terms |-> FALSE]
    /\ buffer = [i \in Terms |-> <<>>]
    /\ inPty = [i \in Terms |-> 0] /\ written = [i \in Terms |-> <<>>]
    /\ outPty = [i \in Terms |-> <<>>] /\ sent = [i \in Terms |-> <<>>]
    /\ shown = [i \in Terms |-> <<>>] /\ spoilt = [i \in Terms |-> FALSE]
    /\ at = "idle" /\ term \in Terms /\ polling = FALSE /\ todo = <<>>
    /\ readCt = 0 /\ output = <<>>

-----------------------------------------------------------------------------
(* Processes and signals.                                                    *)

\* A program that has ended keeps its number until is_alive() has waited for it.
Holds(i, p) == program[i] \in {"runs", "zombie"} /\ pid[i] = p

Free(p) == p \notin strangers /\ \A i \in Terms : ~Holds(i, p)

\* Whom a signal of terminal i strikes beside its own program: with the number 0, the
\* process group of Vim.
Struck(i) ==
    IF pid[i] = 0 THEN {"group"}
    ELSE IF pid[i] \in strangers \/ \E j \in Terms \ {i} : Holds(j, pid[i]) THEN {"other"}
    ELSE {}

Signal(i) == struck' = [struck EXCEPT ![i] = @ \cup Struck(i)]

\* open(): nobody looks whether the fork has failed.
Open(i, p) ==
    /\ Event /\ at = "idle" /\ ~Opened(i) /\ p \in Pids /\ Free(p)
    /\ program' = [program EXCEPT ![i] = "runs"] /\ pid' = [pid EXCEPT ![i] = p]
    /\ UNCHANGED <<strangers, foundDead, struck, listVars, inVars, outVars, callVars>>

OpenFails(i) ==
    /\ Event /\ at = "idle" /\ ~Opened(i)
    /\ program' = [program EXCEPT ![i] = "failed"]
    /\ UNCHANGED <<pid, strangers, foundDead, struck, listVars, inVars, outVars, callVars>>

\* A program ends; with it what waits to be read by it.
Exit(i) ==
    /\ Event /\ program[i] = "runs"
    /\ program' = [program EXCEPT ![i] = "zombie"] /\ inPty' = [inPty EXCEPT ![i] = 0]
    /\ UNCHANGED <<pid, strangers, foundDead, struck, listVars, written, outVars, callVars>>

\* Another process of the machine starts.
StrangerStarts(p) ==
    /\ Event /\ Free(p) /\ strangers' = strangers \cup {p}
    /\ UNCHANGED <<program, pid, foundDead, struck, listVars, inVars, outVars, callVars>>

\* abort(), from close() of the terminal
Abort(i) ==
    /\ at = "idle" /\ Opened(i) /\ Signal(i)
    /\ at' = IF pid[i] = 0 THEN "dead" ELSE at
    /\ UNCHANGED <<events, program, pid, strangers, foundDead, listVars, inVars, outVars,
                   term, polling, todo, readVars>>

\* update_window_size: without a pty the ioctl raises before the signal.
Resize(i) ==
    /\ at = "idle" /\ Opened(i) /\ pid[i] # 0 /\ Signal(i)
    /\ UNCHANGED <<events, program, pid, strangers, foundDead, listVars, inVars, outVars,
                   callVars>>

-----------------------------------------------------------------------------
(* Keys.                                                                     *)

Key(i, direct, odd) ==
    [n |-> typed + 1, home |-> i, direct |-> direct, early |-> ~rebound[i], odd |-> odd]

Waiting(i) == IF rebound[i] THEN buffer[i] ELSE classBuffer

\* Mutated form: the list of the class is used by name.
MutTypeBuffered(i, odd) ==
    /\ Event /\ at = "idle" /\ Opened(i) /\ Buffered
    /\ typed' = typed + 1 /\ classBuffer' = Append(classBuffer, Key(i, FALSE, odd))
    /\ UNCHANGED <<procVars, rebound, buffer, inVars, outVars, callVars>>

\* write_buffered_ord: until auto_read has given the terminal a list of its own, the
\* list is that of all terminals.
TypeBuffered(i, odd) ==
    /\ Event /\ at = "idle" /\ Opened(i) /\ Buffered
    /\ typed' = typed + 1
    /\ IF rebound[i]
       THEN buffer' = [buffer EXCEPT ![i] = Append(@, Key(i, FALSE, odd))] /\ UNCHANGED classBuffer
       ELSE classBuffer' = Append(classBuffer, Key(i, FALSE, odd)) /\ UNCHANGED buffer
    /\ UNCHANGED <<procVars, rebound, inVars, outVars, callVars>>

\* write_ord, of a key that is mapped: every key, or Enter and the like; their numbers
\* are below 256.
TypeDirect(i) ==
    /\ Event /\ at = "idle" /\ Opened(i)
    /\ typed' = typed + 1
    /\ at' = "write" /\ term' = i /\ todo' = <<Key(i, TRUE, FALSE)>>
    /\ UNCHANGED <<procVars, classBuffer, rebound, buffer, inVars, outVars, polling,
                   readVars>>

\* Mutated form: a full pty is written over.
MutWriteKey ==
    /\ at = "write" /\ todo # <<>> /\ ~Head(todo).odd
    /\ inPty' = IF program[term] = "runs" THEN [inPty EXCEPT ![term] = @ + 1] ELSE inPty
    /\ written' = [written EXCEPT ![term] = Append(@, Head(todo))] /\ todo' = Tail(todo)
    /\ UNCHANGED <<events, procVars, listVars, outVars, at, term, polling, readVars>>

\* A write blocks while the pty is full; without a program, or a pty, it is for nothing.
WriteKey ==
    /\ at = "write" /\ todo # <<>> /\ ~Head(todo).odd
    /\ program[term] = "runs" => inPty[term] < InRoom
    /\ inPty' = IF program[term] = "runs" THEN [inPty EXCEPT ![term] = @ + 1] ELSE inPty
    /\ written' = [written EXCEPT ![term] = Append(@, Head(todo))] /\ todo' = Tail(todo)
    /\ UNCHANGED <<events, procVars, listVars, outVars, at, term, polling, readVars>>

\* An odd key raises, and the poll is over before the list is made new.
WriteRaises ==
    /\ at = "write" /\ todo # <<>> /\ Head(todo).odd
    /\ at' = "idle" /\ polling' = FALSE /\ todo' = <<>>
    /\ UNCHANGED <<events, procVars, listVars, inVars, outVars, term, readVars>>

\* Mutated form: what was written stays in the list.
MutWritten ==
    /\ at = "write" /\ todo = <<>> /\ at' = "read"
    /\ UNCHANGED <<events, procVars, listVars, inVars, outVars, term, polling, todo,
                   readVars>>

\* All is written; auto_read then makes a new list, for this terminal.
Written ==
    /\ at = "write" /\ todo = <<>> /\ at' = "read"
    /\ IF polling
       THEN rebound' = [rebound EXCEPT ![term] = TRUE] /\ buffer' = [buffer EXCEPT ![term] = <<>>]
       ELSE UNCHANGED <<rebound, buffer>>
    /\ UNCHANGED <<events, procVars, typed, classBuffer, inVars, outVars, term, polling,
                   todo, readVars>>

\* A program takes a key; as it answers, it takes none while the pty is full.
Take(i) ==
    /\ program[i] = "runs" /\ inPty[i] > 0 /\ Len(outPty[i]) < OutRoom
    /\ inPty' = [inPty EXCEPT ![i] = @ - 1]
    /\ UNCHANGED <<events, procVars, listVars, written, outVars, callVars>>

-----------------------------------------------------------------------------
(* Output.                                                                   *)

Last(s) == IF s = <<>> THEN "a" ELSE s[Len(s)]

\* The second half of a character or sequence follows the first.
Follows(b, s) ==
    IF Last(s) = "h" THEN b = "t" ELSE IF Last(s) = "E" THEN b = "F" ELSE b \in {"a", "h", "E"}

\* A program sends what it likes.
Send(i, b) ==
    /\ Event /\ program[i] = "runs"
    /\ spoilt' = [spoilt EXCEPT ![i] = @ \/ ~Follows(b, sent[i])]
    /\ Len(outPty[i]) < OutRoom
    /\ outPty' = [outPty EXCEPT ![i] = Append(@, b)] /\ sent' = [sent EXCEPT ![i] = Append(@, b)]
    /\ UNCHANGED <<procVars, listVars, inVars, shown, callVars>>

\* Each slice is decoded by itself.
Decodes(s) ==
    \A k \in DOMAIN s :
        /\ s[k] = "h" => k < Len(s) /\ s[k + 1] = "t"
        /\ s[k] = "t" => k > 1 /\ s[k - 1] = "h"

\* Conque.read obeys the sequences of its output; what is left of one is text ("?").
Played(s) ==
    [k \in DOMAIN s |->
        IF \/ s[k] = "E" /\ ~(k < Len(s) /\ s[k + 1] = "F")
           \/ s[k] = "F" /\ ~(k > 1 /\ s[k - 1] = "E")
        THEN "?" ELSE s[k]]

\* Where playing may stop: between two characters or sequences
Stops(s) ==
    {k \in 0..Len(s) :
        0 < k /\ k < Len(s) => <<s[k], s[k + 1]>> \notin {<<"h", "t">>, <<"E", "F">>}}

\* Mutated form: the last slice is not added to the output.
MutReturns(s, cut) ==
    /\ at' = IF polling THEN "check" ELSE "idle"
    /\ shown' = [shown EXCEPT ![term] = @ \o Played(output)]
    /\ spoilt' = [spoilt EXCEPT ![term] = @ \/ cut]
    /\ readCt' = 0 /\ output' = <<>>

\* ConqueSubprocess.read returns s, and Conque.read plays it.  What raises in playing ends
\* it, and the rest is dropped.
Returns(s, cut) ==
    /\ at' = IF polling THEN "check" ELSE "idle"
    /\ \E k \in Stops(s) :
          /\ shown' = [shown EXCEPT ![term] = @ \o SubSeq(Played(s), 1, k)]
          /\ spoilt' = [spoilt EXCEPT ![term] = @ \/ cut \/ k < Len(s)]
    /\ readCt' = 0 /\ output' = <<>>

\* Mutated form: without output the loop goes on, as b'' == '' is false.
MutReadEmpty == at = "read" /\ outPty[term] = <<>> /\ UNCHANGED vars

\* select() times out.
ReadEmpty ==
    /\ at = "read" /\ outPty[term] = <<>> /\ Returns(output, Last(output) = "E")
    /\ UNCHANGED <<events, procVars, listVars, inVars, outPty, sent, term, polling, todo>>

\* One slice; the last one of a read ends it, and so does one that cannot be decoded,
\* which is dropped.
ReadSlice ==
    /\ at = "read" /\ outPty[term] # <<>>
    /\ LET room  == Slices[readCt + 1]
           n     == IF Len(outPty[term]) < room THEN Len(outPty[term]) ELSE room
           slice == SubSeq(outPty[term], 1, n)
           all   == output \o slice
           ends  == ~Decodes(slice) \/ readCt + 1 = Len(Slices)
           cut   == Last(slice) = "h" \/ (ends /\ Last(slice) = "E")
       IN  /\ outPty' = [outPty EXCEPT ![term] = SubSeq(@, n + 1, Len(@))]
           /\ IF ends THEN Returns(IF Decodes(slice) THEN all ELSE output, cut)
              ELSE /\ output' = all /\ readCt' = readCt + 1
                   /\ spoilt' = [spoilt EXCEPT ![term] = @ \/ cut]
                   /\ UNCHANGED <<at, shown>>
    /\ UNCHANGED <<events, procVars, listVars, inVars, sent, term, polling, todo>>

-----------------------------------------------------------------------------
(* Polling.                                                                  *)

\* auto_read begins with the keys that wait.
AutoRead(i) ==
    /\ at = "idle" /\ Opened(i) /\ term' = i /\ polling' = TRUE
    /\ Len(written[i]) + Len(Waiting(i)) <= MaxEvents
    /\ at' = IF Waiting(i) = <<>> THEN "check" ELSE "write"
    /\ todo' = Waiting(i)
    /\ UNCHANGED <<events, procVars, listVars, inVars, outVars, readVars>>

\* Not every poll looks for the program's death; one that does not, or finds it alive,
\* reads.  waitpid of 0 speaks of any other child of Vim.
FindsAlive ==
    /\ at = "check" /\ at' = "read" /\ polling' = FALSE
    /\ UNCHANGED <<events, procVars, listVars, inVars, outVars, term, todo, readVars>>

\* Mutated form: the program is waited for, but not reported dead.
MutFindsDead ==
    /\ at = "check" /\ program[term] # "runs" /\ at' = "closing" /\ polling' = FALSE
    /\ program' = [program EXCEPT ![term] = IF @ = "zombie" THEN "reaped" ELSE @]
    /\ UNCHANGED <<events, pid, strangers, foundDead, struck, listVars, inVars, outVars,
                   term, todo, readVars>>

FindsDead ==
    /\ at = "check" /\ program[term] # "runs" /\ at' = "closing" /\ polling' = FALSE
    /\ program' = [program EXCEPT ![term] = IF @ = "zombie" THEN "reaped" ELSE @]
    /\ foundDead' = [foundDead EXCEPT ![term] = TRUE]
    /\ UNCHANGED <<events, pid, strangers, struck, listVars, inVars, outVars, term, todo,
                   readVars>>

\* close() of the terminal signals the program that was found dead.
Closing ==
    /\ at = "closing" /\ Signal(term)
    /\ at' = IF pid[term] = 0 THEN "dead" ELSE "idle"
    /\ UNCHANGED <<events, program, pid, strangers, foundDead, listVars, inVars, outVars,
                   term, polling, todo, readVars>>

-----------------------------------------------------------------------------
Call ==
    \/ WriteKey \/ WriteRaises \/ Written
    \/ ReadEmpty \/ ReadSlice
    \/ FindsAlive \/ FindsDead \/ Closing

Next ==
    \/ Call
    \/ \E i \in Terms :
          \/ OpenFails(i) \/ Exit(i) \/ Abort(i) \/ Resize(i) \/ Take(i) \/ AutoRead(i)
          \/ TypeDirect(i)
          \/ \E odd \in BOOLEAN : TypeBuffered(i, odd)
          \/ \E p \in Pids : Open(i, p)
          \/ \E b \in {"a", "h", "t", "E", "F"} : Send(i, b)
    \/ \E p \in Pids : StrangerStarts(p)

Spec == Init /\ [][Next]_vars

\* Vim goes on with its call while it can; of the programs nothing is assumed.
FairSpec == Spec /\ WF_vars(Call)

-----------------------------------------------------------------------------
(* Properties *)

Keys == [n : 1..MaxEvents, home : Terms, direct : BOOLEAN, early : BOOLEAN, odd : BOOLEAN]
Bytes == {"a", "h", "t", "E", "F"}

TypeOK ==
    /\ program \in [Terms -> {"none", "failed", "runs", "zombie", "reaped"}]
    /\ pid \in [Terms -> Pids \cup {0}] /\ strangers \subseteq Pids
    /\ foundDead \in [Terms -> BOOLEAN] /\ struck \in [Terms -> SUBSET {"group", "other"}]
    /\ events \in 0..MaxEvents /\ typed \in 0..events
    /\ classBuffer \in Seq(Keys) /\ rebound \in [Terms -> BOOLEAN]
    /\ buffer \in [Terms -> Seq(Keys)] /\ written \in [Terms -> Seq(Keys)]
    /\ inPty \in [Terms -> 0..InRoom]
    /\ outPty \in [Terms -> Seq(Bytes)] /\ sent \in [Terms -> Seq(Bytes)]
    /\ shown \in [Terms -> Seq(Bytes \cup {"?"})] /\ spoilt \in [Terms -> BOOLEAN]
    /\ at \in {"idle", "write", "read", "check", "closing", "dead"} /\ term \in Terms
    /\ polling \in BOOLEAN /\ todo \in Seq(Keys)
    /\ readCt \in 0..Len(Slices) - 1 /\ output \in Seq(Bytes)

\* What the program sends, as utf-8, is shown, once, in order, and its sequences obeyed,
\* unless a slice ended inside a character, a read inside a sequence, or playing raised.
OutputWhole ==
    \A i \in Terms : ~spoilt[i] =>
        shown[i] \o (IF i = term THEN output ELSE <<>>) \o outPty[i] = sent[i]

\* A key reaches another terminal than the one it was typed in only when it was put in
\* the list of the class, before its own terminal wrote a key from there.
KeysStrayOnlyEarly ==
    \A i \in Terms : \A x \in DOMAIN written[i] :
        LET k == written[i][x] IN k.home = i \/ (k.early /\ ~k.direct)

NoneOdd(s) == \A x \in DOMAIN s : ~s[x].odd

\* The keys of a terminal that are written, being written, and waiting
Writing(i) == IF at = "write" /\ i = term THEN todo ELSE <<>>
Line(i) ==
    written[i] \o Writing(i) \o
        (IF at = "write" /\ i = term /\ polling THEN <<>> ELSE Waiting(i))

\* Every key typed is written to its terminal or waits to be, and written once unless an
\* odd one waits; Enter and other mapped keys overtake the characters that wait, but keys
\* of one kind keep their order.
KeysOnceInOrder ==
    /\ \A i \in Terms : NoneOdd(Waiting(i)) => \A x, y \in DOMAIN Line(i) :
          LET k == Line(i)[x]
              l == Line(i)[y]
          IN  x < y /\ k.home = i /\ l.home = i /\ k.direct = l.direct => k.n < l.n
    /\ \A n \in 1..typed : \E i \in Terms : \E x \in DOMAIN Line(i) :
          Line(i)[x].n = n /\ Line(i)[x].home = i

\* The signals of a terminal strike another process only after its program was found
\* dead, and Vim itself only after a fork that failed.
StrayOnlyAfterDeath ==
    /\ \A i \in Terms : "other" \in struck[i] => foundDead[i]
    /\ \A i \in Terms : "group" \in struck[i] => program[i] = "failed"

\* Vim writes to a program whose pty is full.
Blocked ==
    /\ at = "write" /\ todo # <<>> /\ ~Head(todo).odd
    /\ program[term] = "runs" /\ inPty[term] = InRoom

\* Vim's call returns, unless a program that runs takes no key for ever.
CallsReturn == at \notin {"idle", "dead"} ~> (at \in {"idle", "dead"} \/ []Blocked)
=============================================================================
