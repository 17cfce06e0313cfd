---------------------------- MODULE SoleControl ----------------------------
(***************************************************************************)
(* Life cycle and commands of a Windows terminal: Vim posts idle, resume   *)
(* and close in a mailbox that holds one command, a later one overwriting  *)
(* an earlier one; the communicator starts the program, looks at the       *)
(* mailbox and at the program's health from time to time, publishes        *)
(* whether the terminal is alive in the "stats" block, and ends by killing *)
(* every process that a list of its console names and then itself.  A step *)
(* of the communicator is what it does between two accesses to shared      *)
(* memory or two calls that list or end processes.                         *)
(***************************************************************************)
EXTENDS Naturals

CONSTANTS PollEvery,   \* the command is polled every so many loops (25)
          ListSize,    \* room in the console's process list (10)
          MaxOthers,   \* bound: processes the program starts in its console
          MaxPosts     \* bound: commands posted by Vim

ASSUME SoleControlAssumption ==
    /\ PollEvery \in Nat \ {0}
    /\ ListSize \in Nat /\ MaxOthers \in Nat /\ MaxPosts \in Nat

Command == {"idle", "resume", "close"}

VARIABLES shmCommand,  \* the command mailbox, "none" when clear
          shmAlive,    \* is_alive in the stats block, "none" when clear
          vimPc,       \* Vim: "boot" until wrapper.open returns, then "ready"
          posted,      \* commands posted, for the bound
          last,        \* history: the last command posted
          late,        \* history: Vim cleared the stats after they were written
          commPc,      \* where the communicator is
          isIdle,      \* main loop: is_idle
          loops,       \* main loop: loops % PollEvery
          shadowed,    \* the attribute is_alive was set to False over the method
          firstRead,   \* screen_redraw_ct = 0: no read has completed
          statsReady,  \* the communicator has opened the stats block
          child,       \* the program: "none", "running", "dead", "unlaunched"
          attached,    \* AttachConsole succeeded
          others,      \* other processes in the program's console
          childListed, \* close: the program is listed and not yet handled
          othersListed,\* close: the others that are listed and not yet handled
          escaped      \* history: processes that started after the list was taken or could
                       \* not be ended, counted up to MaxOthers + 1

shmVars  == <<shmCommand, shmAlive>>
vimVars  == <<vimPc, posted, last, late>>
commVars == <<commPc, isIdle, loops, shadowed, firstRead, statsReady>>
progVars == <<child, attached, others>>
listVars == <<childListed, othersListed, escaped>>
notComm  == <<vimVars, progVars, listVars>>
vars     == <<shmVars, vimVars, commVars, progVars, listVars>>

Procs == (IF child = "running" THEN 1 ELSE 0) + others

InLoop == commPc \in {"top", "health", "poll", "pollClear", "read", "check",
                      "checkClear", "stats"}

-----------------------------------------------------------------------------
Init ==
    /\ shmCommand = "none" /\ shmAlive = "none"
    /\ vimPc = "boot" /\ posted = 0 /\ last = "none" /\ late = FALSE
    /\ commPc = "start" /\ isIdle = FALSE /\ loops = 0
    /\ shadowed = FALSE /\ firstRead = TRUE /\ statsReady = FALSE
    /\ child = "none" /\ attached = FALSE /\ others = 0
    /\ childListed = FALSE /\ othersListed = 0 /\ escaped = 0

(* Vim *)

\* wrapper.open, after CreateProcess: the wrapper clears its blocks.  Only Vim
\* writes the command mailbox, which is still clear.
VimOpen ==
    /\ vimPc = "boot"
    /\ vimPc' = "ready"
    /\ late' = (shmAlive # "none")
    /\ shmAlive' = "none"
    /\ shmCommand' = "none"
    /\ UNCHANGED <<posted, last, commVars, progVars, listVars>>

\* wrapper.idle, resume and close: the mailbox is overwritten.
Post(c) ==
    /\ vimPc = "ready"
    /\ posted < MaxPosts
    /\ posted' = posted + 1
    /\ shmCommand' = c
    /\ last' = c
    /\ UNCHANGED <<vimPc, late, shmAlive, commVars, progVars, listVars>>

VimIdle   == Post("idle")
VimResume == Post("resume")
VimClose  == Post("close")

(* The program *)

\* One more process that the close will not end.
Escape == escaped' = IF escaped <= MaxOthers THEN escaped + 1 ELSE escaped

ProgramExit ==
    /\ child = "running"
    /\ child' = "dead" /\ childListed' = FALSE
    /\ UNCHANGED <<attached, others, othersListed, escaped, shmVars, vimVars, commVars>>

ProgramSpawn ==
    /\ Procs > 0 /\ others < MaxOthers
    /\ others' = others + 1
    /\ IF commPc \in {"terminate", "exited"} THEN Escape ELSE UNCHANGED escaped
    /\ UNCHANGED <<child, attached, childListed, othersListed, shmVars, vimVars, commVars>>

\* A listed one, or one that is not.
OtherExit ==
    /\ others > 0
    /\ others' = others - 1
    /\ othersListed' \in {othersListed, othersListed - 1} \cap (0..others')
    /\ UNCHANGED <<child, attached, childListed, escaped, shmVars, vimVars, commVars>>

-----------------------------------------------------------------------------
(* The communicator: starting *)

Goto(pc) == commPc' = pc

\* "set initial idle status": read, and clear when it was idle.
CommStart ==
    /\ commPc = "start"
    /\ isIdle' = (shmCommand = "idle")
    /\ Goto(IF shmCommand = "idle" THEN "startClear" ELSE "open")
    /\ UNCHANGED <<loops, shadowed, firstRead, statsReady, shmVars, notComm>>

CommStartClear ==
    /\ commPc = "startClear"
    /\ shmCommand' = "none"
    /\ Goto("open")
    /\ UNCHANGED <<isIdle, loops, shadowed, firstRead, statsReady, shmAlive, notComm>>

\* proc.open up to the shared memory.  The result of CreateProcessW is not looked
\* at.  A call of AttachConsole that fails raises nothing, so the loop that was to
\* repeat it leaves after the first try.
CommOpen ==
    /\ commPc = "open"
    /\ child' \in {"running", "unlaunched"}
    /\ attached' \in IF child' = "running" THEN BOOLEAN ELSE {FALSE}
    /\ Goto("init")
    /\ UNCHANGED <<others, isIdle, loops, shadowed, firstRead, statsReady, shmVars, vimVars,
                   listVars>>

\* subprocess.init_shared_memory: every block is cleared.
CommInit ==
    /\ commPc = "init"
    /\ shmAlive' = "none"
    /\ shmCommand' = "none"
    /\ statsReady' = TRUE
    /\ Goto("top")
    /\ UNCHANGED <<isIdle, loops, shadowed, firstRead, notComm>>

\* A block cannot be created: open returns False, and the exit() that follows is
\* caught by the script's bare except, which closes.
CommOpenFails ==
    /\ commPc = "init"
    /\ statsReady' \in BOOLEAN
    /\ shmAlive' = IF statsReady' THEN "none" ELSE shmAlive
    /\ Goto("close")
    /\ UNCHANGED <<isIdle, loops, shadowed, firstRead, shmCommand, notComm>>

-----------------------------------------------------------------------------
(* The communicator: main loop *)

CommTop ==
    /\ commPc = "top"
    /\ Goto(IF isIdle \/ loops = 0 THEN "health" ELSE "read")
    /\ UNCHANGED <<isIdle, loops, shadowed, firstRead, statsReady, shmVars, notComm>>

\* proc.is_alive(), in the loop and in the first read: once the attribute shadows
\* the method the call itself raises TypeError, which ends in close as well.
\* WaitForSingleObject on the handle of a program that never started fails, which
\* is not the status that means dead.
HealthOk == ~shadowed /\ child # "dead"

\* Mutated form: the health of the program is not checked.
MutCommHealth ==
    /\ commPc = "health"
    /\ Goto("poll")
    /\ UNCHANGED shadowed
    /\ UNCHANGED <<isIdle, loops, firstRead, statsReady, shmVars, notComm>>

CommHealth ==
    /\ commPc = "health"
    /\ IF HealthOk THEN Goto("poll") /\ UNCHANGED shadowed
                   ELSE Goto("close") /\ shadowed' = TRUE
    /\ UNCHANGED <<isIdle, loops, firstRead, statsReady, shmVars, notComm>>

\* Mutated form: the poll takes a close for a resume and clears it.
MutCommPoll ==
    /\ commPc = "poll"
    /\ IF shmCommand = "none"
       THEN Goto("read") /\ UNCHANGED isIdle
       ELSE Goto("pollClear") /\ isIdle' = (shmCommand = "idle")
    /\ UNCHANGED <<loops, shadowed, firstRead, statsReady, shmVars, notComm>>

\* "check for change in buffer focus": a close is left to check_commands.
CommPoll ==
    /\ commPc = "poll"
    /\ IF shmCommand \in {"idle", "resume"}
       THEN Goto("pollClear") /\ isIdle' = (shmCommand = "idle")
       ELSE Goto("read") /\ UNCHANGED isIdle
    /\ UNCHANGED <<loops, shadowed, firstRead, statsReady, shmVars, notComm>>

CommPollClear ==
    /\ commPc = "pollClear"
    /\ shmCommand' = "none"
    /\ Goto("read")
    /\ UNCHANGED <<isIdle, loops, shadowed, firstRead, statsReady, shmAlive, notComm>>

\* Mutated form: the loops are counted without end.
MutNextLoop == loops' = loops + 1

NextLoop == loops' = (loops + 1) % PollEvery

\* Mutated form: the read that found the program dead counts as completed.
MutCommRead ==
    /\ commPc = "read"
    /\ IF ~firstRead \/ HealthOk
       THEN Goto("check") /\ UNCHANGED <<shadowed, firstRead, loops, shmAlive>>
       ELSE IF shadowed
       THEN Goto("close") /\ UNCHANGED <<shadowed, firstRead, loops, shmAlive>>
       ELSE /\ shadowed' = TRUE /\ firstRead' = FALSE
            /\ shmAlive' = "no"
            /\ NextLoop /\ Goto("top")
    /\ UNCHANGED <<isIdle, statsReady, shmCommand, notComm>>

\* subprocess.read up to the command: the first one asks for the program's health,
\* and when it is dead publishes so and returns to the loop.
CommRead ==
    /\ commPc = "read"
    /\ IF ~firstRead \/ HealthOk
       THEN Goto("check") /\ UNCHANGED <<shadowed, loops, shmAlive>>
       ELSE IF shadowed
       THEN Goto("close") /\ UNCHANGED <<shadowed, loops, shmAlive>>
       ELSE /\ shadowed' = TRUE
            /\ shmAlive' = "no"
            /\ NextLoop /\ Goto("top")
    /\ UNCHANGED <<isIdle, firstRead, statsReady, shmCommand, notComm>>

\* check_commands
CommCheck ==
    /\ commPc = "check"
    /\ Goto(IF shmCommand = "close" THEN "checkClear" ELSE "stats")
    /\ UNCHANGED <<isIdle, loops, shadowed, firstRead, statsReady, shmVars, notComm>>

CommCheckClear ==
    /\ commPc = "checkClear"
    /\ shmCommand' = "none"
    /\ Goto("close")
    /\ UNCHANGED <<isIdle, loops, shadowed, firstRead, statsReady, shmAlive, notComm>>

\* The rest of read: the statistics are written and the loop goes on.
CommStats ==
    /\ commPc = "stats"
    /\ shmAlive' = "yes"
    /\ firstRead' = FALSE
    /\ NextLoop /\ Goto("top")
    /\ UNCHANGED <<isIdle, shadowed, statsReady, shmCommand, notComm>>

\* An exception while the output is written is swallowed by read: no statistics.
CommSwallow ==
    /\ commPc = "stats"
    /\ firstRead' = FALSE
    /\ NextLoop /\ Goto("top")
    /\ UNCHANGED <<isIdle, shadowed, statsReady, shmVars, notComm>>

\* An exception of check_commands or of the console calls, caught by the script's
\* bare except (SoleScreen models the resize that raises one).
CommRaise ==
    /\ commPc = "stats"
    /\ Goto("close")
    /\ UNCHANGED <<isIdle, loops, shadowed, firstRead, statsReady, shmVars, notComm>>

-----------------------------------------------------------------------------
(* The communicator: close *)

\* Mutated form: the end is not published.
MutCommClose ==
    /\ commPc = "close"
    /\ shadowed' = TRUE
    /\ Goto("kill")
    /\ UNCHANGED <<isIdle, loops, firstRead, statsReady, shmVars, notComm>>

CommClose ==
    /\ commPc = "close"
    /\ shadowed' = TRUE
    /\ shmAlive' = IF statsReady THEN "no" ELSE shmAlive
    /\ Goto("kill")
    /\ UNCHANGED <<isIdle, loops, firstRead, statsReady, shmCommand, notComm>>

\* What GetConsoleProcessList gives: nothing without a console, and nothing when
\* the list has no room for all (the communicator is in the console too).
Listed == attached /\ Procs + 1 <= ListSize

\* Mutated form: only the program itself is taken from the list.
MutCommKill ==
    /\ commPc = "kill"
    /\ childListed' = (Listed /\ child = "running")
    /\ UNCHANGED othersListed
    /\ Goto("terminate")
    /\ UNCHANGED <<isIdle, loops, shadowed, firstRead, statsReady, escaped,
                   shmVars, vimVars, progVars>>

\* The list is taken ...
CommKill ==
    /\ commPc = "kill"
    /\ childListed' = (Listed /\ child = "running")
    /\ othersListed' = IF Listed THEN others ELSE 0
    /\ Goto("terminate")
    /\ UNCHANGED <<isIdle, loops, shadowed, firstRead, statsReady, escaped,
                   shmVars, vimVars, progVars>>

\* ... and its processes are opened and terminated one by one.  The results are not
\* looked at: a process that may not be opened lives on.
CommKillProgram ==
    /\ commPc = "terminate" /\ childListed
    /\ childListed' = FALSE
    /\ \/ child' = "dead" /\ UNCHANGED escaped
       \/ UNCHANGED child /\ Escape
    /\ UNCHANGED <<attached, others, othersListed, shmVars, vimVars, commVars>>

CommKillOther ==
    /\ commPc = "terminate" /\ othersListed > 0
    /\ othersListed' = othersListed - 1
    /\ \/ others' = others - 1 /\ UNCHANGED escaped
       \/ UNCHANGED others /\ Escape
    /\ UNCHANGED <<child, attached, childListed, shmVars, vimVars, commVars>>

\* The communicator terminates itself last.
CommKillSelf ==
    /\ commPc = "terminate" /\ ~childListed /\ othersListed = 0
    /\ Goto("exited")
    /\ UNCHANGED <<isIdle, loops, shadowed, firstRead, statsReady, shmVars, notComm>>

Comm ==
    \/ CommStart \/ CommStartClear \/ CommOpen \/ CommInit \/ CommOpenFails
    \/ CommTop \/ CommHealth \/ CommPoll \/ CommPollClear
    \/ CommRead \/ CommCheck \/ CommCheckClear \/ CommStats \/ CommSwallow \/ CommRaise
    \/ CommClose \/ CommKill \/ CommKillProgram \/ CommKillOther \/ CommKillSelf

Next ==
    \/ VimOpen \/ VimIdle \/ VimResume \/ VimClose
    \/ ProgramExit \/ ProgramSpawn \/ OtherExit
    \/ Comm

Spec == Init /\ [][Next]_vars

\* The communicator is a loop that never blocks; Vim finishes opening.
FairSpec == Spec /\ WF_vars(Comm) /\ WF_vars(VimOpen)

-----------------------------------------------------------------------------
(* Properties *)

TypeOK ==
    /\ shmCommand \in Command \cup {"none"} /\ shmAlive \in {"none", "yes", "no"}
    /\ vimPc \in {"boot", "ready"} /\ posted \in 0..MaxPosts
    /\ last \in Command \cup {"none"} /\ late \in BOOLEAN
    /\ commPc \in {"start", "startClear", "open", "init", "top", "health", "poll",
                   "pollClear", "read", "check", "checkClear", "stats", "close",
                   "kill", "terminate", "exited"}
    /\ isIdle \in BOOLEAN /\ loops \in 0..PollEvery - 1
    /\ shadowed \in BOOLEAN /\ firstRead \in BOOLEAN /\ statsReady \in BOOLEAN
    /\ child \in {"none", "running", "dead", "unlaunched"}
    /\ attached \in BOOLEAN /\ others \in 0..MaxOthers
    /\ childListed \in BOOLEAN /\ othersListed \in 0..others /\ escaped \in 0..MaxOthers + 1

\* A communicator that has ended, whatever ended it (a close, the program's death,
\* an exception, a failed open), has told Vim so: is_alive is 0 in the stats,
\* unless it never had the stats block or Vim cleared the block afterwards.
ExitIsPublished ==
    commPc = "exited" => shmAlive = "no" \/ ~statsReady \/ late

\* Once the stats say that the terminal is dead they never say it lives again: no
\* path leads from a health check that failed, or from close, back to the write
\* of is_alive = 1.  Vim closes the terminal on the first 0 it sees.
NeverAliveAgain == [][shmAlive = "no" => shmAlive' # "yes"]_vars

\* What NeverAliveAgain rests on: after "no" the communicator either is on its way
\* out or is in a loop whose next health check raises, because the attribute
\* is_alive now hides the method and no read has completed.
DeadEnd ==
    shmAlive = "no" =>
        /\ shadowed
        /\ ~(commPc \in {"open", "start", "startClear", "init", "check", "checkClear", "stats"})
        /\ commPc \in {"top", "health", "poll", "pollClear", "read"} => firstRead

\* When the communicator was attached to the console and the process list has room for
\* all, a process of the console that outlives it started after the list was taken, or
\* could not be ended: there are no more of them than that, whatever ended the
\* communicator and whatever started and ended meanwhile.
NoOrphansWhenListed ==
    (attached /\ MaxOthers + 2 <= ListSize) => (commPc = "exited" => Procs <= escaped)

\* A command that Vim posts while the communicator loops is obeyed, unless Vim
\* posts another or the communicator is between reading and clearing an earlier
\* one.
CommandObeyed ==
    \A c \in Command :
        (InLoop /\ commPc # "pollClear" /\ shmCommand = c) ~>
            (commPc = "exited" \/ last # c \/ (c # "close" /\ isIdle = (c = "idle")))

\* The death of the program ends the communicator: it is looked at every PollEvery
\* loops, idle or not.
DeathEnds == (child = "dead" /\ InLoop) ~> (commPc = "exited")

\* A close posted by Vim ends the terminal ("Kill your terminal subprocess").
CloseKills == (last = "close") ~> (commPc = "exited" \/ last # "close")

=============================================================================
