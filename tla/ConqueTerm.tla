----------------------------- MODULE ConqueTerm -----------------------------
(***************************************************************************)
(* The terminals of one Vim: opening them, entering and leaving their      *)
(* buffers, polling, pausing, closing and deleting.  Vim runs one command  *)
(* at a time, so each action is one command with the autocommands it       *)
(* triggers; the programs run beside it.                                   *)
(*                                                                         *)
(* A command acts on a state s, the record of the variables it may change  *)
(* (Here), and its outcome becomes the next state (Become).  The hazard is  *)
(* in which terminal each function means: the one it was called for, the   *)
(* one of the current buffer (b:ConqueTerm_Var) or the one opened last     *)
(* (g:ConqueTerm_Var).                                                     *)
(***************************************************************************)
EXTENDS Integers, FiniteSets

CONSTANTS MaxTerms,   \* bound: terminals opened in the session
          CheckEvery  \* auto_read looks for the program's death every so many times (32)

ASSUME ConqueTermAssumption == MaxTerms \in Nat /\ CheckEvery \in Nat \ {0}

Terms == 1..MaxTerms

VARIABLES opened,        \* g:ConqueTerm_Idx: the terminal opened last, 0 at first
          cur,           \* the terminal whose buffer is current, 0 for another buffer
          insert,        \* Vim is in insert mode
          fast,          \* on_focus ran after on_blur: updatetime is 50, and no
                         \* CursorHold autocommand calls read_all
          hasBuffer,     \* is_buffer
          loaded,        \* the buffer of the terminal exists
          hooked,        \* its autocommands and mappings are set (conque_on)
          active,        \* active
          idle,          \* the last of idle() and resume() called
          reads,         \* read_count % CheckEvery
          unread,        \* the program wrote something that was not read
          program,       \* "none", "runs", "told" (abort() called os.kill), "ended"
          readUnfocused, closeOnEnd, insertOnEnter  \* options, set by the user

termVars   == <<hasBuffer, loaded, hooked, active, idle, reads, unread, program>>
optionVars == <<readUnfocused, closeOnEnd, insertOnEnter>>
vars       == <<opened, cur, insert, fast, termVars, optionVars>>

Buffers == {0} \cup {i \in Terms : loaded[i]}

Here == [cur |-> cur, insert |-> insert, fast |-> fast, loaded |-> loaded,
         hooked |-> hooked, active |-> active, idle |-> idle, program |-> program]

Become(s) ==
    /\ cur' = s.cur /\ insert' = s.insert /\ fast' = s.fast /\ loaded' = s.loaded
    /\ hooked' = s.hooked /\ active' = s.active /\ idle' = s.idle /\ program' = s.program

-----------------------------------------------------------------------------
(* Functions of conque_term.vim, on a state s.                              *)

\* on_blur: the terminal of the current buffer goes idle.
OnBlur(s) ==
    [s EXCEPT !.fast = FALSE,
              !.idle = [i \in Terms |-> s.idle[i] \/ i = s.cur]]

\* Mutated form: on_focus resumes nobody.
MutOnFocus(s, last) == [s EXCEPT !.fast = TRUE]

\* on_focus: not the terminal of the buffer, the one opened last is resumed.
OnFocus(s, last) ==
    [s EXCEPT !.fast = TRUE,
              !.idle = [i \in Terms |-> s.idle[i] /\ i # last],
              !.insert = s.insert \/ insertOnEnter]

\* BufLeave of the current buffer
Leaving(s) == IF s.cur # 0 /\ s.hooked[s.cur] THEN OnBlur(s) ELSE s

\* The buffer b becomes current, and its BufEnter runs.
Entering(s, b) ==
    LET t == [s EXCEPT !.cur = b, !.insert = FALSE]
    IN  IF b # 0 /\ s.hooked[b] THEN OnFocus(t, opened) ELSE t

\* set_mappings('stop'): whatever terminal is closed, the current buffer loses its hooks.
Unhook(s) == IF s.cur = 0 THEN s ELSE [s EXCEPT !.hooked[s.cur] = FALSE]

\* Mutated form: close() does not signal the program.
MutAbort(s, i) == s

\* abort(): the signal is sent; signal() swallows the error of one that cannot be.
Abort(s, i) == IF s.program[i] = "runs" THEN [s EXCEPT !.program[i] = "told"] ELSE s

\* close(), but for the deletion of the buffer
Closed(s, i) ==
    LET t == IF hasBuffer[i] THEN Unhook(Abort(s, i)) ELSE Abort(s, i)
    IN  [t EXCEPT !.active[i] = FALSE]

\* close() deletes the buffer: not when set_mappings('stop') raised, because there was
\* nothing to unset.
Wipes(s, i) ==
    /\ closeOnEnd /\ hasBuffer[i] /\ s.loaded[i]
    /\ s.cur # 0 /\ s.hooked[s.cur]

Gone(s, i) == [s EXCEPT !.loaded[i] = FALSE, !.hooked[i] = FALSE]

-----------------------------------------------------------------------------
Init ==
    /\ opened = 0 /\ cur = 0 /\ insert = FALSE /\ fast = FALSE
    /\ hasBuffer = [i \in Terms |-> FALSE] /\ loaded = [i \in Terms |-> FALSE]
    /\ hooked = [i \in Terms |-> FALSE]    /\ active = [i \in Terms |-> FALSE]
    /\ idle = [i \in Terms |-> FALSE]      /\ reads = [i \in Terms |-> 0]
    /\ unread = [i \in Terms |-> FALSE]    /\ program = [i \in Terms |-> "none"]
    /\ readUnfocused \in BOOLEAN /\ closeOnEnd \in BOOLEAN /\ insertOnEnter \in BOOLEAN

\* conque_term#open: a new buffer replaces the current one; the program starts, or
\* does not (ok); with return_to_current the user is put back (back).
Open(ok, back) ==
    /\ opened < MaxTerms
    /\ LET n == opened + 1
           s == [Leaving(Here) EXCEPT !.cur = n, !.fast = TRUE,
                     !.loaded[n] = TRUE, !.active[n] = TRUE, !.hooked[n] = ok,
                     !.insert = IF ok /\ ~back THEN TRUE ELSE insert \/ insertOnEnter,
                     !.program[n] = IF ok THEN "runs" ELSE "none"]
           t == OnBlur(s)
       IN  /\ opened' = n
           /\ hasBuffer' = [hasBuffer EXCEPT ![n] = TRUE]
           /\ Become(IF ~(ok /\ back) THEN s
                     ELSE IF cur # 0 /\ hooked[cur] THEN OnFocus([t EXCEPT !.cur = cur], n)
                     ELSE [t EXCEPT !.cur = cur])
    /\ UNCHANGED <<reads, unread, optionVars>>

\* conque_term#subprocess: without a buffer; idle at once, unless called in a terminal.
Subprocess(ok) ==
    /\ opened < MaxTerms
    /\ LET n == opened + 1
           s == [Here EXCEPT !.active[n] = TRUE,
                             !.program[n] = IF ok THEN "runs" ELSE "none"]
       IN  /\ opened' = n
           /\ Become(IF cur = 0 THEN [OnBlur(s) EXCEPT !.idle[n] = TRUE] ELSE s)
    /\ UNCHANGED <<hasBuffer, reads, unread, optionVars>>

\* The user goes to another buffer.
Switch(b) ==
    /\ b \in Buffers \ {cur}
    /\ Become(Entering(Leaving(Here), b))
    /\ UNCHANGED <<opened, hasBuffer, reads, unread, optionVars>>

\* The user enters or leaves insert mode.
InsertMode ==
    /\ insert' = ~insert
    /\ UNCHANGED <<opened, cur, fast, termVars, optionVars>>

\* set_mappings('toggle'), in a terminal: on_focus is not called.
Toggle ==
    /\ cur # 0 /\ ~insert
    /\ hooked' = [hooked EXCEPT ![cur] = ~@]
    /\ UNCHANGED <<opened, cur, insert, fast, hasBuffer, loaded, active, idle, reads, unread,
                   program, optionVars>>

\* Mutated form: the counter is never 0 again.
MutDue(i) == FALSE

\* auto_read looks for the death of the program before it reads.
Due(i) == reads[i] = 0

Polls == cur # 0 /\ insert /\ hooked[cur] /\ program[cur] # "none"

\* auto_read finds the program dead; it has read before only if keys were waiting to be
\* written.  Autocommands do not nest: when the buffer is deleted, that of the next
\* buffer does not run.
AutoClose ==
    /\ Polls /\ Due(cur) /\ program[cur] = "ended"
    /\ IF Wipes(Here, cur)
       THEN \E b \in Buffers \ {cur} :
              Become([Gone(Closed(Here, cur), cur) EXCEPT !.cur = b, !.insert = FALSE])
       ELSE Become(Closed(Here, cur))
    /\ unread' \in {unread, [unread EXCEPT ![cur] = FALSE]}
    /\ UNCHANGED <<opened, hasBuffer, reads, optionVars>>

\* Mutated form: read_count is not reset.
MutAutoRead ==
    /\ Polls /\ ~(Due(cur) /\ program[cur] = "ended")
    /\ reads' = [reads EXCEPT ![cur] = @ + 1]
    /\ unread' = [unread EXCEPT ![cur] = FALSE]
    /\ UNCHANGED <<opened, cur, insert, fast, hasBuffer, loaded, hooked, active, idle,
                   program, optionVars>>

AutoRead ==
    /\ Polls /\ ~(Due(cur) /\ program[cur] = "ended")
    /\ reads' = [reads EXCEPT ![cur] = (@ + 1) % CheckEvery]
    /\ unread' = [unread EXCEPT ![cur] = FALSE]
    /\ UNCHANGED <<opened, cur, insert, fast, hasBuffer, loaded, hooked, active, idle,
                   program, optionVars>>

\* read_all, from CursorHold or CursorHoldI
ReadAll ==
    /\ readUnfocused /\ ~fast /\ opened > 0
    /\ unread' = [i \in Terms |-> unread[i] /\ ~active[i]]
    /\ UNCHANGED <<opened, cur, insert, fast, hasBuffer, loaded, hooked, active, idle, reads,
                   program, optionVars>>

\* A key typed in a terminal, or read() called by a script, reads its output.
Read(i) ==
    /\ i \in 1..opened /\ program[i] # "none"
    /\ unread' = [unread EXCEPT ![i] = FALSE]
    /\ UNCHANGED <<opened, cur, insert, fast, hasBuffer, loaded, hooked, active, idle, reads,
                   program, optionVars>>

\* close() called by a script, in whatever buffer is current.
Close(i) ==
    /\ i \in 1..opened
    /\ \/ /\ ~Wipes(Here, i)
          /\ Become(Closed(Here, i))
       \/ /\ Wipes(Here, i) /\ i # cur
          /\ Become([Gone(Closed(Here, i), i) EXCEPT !.insert = FALSE])
       \/ /\ Wipes(Here, i) /\ i = cur
          /\ \E b \in Buffers \ {cur} : Become(Entering(Gone(Closed(Here, i), i), b))
    /\ UNCHANGED <<opened, hasBuffer, reads, unread, optionVars>>

\* Mutated form: the autocommand is on BufLeave, or not set at all.
MutUnloading(s, i) == s

\* BufUnload, then BufDelete, of the terminal i
Unloading(s, i) == IF s.hooked[i] THEN Closed(s, i) ELSE s

\* The user deletes a buffer.  The autocommands of a hidden one run in the current
\* buffer; those of the current one before or after another has become current.
Delete(i) ==
    /\ loaded[i]
    /\ IF i # cur
       THEN Become(Gone(Unloading(Here, i), i))
       ELSE \E b \in Buffers \ {cur} :
              \/ Become(Entering(Gone(Unloading(Leaving(Here), i), i), b))
              \/ Become(Gone(Unloading(Entering(Leaving(Here), b), i), i))
    /\ UNCHANGED <<opened, hasBuffer, reads, unread, optionVars>>

Output(i) ==
    /\ program[i] \in {"runs", "told"}
    /\ unread' = [unread EXCEPT ![i] = TRUE]
    /\ UNCHANGED <<opened, cur, insert, fast, hasBuffer, loaded, hooked, active, idle, reads,
                   program, optionVars>>

\* The program ends by itself or by the signal, which it may also survive.
Exit(i) ==
    /\ program[i] \in {"runs", "told"}
    /\ program' = [program EXCEPT ![i] = "ended"]
    /\ UNCHANGED <<opened, cur, insert, fast, hasBuffer, loaded, hooked, active, idle, reads,
                   unread, optionVars>>

Next ==
    \/ \E ok, back \in BOOLEAN : Open(ok, back)
    \/ \E ok \in BOOLEAN : Subprocess(ok)
    \/ \E b \in 0..MaxTerms : Switch(b)
    \/ InsertMode \/ Toggle \/ AutoClose \/ AutoRead \/ ReadAll
    \/ \E i \in Terms : Read(i) \/ Close(i) \/ Delete(i) \/ Output(i) \/ Exit(i)

Spec == Init /\ [][Next]_vars

\* Vim's CursorHoldI comes again and again: auto_read types two keys to rearm it.
FairSpec == Spec /\ WF_vars(AutoClose \/ AutoRead)

-----------------------------------------------------------------------------
(* Properties *)

TypeOK ==
    /\ opened \in 0..MaxTerms /\ cur \in 0..MaxTerms
    /\ insert \in BOOLEAN /\ fast \in BOOLEAN
    /\ hasBuffer \in [Terms -> BOOLEAN] /\ loaded \in [Terms -> BOOLEAN]
    /\ hooked \in [Terms -> BOOLEAN] /\ active \in [Terms -> BOOLEAN]
    /\ idle \in [Terms -> BOOLEAN] /\ reads \in [Terms -> 0..CheckEvery - 1]
    /\ unread \in [Terms -> BOOLEAN]
    /\ program \in [Terms -> {"none", "runs", "told", "ended"}]
    /\ readUnfocused \in BOOLEAN /\ closeOnEnd \in BOOLEAN /\ insertOnEnter \in BOOLEAN

\* The current buffer exists, only existing buffers have hooks, and nothing is set for
\* a terminal that was not opened.
BuffersExist ==
    /\ cur # 0 => loaded[cur]
    /\ \A i \in Terms : hooked[i] => loaded[i]
    /\ \A i \in Terms : loaded[i] => i <= opened /\ hasBuffer[i]

\* The terminal opened last polls fast when it has the focus, although every focus
\* resumes it; unless a buffer deleted at the program's end brought the user there.
LastIsAwake ==
    ~closeOnEnd /\ cur # 0 /\ cur = opened /\ hooked[cur] => ~idle[cur]

\* A terminal that counts as closed was signalled first, whether or not the signal arrived.
ClosedIsTold ==
    \A i \in Terms : i <= opened /\ ~active[i] => program[i] # "runs"

\* A terminal whose buffer is deleted while it has its hooks was signalled first, whether or
\* not the signal arrived.
DeletedIsTold ==
    [][\A i \in Terms : hooked[i] /\ ~loaded'[i] => program'[i] # "runs"]_vars

\* As long as it is the only one, a terminal whose program runs loses its hooks only
\* when the user pauses it or deletes it.
AloneStaysTerminal ==
    [][opened = 1 /\ hooked[1] /\ ~hooked'[1] /\ loaded'[1] =>
          Toggle \/ program'[1] # "runs"]_vars

\* Whatever a command does, of the terminals whose buffers remain only one that was in
\* sight when it began or ended loses its hooks: set_mappings('stop') unhooks the current
\* buffer, and a hidden one is never that.
HiddenStaysTerminal ==
    [][\A i \in Terms : hooked[i] /\ ~hooked'[i] /\ loaded'[i] => i \in {cur, cur'}]_vars

\* The death of the program of a terminal in which the user stays is noticed.
DeathNoticed ==
    \A i \in Terms :
        (program[i] = "ended" /\ cur = i /\ insert /\ hooked[i])
            ~> (~active[i] \/ cur # i \/ ~insert \/ ~hooked[i])

\* "Otherwise the buffer will become a simple text buffer after the program exits"
\* (doc/conque_term.txt, ConqueTerm_CloseOnEnd): a terminal whose program runs loses
\* its hooks only when the user pauses it or deletes it.
StaysTerminal ==
    [][\A i \in Terms :
          hooked[i] /\ ~hooked'[i] /\ loaded'[i] => Toggle \/ program'[i] # "runs"]_vars

\* "you can edit the program output in insert mode" (ibid.): when auto_read makes the
\* terminal a text buffer, the output of the program is in it.
OutputIsShown ==
    [][\A i \in Terms : AutoClose /\ i = cur /\ ~closeOnEnd => ~unread'[i]]_vars
=============================================================================
