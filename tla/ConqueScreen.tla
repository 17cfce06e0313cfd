---------------------------- MODULE ConqueScreen ----------------------------
(***************************************************************************)
(* The rows of the Unix terminal: Conque reads the program's output, splits *)
(* it into chunks (text, control characters, escape sequences) and plays    *)
(* each on a Vim buffer.  The last lines of the buffer, from screenTop on,  *)
(* are the screen; what is above is scrollback.  An exception drops the     *)
(* rest of the output that was read.  Columns and colors are left out: text *)
(* that wraps is a text, a newline and a text.                              *)
(***************************************************************************)
EXTENDS Integers, Sequences, SequencesExt

CONSTANTS Heights,     \* heights the Vim window may take
          InitHeight,  \* its height when the terminal is opened
          MaxRow,      \* bound: rows a program names are 0..MaxRow
          MaxLines,    \* bound: lines of the buffer, and rows the cursor may reach
          MaxResizes   \* bound: changes of the window

ASSUME ConqueScreenAssumption ==
    /\ Heights \subseteq Nat \ {0}
    /\ InitHeight \in Heights
    /\ MaxRow \in Nat /\ MaxLines \in Nat /\ MaxResizes \in Nat

VARIABLES buffer,       \* the lines of the Vim buffer: TRUE when there is text in one
          screenTop,    \* screen_top: the line that is row 1 of the screen
          screenHeight, \* screen_height
          l,            \* row of the cursor
          lines,        \* rows of the terminal
          workingLines, \* rows of the scroll region
          top, bottom,  \* first and last row of the scroll region
          absolute,     \* absolute_coords
          winHeight,    \* height of the Vim window
          changed,      \* the window has not the size the terminal has
          resizes,      \* changes of the window, for the bound
          reading,      \* read() is playing chunks
          lost,         \* why the last read dropped output: "none", "clear", "index"
          strayed,      \* history: the cursor was put outside the scroll region
          misset        \* history: since the screen got its size, the region was empty or
                        \* not within it

scrVars  == <<buffer, screenTop, screenHeight>>
termVars == <<l, lines, workingLines, top, bottom, absolute>>
winVars  == <<winHeight, changed, resizes>>
readVars == <<reading, lost>>
histVars == <<strayed, misset>>
vars     == <<scrVars, termVars, winVars, readVars, histVars>>

\* Rows a program may name: on the screen or not.
Rows == 0..MaxRow

Bound(val, min, max) == IF val > max THEN max ELSE IF val < min THEN min ELSE val

Larger(a, b) == IF a > b THEN a ELSE b

-----------------------------------------------------------------------------
(* ConqueScreen.  A screen s is its buffer, its top, and whether the last    *)
(* access raised IndexError; an access after an error does nothing.          *)

Here == [buf |-> buffer, top |-> screenTop, ok |-> TRUE]

\* Mutated form: the row is counted from 0.
MutLine(s, row) == s.top + row - 2

\* Mutated form: lines of Vim are counted from 1 by the row and by screen_top.
MutLineBelow(s, row) == s.top + row

\* get_real_idx, counted from 1
Line(s, row) == s.top + row - 1

\* Which of len lines the number n means: Python counts a negative index from the end.
Place(n, len) == IF n > 0 THEN n ELSE n + len

Full(s) == Len(s.buf) > s.top + screenHeight - 1

\* Mutated form: the screen is not scrolled.
MutAppendLine(s) ==
    IF Full(s) THEN [s EXCEPT !.buf[Len(s.buf)] = FALSE]
               ELSE [s EXCEPT !.buf = Append(@, FALSE)]

\* append: the last line is replaced when the buffer has one more than the screen
\* shows, and the screen moves down to show the last line.
AppendLine(s) ==
    LET b == IF Full(s) THEN [s.buf EXCEPT ![Len(s.buf)] = FALSE] ELSE Append(s.buf, FALSE)
    IN  [s EXCEPT !.buf = b,
                  !.top = IF Len(b) > @ + screenHeight - 1 THEN @ + 1 ELSE @]

\* append, k times
AppendLines(s, k) ==
    LET after[i \in 0..k] == IF i = 0 THEN s ELSE AppendLine(after[i - 1])
    IN  after[k]

\* __getitem__: "if line is past buffer end, add lines to buffer"
Get(s, row) ==
    LET n == Line(s, row)
        t == AppendLines(s, Larger(n - Len(s.buf), 0))
    IN  IF s.ok THEN [t EXCEPT !.ok = Place(n, Len(t.buf)) \in 1..Len(t.buf)] ELSE s

\* __setitem__: the line after the last one is appended.
Set(s, row, text) ==
    LET n == Place(Line(s, row), Len(s.buf))
    IN  CASE ~s.ok -> s
          [] s.ok /\ n \in 1..Len(s.buf) -> [s EXCEPT !.buf[n] = text]
          [] s.ok /\ n = Len(s.buf) + 1  -> [s EXCEPT !.buf = Append(@, text)]
          [] OTHER -> [s EXCEPT !.ok = FALSE]

\* __delitem__: a buffer keeps one line, if an empty one.
Del(s, row) ==
    LET n == Place(Line(s, row), Len(s.buf))
    IN  IF n \in 1..Len(s.buf)
        THEN [s EXCEPT !.buf = IF Len(@) = 1 THEN <<FALSE>> ELSE RemoveAt(@, n)]
        ELSE [s EXCEPT !.ok = FALSE]

\* insert: an empty line before that of the row, or at the end.
Insert(s, row) ==
    LET n == Place(Line(s, row), Len(s.buf))
    IN  IF ~s.ok THEN s
        ELSE [s EXCEPT !.buf = InsertAt(@, Bound(n, 1, Len(@) + 1), FALSE)]

\* The chunk leaves the screen s; when it raised, the read is over.
Leave(s) ==
    /\ buffer' = s.buf /\ screenTop' = s.top
    /\ reading' = s.ok
    /\ lost' = IF s.ok THEN lost ELSE "index"
    /\ UNCHANGED screenHeight

InRegion(row) == row \in top..bottom

-----------------------------------------------------------------------------
Init ==
    /\ buffer = <<FALSE>> /\ screenTop = 1 /\ screenHeight = InitHeight
    /\ l = 1 /\ lines = InitHeight /\ workingLines = InitHeight
    /\ top = 1 /\ bottom = InitHeight /\ absolute = TRUE
    /\ winHeight = InitHeight /\ changed = FALSE /\ resizes = 0
    /\ reading = FALSE /\ lost = "none" /\ strayed = FALSE /\ misset = FALSE

Chunk ==
    /\ reading
    /\ Len(buffer) <= MaxLines /\ l \in 0..MaxLines

ReadStart ==
    /\ ~reading /\ Len(buffer) <= MaxLines
    /\ reading' = TRUE /\ lost' = "none"
    /\ UNCHANGED <<scrVars, termVars, winVars, histVars>>

\* plain_text within a line: the line is read, then written.
PlainText ==
    /\ Chunk
    /\ Leave(Set(Get(Here, l), l, TRUE))
    /\ UNCHANGED <<termVars, winVars, histVars>>

\* The line of a row is read and written again, with or without what it held.
Rewrite(s, row, keep) ==
    LET n    == Place(Line(s, row), Len(s.buf))
        held == n \in 1..Len(s.buf) /\ s.buf[n]
    IN  Set(Get(s, row), row, keep /\ held)

\* csi_clear_line, csi_add_spaces, csi_delete_chars; only csi_clear_line 2 does not
\* read the line first.
ClearLine ==
    /\ Chunk
    /\ \/ \E keep \in BOOLEAN : Leave(Rewrite(Here, l, keep))
       \/ Leave(Set(Here, l, FALSE))
    /\ UNCHANGED <<termVars, winVars, histVars>>

\* ctl_nl, esc_scroll_up, esc_next_line
CtlNl ==
    /\ Chunk
    /\ CASE l = bottom /\ lines # workingLines ->
              Leave(Insert(Del(Here, top), bottom)) /\ UNCHANGED l
         [] l = bottom /\ lines = workingLines -> Leave(AppendLine(Here)) /\ UNCHANGED l
         [] OTHER -> l' = l + 1 /\ UNCHANGED <<scrVars, readVars>>
    /\ UNCHANGED <<lines, workingLines, top, bottom, absolute, winVars, histVars>>

\* Mutated form: the cursor stops at the edge of the screen, not of the region.
MutCursorUpDown(n) ==
    /\ Chunk
    /\ l' = Bound(l + n, 1, lines)
    /\ UNCHANGED <<scrVars, readVars, lines, workingLines, top, bottom, absolute,
                   winVars, histVars>>

\* csi_cursor_up, csi_cursor_down
CursorUpDown(n) ==
    /\ Chunk
    /\ l' = Bound(l + n, top, bottom)
    /\ UNCHANGED <<scrVars, readVars, lines, workingLines, top, bottom, absolute,
                   winVars, histVars>>

\* csi_cursor: the row is relative to the screen or to the region; the line is read
\* and, when it is too short, padded.
Cursor(row) ==
    /\ Chunk
    /\ l' = IF absolute THEN Bound(row, 1, lines) ELSE Bound(top + row - 1, top, bottom)
    /\ \/ Leave(Get(Here, l'))
       \/ Leave(Rewrite(Get(Here, l'), l', TRUE))
    /\ strayed' = (strayed \/ ~InRegion(l'))
    /\ UNCHANGED <<lines, workingLines, top, bottom, absolute, winVars, misset>>

SetCoords(first, last) ==
    /\ Chunk
    /\ top' = first /\ bottom' = last
    /\ workingLines' = last - first + 1
    /\ l' = IF l < first THEN first ELSE IF l > last THEN last ELSE l
    /\ misset' = (misset \/ ~(1 <= first /\ first <= last /\ last <= screenHeight))
    /\ UNCHANGED <<scrVars, readVars, lines, absolute, winVars, strayed>>

\* csi_set_coords: two values are taken as they are; without them the region is the window.
SetRegion   == \E first, last \in Rows : SetCoords(first, last)
ResetRegion == SetCoords(1, winHeight)

\* csi_set and csi_reset of mode 6
SetOrigin ==
    /\ Chunk
    /\ absolute' \in BOOLEAN
    /\ UNCHANGED <<scrVars, readVars, l, lines, workingLines, top, bottom, winVars, histVars>>

\* Mutated form: the line that leaves the region is not deleted.
MutScrollDown ==
    /\ Chunk
    /\ IF l = top
       THEN Leave(Insert(Here, top)) /\ UNCHANGED l
       ELSE l' = l - 1 /\ UNCHANGED <<scrVars, readVars>>
    /\ UNCHANGED <<lines, workingLines, top, bottom, absolute, winVars, histVars>>

\* esc_scroll_down
ScrollDown ==
    /\ Chunk
    /\ IF l = top
       THEN Leave(Insert(Del(Here, bottom), top)) /\ UNCHANGED l
       ELSE l' = l - 1 /\ UNCHANGED <<scrVars, readVars>>
    /\ UNCHANGED <<lines, workingLines, top, bottom, absolute, winVars, histVars>>

\* The rows from first to last are set to ''.
Blank(s, first, last) ==
    LET after[row \in first - 1..last] ==
            IF row = first - 1 THEN s ELSE Set(after[row - 1], row, FALSE)
    IN  after[last]

\* csi_clear_screen 0 and 1, which end with csi_clear_line.
ClearDown ==
    /\ Chunk
    /\ LET s == Blank(Here, Bound(l + 1, 1, lines), lines)
       IN  \E keep \in BOOLEAN : Leave(Rewrite(s, l, keep))
    /\ UNCHANGED <<termVars, winVars, histVars>>

ClearUp ==
    /\ Chunk
    /\ LET s == Blank(Here, 1, Bound(l, 1, lines + 1) - 1)
       IN  \E keep \in BOOLEAN : Leave(Rewrite(s, l, keep))
    /\ UNCHANGED <<termVars, winVars, histVars>>

\* csi_clear_screen 2 (also csi_set 3, csi_reset 3, hash_screen_alignment_test):
\* screen.clear uses a name that is not defined, and raises.
ClearScreen ==
    /\ Chunk
    /\ l' = 1
    /\ reading' = FALSE /\ lost' = "clear"
    /\ strayed' = (strayed \/ ~InRegion(1))
    /\ UNCHANGED <<scrVars, lines, workingLines, top, bottom, absolute, winVars, misset>>

\* screen.set_cursor, at the end of read: lines are added up to the one after the
\* cursor's.
CursorLine ==
    LET n == Line(Here, l)
    IN  IF n > Len(buffer) THEN buffer \o [i \in 1..(n - Len(buffer) + 1) |-> FALSE]
                           ELSE buffer

\* A read for another buffer (read_all, the API) does not set the cursor.
ReadEnd ==
    /\ reading
    /\ buffer' \in {buffer, CursorLine}
    /\ reading' = FALSE
    /\ UNCHANGED <<screenTop, screenHeight, termVars, winVars, lost, histVars>>

-----------------------------------------------------------------------------
(* The window; update_window_size is called between two reads.             *)

\* The height changes to h, or only the width.
WindowChanges(h) ==
    /\ ~reading /\ resizes < MaxResizes
    /\ winHeight' = h /\ resizes' = resizes + 1
    /\ \E wider \in BOOLEAN : changed' = (wider \/ h # lines)
    /\ UNCHANGED <<scrVars, termVars, readVars, histVars>>

\* Mutated form: the screen may begin before the buffer.
MutAligned(n, height) == n - height + 1

\* reset_size: where a screen begins that ends with the n lines of the buffer.
Aligned(n, height) == Larger(n - height + 1, 1)

\* update_window_size and reset_size: the region's bottom is reset, its top is not;
\* the screen is aligned with the end of the buffer.
UpdateSize ==
    /\ ~reading /\ changed
    /\ changed' = FALSE
    /\ lines' = winHeight /\ workingLines' = winHeight /\ bottom' = winHeight
    /\ screenHeight' = winHeight
    /\ screenTop' = Aligned(Len(buffer), winHeight)
    /\ l' = screenTop + l - screenTop'
    /\ strayed' = (strayed \/ l' \notin top..winHeight)
    /\ misset' = (top \notin 1..winHeight)
    /\ UNCHANGED <<buffer, top, absolute, winHeight, resizes, readVars>>

Next ==
    \/ ReadStart \/ ReadEnd
    \/ PlainText \/ ClearLine \/ CtlNl
    \/ \E n \in -MaxRow..MaxRow : CursorUpDown(n)
    \/ \E row \in Rows : Cursor(row)
    \/ SetRegion \/ ResetRegion \/ SetOrigin \/ ScrollDown
    \/ ClearDown \/ ClearUp \/ ClearScreen
    \/ \E h \in Heights : WindowChanges(h)
    \/ UpdateSize

Spec == Init /\ [][Next]_vars

-----------------------------------------------------------------------------
(* Properties *)

TypeOK ==
    /\ buffer \in Seq(BOOLEAN) /\ screenTop \in Nat \ {0} /\ screenHeight \in Heights
    /\ l \in Int /\ lines \in Heights /\ workingLines \in Int
    /\ top \in Nat /\ bottom \in Nat /\ absolute \in BOOLEAN
    /\ winHeight \in Heights /\ changed \in BOOLEAN /\ resizes \in 0..MaxResizes
    /\ reading \in BOOLEAN /\ lost \in {"none", "clear", "index"} /\ strayed \in BOOLEAN
    /\ misset \in BOOLEAN

\* The cursor stays in the scroll region, as long as that has a row (csi_set_coords takes
\* any two), unless it was addressed outside of it (csi_cursor bounds it by the screen) or
\* a resize moved either.
InRegionUnlessStrayed == ~strayed /\ top <= bottom => InRegion(l)

\* Since the screen got its size the cursor was in the region and the region on the screen:
\* what follows is promised to programs that name rows of the screen they have.
Usual == ~strayed /\ ~misset

\* In the usual case the buffer ends with the screen or one line below it (set_cursor adds one line
\* too many), and the screen never begins after the end of the buffer.
BufferFits == Usual => Len(buffer) \in screenTop..screenTop + screenHeight

\* What has scrolled off the screen is never written again, in the usual case (with a top of
\* 0 the cursor goes up into it).
ScrollbackKept ==
    [][(Usual /\ reading) =>
          SubSeq(buffer', 1, screenTop - 1) = SubSeq(buffer, 1, screenTop - 1)]_vars

FilledScreen == Len(buffer) >= screenTop + screenHeight - 1

\* In the usual case a newline erases no text, although the last line of a buffer that is one line too
\* long is replaced, and once the screen is filled it moves the cursor one line further
\* down the buffer.
NewlineScrolls ==
    [][(CtlNl /\ Usual /\ lines = workingLines) =>
          /\ \A i \in 1..Len(buffer) : buffer[i] => buffer'[i]
          /\ FilledScreen => screenTop' + l' = screenTop + l + 1]_vars

\* In the usual case no output is dropped on a filled screen but by a full clear.
FilledScreenDropsNothing ==
    [][(reading /\ Usual /\ FilledScreen) => lost' # "index"]_vars
=============================================================================
