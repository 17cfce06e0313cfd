-------------------------- MODULE Miniterm_proofs --------------------------
(***************************************************************************)
(* Proofs about the threads of miniterm, for any number of keys, files and *)
(* --debug options.                                                        *)
(*                                                                         *)
(* Beside the types (split into parts below): PlaceInv says where the main *)
(* thread and the writer can be, and with which tty; TestInv says what     *)
(* the reader knows of the mode after each test; LateInv bounds the keys   *)
(* taken after the end.                                                    *)
(***************************************************************************)
EXTENDS Miniterm, TLAPS

\* The writer lives while main waits for it; the tty is raw but in a prompt or an upload.
PlaceInv ==
    /\ old = "cooked"
    /\ mainPc \in {"open", "writer"} => writerPc = "unborn"
    /\ mainPc = "join" => writerPc # "unborn"
    /\ mainPc = "joinBoth" => writerPc = "done"
    /\ mainPc = "exited" => writerPc \in {"unborn", "done"} /\ tty = "cooked"
    /\ writerPc \in {"prompt", "upload"} => tty = "cooked"
    /\ writerPc \notin {"prompt", "upload", "done"} /\ mainPc # "exited" => tty = "raw"

\* A test that failed leaves only higher modes, as long as no mode wraps.
TestInv ==
    /\ ~wrapped /\ readerPc \in {"test0", "test1", "test2", "test3"} => reprMode <= 3
    /\ ~wrapped /\ readerPc = "test1" => reprMode >= 1
    /\ ~wrapped /\ readerPc = "test2" => reprMode >= 2
    /\ ~wrapped /\ readerPc = "test3" => reprMode >= 3
    /\ shown = "nothing" => readerPc = "loop"
    /\ ShownUnlessWrapped

\* A key is taken late only by a writer that was already waiting when alive became false.
LateInv ==
    /\ OneKeyAfterEnd
    /\ alive \/ writerPc \in {"unborn", "getkey"} => late = 0

\* The line feed mode is beyond its last value only until the writer's next step.
ModeInv == convertOutgoing <= 2 \/ writerPc = "wrapLineFeed"

Inv == TypeOK /\ ModeInv /\ PlaceInv /\ TestInv /\ LateInv

\* The parts of TypeOK: a prover is given one at a time.
Flags == port \in BOOLEAN /\ alive \in BOOLEAN /\ menuActive \in BOOLEAN /\ wrapped \in BOOLEAN
Keys == input \in Seq(Key) /\ key \in Key /\ rest \in Seq({"text", "blank"})
Places ==
    /\ tty \in {"raw", "cooked"} /\ old \in {"raw", "cooked"}
    /\ mainPc \in {"open", "writer", "join", "joinBoth", "exited"}
    /\ writerPc \in {"unborn", "loop", "getkey", "handle", "wrapRepr", "wrapLineFeed",
                     "prompt", "upload", "done"}
ReaderPlaces ==
    /\ readerPc \in {"unborn", "loop", "read", "test0", "test1", "test2", "test3", "raw",
                     "crlf", "lf", "cr", "escape", "hex", "drop", "done"}
    /\ data \in {"none", "cr", "lf", "text"}
    /\ shown \in {"none", "as is", "newline", "swallowed", "escaped", "hex", "nothing"}
Numbers ==
    /\ reprMode \in Nat /\ convertOutgoing \in 0..3 /\ newline \in 0..2
    /\ late \in Nat /\ typed \in 0..MaxKeys

USE DEF REPR_MODES, CONVERT_LF, CONVERT_CR, CONVERT_CRLF

-----------------------------------------------------------------------------
LEMMA InitInv == Init => Inv
<1> SUFFICES ASSUME Init PROVE Inv  OBVIOUS
<1>1. TypeOK
  <2>1. MaxKeys \in Nat  BY MinitermAssumption
  <2>2. typed \in 0..MaxKeys  BY <2>1 DEF Init
  <2>3. input \in Seq(Key) /\ rest \in Seq({"text", "blank"})  BY DEF Init
  <2>4. port \in BOOLEAN /\ tty \in {"raw", "cooked"} /\ old \in {"raw", "cooked"}
        /\ alive \in BOOLEAN /\ menuActive \in BOOLEAN /\ wrapped \in BOOLEAN
    BY DEF Init
  <2>5. reprMode \in Nat /\ convertOutgoing \in 0..3 /\ newline \in 0..2 /\ late \in Nat
    BY MinitermAssumption DEF Init
  <2>6. key \in Key  BY DEF Init, Key
  <2> QED  BY <2>2, <2>3, <2>4, <2>5, <2>6 DEF Init, TypeOK
<1>2. ModeInv /\ PlaceInv /\ TestInv /\ LateInv
  BY DEF Init, ModeInv, PlaceInv, TestInv, ShownUnlessWrapped, LateInv, OneKeyAfterEnd
<1> QED  BY <1>1, <1>2 DEF Inv

\* The Boolean variables.
LEMMA FlagsStep == Flags /\ [Next]_vars => Flags'
<1> SUFFICES ASSUME Flags, [Next]_vars PROVE Flags'  OBVIOUS
<1> USE DEF Exit, Cleanup, Setup, vars, readerVars, modeVars, ttyVars, writerVars,
     otherThanReader, otherThanWriter, Handled, Menu, Display, ReaderTest, Flags
<1>1. CASE Main  BY <1>1 DEF Main, MainFails, MainStart, MainStartWriter, MainJoin, MainExit
<1>2. CASE Reader
  BY <1>2 DEF Reader, ReaderTop, ReaderTimeout, ReaderReceive, ReaderRaise, ReaderDies,
       DisplayRaw, DisplayCrLf, NotCrLf, DisplayLf, NotLf, DisplayCr, Drop
<1>3. CASE WriterRuns
  <2>1. CASE \E ok \in BOOLEAN : \/ SendKey(ok) \/ MenuPort(ok) \/ MenuInfo(ok) \/ MenuOther(ok)
                               \/ WrapRepr(ok) \/ WrapLineFeed(ok)
    BY <2>1 DEF SendKey, MenuPort, MenuInfo, DumpOk, MenuOther, WrapRepr, WrapLineFeed
  <2>2. CASE WriterTop \/ WriterGetKey \/ MenuKey \/ ExitKey \/ MenuRepr \/ MenuLineFeed
    BY <2>2 DEF WriterTop, WriterGetKey, MenuKey, ExitKey, MenuRepr, MenuLineFeed
  <2>3. CASE MenuPrompt \/ PromptRaise \/ UploadLine \/ UploadEnd \/ UploadRaise
    BY <2>3 DEF MenuPrompt, PromptRaise, UploadLine, UploadEnd, UploadRaise
  <2> QED  BY <1>3, <2>1, <2>2, <2>3 DEF WriterRuns
<1>4. CASE Answer
  BY <1>4 DEF Answer, PromptRefused, PromptBaud, PromptDies, PromptFile, DumpOk
<1>5. CASE Unplug  BY <1>5 DEF Unplug
<1>6. CASE \E k \in Key : Type(k)  BY <1>6 DEF Type
<1>7. CASE UNCHANGED vars  BY <1>7
<1> QED  BY <1>1, <1>2, <1>3, <1>4, <1>5, <1>6, <1>7 DEF Next

\* The places of main and the writer, and the modes of the tty.
LEMMA PlacesStep == Places /\ [Next]_vars => Places'
<1> SUFFICES ASSUME Places, [Next]_vars PROVE Places'  OBVIOUS
<1> USE DEF Exit, Cleanup, Setup, vars, readerVars, modeVars, ttyVars, writerVars,
     otherThanReader, otherThanWriter, Handled, Menu, Display, ReaderTest, Places
<1>1. CASE Main  BY <1>1 DEF Main, MainFails, MainStart, MainStartWriter, MainJoin, MainExit
<1>2. CASE Reader
  BY <1>2 DEF Reader, ReaderTop, ReaderTimeout, ReaderReceive, ReaderRaise, ReaderDies,
       DisplayRaw, DisplayCrLf, NotCrLf, DisplayLf, NotLf, DisplayCr, Drop
<1>3. CASE WriterRuns
  BY <1>3 DEF WriterRuns, WriterTop, WriterGetKey, MenuKey, ExitKey, SendKey, MenuPort,
       MenuInfo, DumpOk, MenuOther, MenuRepr, WrapRepr, MenuLineFeed,
       WrapLineFeed, MenuPrompt, PromptRaise, UploadLine, UploadEnd, UploadRaise
<1>4. CASE Answer
  BY <1>4 DEF Answer, PromptRefused, PromptBaud, PromptDies, PromptFile, DumpOk
<1>5. CASE Unplug  BY <1>5 DEF Unplug
<1>6. CASE \E k \in Key : Type(k)  BY <1>6 DEF Type
<1>7. CASE UNCHANGED vars  BY <1>7
<1> QED  BY <1>1, <1>2, <1>3, <1>4, <1>5, <1>6, <1>7 DEF Next

\* The place of the reader and what it holds.
LEMMA ReaderPlacesStep == ReaderPlaces /\ [Next]_vars => ReaderPlaces'
<1> SUFFICES ASSUME ReaderPlaces, [Next]_vars PROVE ReaderPlaces'  OBVIOUS
<1> USE DEF Exit, Cleanup, Setup, vars, readerVars, modeVars, ttyVars, writerVars,
     otherThanReader, otherThanWriter, Handled, Menu, Display, ReaderTest, ReaderPlaces
<1>1. CASE Main  BY <1>1 DEF Main, MainFails, MainStart, MainStartWriter, MainJoin, MainExit
<1>2. CASE Reader
  BY <1>2 DEF Reader, ReaderTop, ReaderTimeout, ReaderReceive, ReaderRaise, ReaderDies,
       DisplayRaw, DisplayCrLf, NotCrLf, DisplayLf, NotLf, DisplayCr, Drop
<1>3. CASE WriterRuns
  BY <1>3 DEF WriterRuns, WriterTop, WriterGetKey, MenuKey, ExitKey, SendKey, MenuPort,
       MenuInfo, DumpOk, MenuOther, MenuRepr, WrapRepr, MenuLineFeed,
       WrapLineFeed, MenuPrompt, PromptRaise, UploadLine, UploadEnd, UploadRaise
<1>4. CASE Answer
  BY <1>4 DEF Answer, PromptRefused, PromptBaud, PromptDies, PromptFile, DumpOk
<1>5. CASE Unplug  BY <1>5 DEF Unplug
<1>6. CASE \E k \in Key : Type(k)  BY <1>6 DEF Type
<1>7. CASE UNCHANGED vars  BY <1>7
<1> QED  BY <1>1, <1>2, <1>3, <1>4, <1>5, <1>6, <1>7 DEF Next

\* Main waits for the writer, and every way out of a prompt or an upload to a key goes
\* through setup().
LEMMA PlaceInvStep == Places /\ PlaceInv /\ [Next]_vars => PlaceInv'
<1> SUFFICES ASSUME Places, PlaceInv, [Next]_vars PROVE PlaceInv'  OBVIOUS
<1> USE DEF Exit, Cleanup, Setup, vars, readerVars, modeVars, ttyVars, writerVars,
     otherThanReader, otherThanWriter, Handled, Menu, Display, ReaderTest, Places, PlaceInv
<1>1. CASE Main  BY <1>1 DEF Main, MainFails, MainStart, MainStartWriter, MainJoin, MainExit
<1>2. CASE Reader
  BY <1>2 DEF Reader, ReaderTop, ReaderTimeout, ReaderReceive, ReaderRaise, ReaderDies,
       DisplayRaw, DisplayCrLf, NotCrLf, DisplayLf, NotLf, DisplayCr, Drop
<1>3. CASE WriterRuns
  BY <1>3 DEF WriterRuns, WriterTop, WriterGetKey, MenuKey, ExitKey, SendKey, MenuPort,
       MenuInfo, DumpOk, MenuOther, MenuRepr, WrapRepr, MenuLineFeed,
       WrapLineFeed, MenuPrompt, PromptRaise, UploadLine, UploadEnd, UploadRaise
<1>4. CASE Answer
  BY <1>4 DEF Answer, PromptRefused, PromptBaud, PromptDies, PromptFile, DumpOk
<1>5. CASE Unplug  BY <1>5 DEF Unplug
<1>6. CASE \E k \in Key : Type(k)  BY <1>6 DEF Type
<1>7. CASE UNCHANGED vars  BY <1>7
<1> QED  BY <1>1, <1>2, <1>3, <1>4, <1>5, <1>6, <1>7 DEF Next

\* The modes and the counters; the line feed mode is counted up from 2 at most.
LEMMA NumbersStep == Numbers /\ ModeInv /\ [Next]_vars => Numbers'
<1> SUFFICES ASSUME Numbers, ModeInv, [Next]_vars PROVE Numbers'  OBVIOUS
<1> USE DEF Exit, Cleanup, Setup, vars, readerVars, modeVars, ttyVars, writerVars,
     otherThanReader, otherThanWriter, Handled, Menu, Display, ReaderTest, Numbers, ModeInv
<1>0. MaxKeys \in Nat  BY MinitermAssumption
<1>1. CASE Main
  <2>1. CASE MainFails  BY <2>1 DEF MainFails
  <2>2. CASE MainStart  BY <2>2 DEF MainStart
  <2>3. CASE MainStartWriter  BY <2>3 DEF MainStartWriter
  <2>4. CASE MainJoin  BY <2>4 DEF MainJoin
  <2>5. CASE MainExit  BY <2>5 DEF MainExit
  <2> QED  BY <1>1, <2>1, <2>2, <2>3, <2>4, <2>5 DEF Main
<1>2. CASE Reader
  BY <1>2 DEF Reader, ReaderTop, ReaderTimeout, ReaderReceive, ReaderRaise, ReaderDies,
       DisplayRaw, DisplayCrLf, NotCrLf, DisplayLf, NotLf, DisplayCr, Drop
<1>3. CASE WriterRuns
  BY <1>3 DEF WriterRuns, WriterTop, WriterGetKey, MenuKey, ExitKey, SendKey, MenuPort,
       MenuInfo, DumpOk, MenuOther, MenuRepr, WrapRepr, MenuLineFeed,
       WrapLineFeed, MenuPrompt, PromptRaise, UploadLine, UploadEnd, UploadRaise
<1>4. CASE Answer
  BY <1>4 DEF Answer, PromptRefused, PromptBaud, PromptDies, PromptFile, DumpOk
<1>5. CASE Unplug  BY <1>5 DEF Unplug
<1>6. CASE \E k \in Key : Type(k)  BY <1>0, <1>6 DEF Type
<1>7. CASE UNCHANGED vars  BY <1>7
<1> QED  BY <1>1, <1>2, <1>3, <1>4, <1>5, <1>6, <1>7 DEF Next

\* The writer counts the line feed mode up and puts it back in its next step.
LEMMA ModeInvStep == Numbers /\ PlaceInv /\ ModeInv /\ [Next]_vars => ModeInv'
<1> SUFFICES ASSUME Numbers, PlaceInv, ModeInv, [Next]_vars PROVE ModeInv'  OBVIOUS
<1> USE DEF Exit, Cleanup, Setup, vars, readerVars, modeVars, ttyVars, writerVars,
     otherThanReader, otherThanWriter, Handled, Menu, Display, ReaderTest, Numbers,
     PlaceInv, ModeInv
<1>1. CASE Main
  <2>1. CASE MainFails  BY <2>1 DEF MainFails
  <2>2. CASE MainStart  BY <2>2 DEF MainStart
  <2>3. CASE MainStartWriter  BY <2>3 DEF MainStartWriter
  <2>4. CASE MainJoin  BY <2>4 DEF MainJoin
  <2>5. CASE MainExit  BY <2>5 DEF MainExit
  <2> QED  BY <1>1, <2>1, <2>2, <2>3, <2>4, <2>5 DEF Main
<1>2. CASE Reader
  BY <1>2 DEF Reader, ReaderTop, ReaderTimeout, ReaderReceive, ReaderRaise, ReaderDies,
       DisplayRaw, DisplayCrLf, NotCrLf, DisplayLf, NotLf, DisplayCr, Drop
<1>3. CASE WriterRuns
  BY <1>3 DEF WriterRuns, WriterTop, WriterGetKey, MenuKey, ExitKey, SendKey, MenuPort,
       MenuInfo, DumpOk, MenuOther, MenuRepr, WrapRepr, MenuLineFeed,
       WrapLineFeed, MenuPrompt, PromptRaise, UploadLine, UploadEnd, UploadRaise
<1>4. CASE Answer
  BY <1>4 DEF Answer, PromptRefused, PromptBaud, PromptDies, PromptFile, DumpOk
<1>5. CASE Unplug  BY <1>5 DEF Unplug
<1>6. CASE \E k \in Key : Type(k)  BY <1>6 DEF Type
<1>7. CASE UNCHANGED vars  BY <1>7
<1> QED  BY <1>1, <1>2, <1>3, <1>4, <1>5, <1>6, <1>7 DEF Next

\* The keys and the lines of a file.
LEMMA KeysStep == Keys /\ [Next]_vars => Keys'
<1> SUFFICES ASSUME Keys, [Next]_vars PROVE Keys'  OBVIOUS
<1> USE DEF Exit, Cleanup, Setup, vars, readerVars, modeVars, ttyVars, writerVars,
     otherThanReader, otherThanWriter, Handled, Menu, Display, ReaderTest, Keys
<1>0. "other" \in Key  BY DEF Key
<1>1. CASE Main
  <2>1. CASE MainFails  BY <2>1 DEF MainFails
  <2>2. CASE MainStart  BY <2>2 DEF MainStart
  <2>3. CASE MainStartWriter  BY <2>3 DEF MainStartWriter
  <2>4. CASE MainJoin  BY <2>4 DEF MainJoin
  <2>5. CASE MainExit  BY <2>5 DEF MainExit
  <2> QED  BY <1>1, <2>1, <2>2, <2>3, <2>4, <2>5 DEF Main
<1>2. CASE Reader
  BY <1>2 DEF Reader, ReaderTop, ReaderTimeout, ReaderReceive, ReaderRaise, ReaderDies,
       DisplayRaw, DisplayCrLf, NotCrLf, DisplayLf, NotLf, DisplayCr, Drop
<1>3. CASE WriterRuns
  <2>1. CASE WriterTop  BY <2>1 DEF WriterTop
  <2>2. CASE WriterGetKey  BY <2>2 DEF WriterGetKey
  <2>3. CASE MenuKey  BY <1>0, <2>3 DEF MenuKey
  <2>4. CASE ExitKey  BY <2>4 DEF ExitKey
  <2>5. CASE \E ok \in BOOLEAN : SendKey(ok)  BY <1>0, <2>5 DEF SendKey
  <2>6. CASE \E ok \in BOOLEAN : MenuPort(ok)  BY <1>0, <2>6 DEF MenuPort
  <2>7. CASE \E ok \in BOOLEAN : MenuOther(ok)  BY <1>0, <2>7 DEF MenuOther
  <2>8. CASE MenuRepr  BY <2>8 DEF MenuRepr
  <2>9. CASE \E ok \in BOOLEAN : WrapRepr(ok)  BY <1>0, <2>9 DEF WrapRepr
  <2>10. CASE MenuLineFeed  BY <2>10 DEF MenuLineFeed
  <2>11. CASE \E ok \in BOOLEAN : WrapLineFeed(ok)  BY <1>0, <2>11 DEF WrapLineFeed
  <2>12. CASE MenuPrompt  BY <2>12 DEF MenuPrompt
  <2>13. CASE UploadLine
    <3>1. rest # <<>>  BY <2>13 DEF UploadLine, FileEnds
    <3>2. rest' \in Seq({"text", "blank"})  BY <2>13, <3>1 DEF UploadLine
    <3> QED  BY <2>13, <3>2 DEF UploadLine
  <2>14. CASE UploadEnd  BY <1>0, <2>14 DEF UploadEnd
  <2>15. CASE UploadRaise  BY <1>0, <2>15 DEF UploadRaise
  <2>16. CASE \E ok \in BOOLEAN : MenuInfo(ok)  BY <1>0, <2>16 DEF MenuInfo, DumpOk
  <2>17. CASE PromptRaise  BY <1>0, <2>17 DEF PromptRaise
  <2> QED
    BY <1>3, <2>1, <2>2, <2>3, <2>4, <2>5, <2>6, <2>7, <2>8, <2>9, <2>10, <2>11, <2>12,
         <2>13, <2>14, <2>15, <2>16, <2>17 DEF WriterRuns
<1>4. CASE Answer
  <2>1. CASE PromptRefused  BY <1>0, <2>1 DEF PromptRefused
  <2>2. CASE PromptBaud  BY <1>0, <2>2 DEF PromptBaud
  <2>3. CASE \E f \in Files : PromptFile(f)
    <3>1. \A f \in Files : f \in Seq({"text", "blank"})  BY MinitermAssumption
    <3> QED  BY <2>3, <3>1 DEF PromptFile
  <2>4. CASE PromptDies  BY <1>0, <2>4 DEF PromptDies
  <2> QED  BY <1>4, <2>1, <2>2, <2>3, <2>4 DEF Answer
<1>5. CASE Unplug  BY <1>5 DEF Unplug
<1>6. CASE \E k \in Key : Type(k)  BY <1>6 DEF Type
<1>7. CASE UNCHANGED vars  BY <1>7
<1> QED  BY <1>1, <1>2, <1>3, <1>4, <1>5, <1>6, <1>7 DEF Next

\* Each test that fails excludes one mode more, unless the mode was beyond the last.
LEMMA TestInvStep == Numbers /\ Flags /\ TestInv /\ [Next]_vars => TestInv'
<1> SUFFICES ASSUME Numbers, Flags, TestInv, [Next]_vars PROVE TestInv'  OBVIOUS
<1> USE DEF Exit, Cleanup, Setup, vars, readerVars, modeVars, ttyVars, writerVars,
     otherThanReader, otherThanWriter, Handled, Menu, Display, ReaderTest, Numbers, Flags,
     TestInv, ShownUnlessWrapped
<1>1. CASE Main  BY <1>1 DEF Main, MainFails, MainStart, MainStartWriter, MainJoin, MainExit
<1>2. CASE Reader
  <2>1. CASE ReaderTop  BY <2>1 DEF ReaderTop
  <2>2. CASE ReaderTimeout  BY <2>2 DEF ReaderTimeout
  <2>3. CASE ReaderRaise  BY <2>3 DEF ReaderRaise
  <2>4. CASE \E d \in {"cr", "lf", "text"} : ReaderReceive(d)
    <3>1. readerPc' = "test0" /\ shown' = shown /\ reprMode' = reprMode
      BY <2>4 DEF ReaderReceive
    <3>2. wrapped' \/ reprMode \in 0..3  BY <2>4 DEF ReaderReceive
    <3>3. shown # "nothing"  BY <2>4 DEF ReaderReceive
    <3> QED  BY <3>1, <3>2, <3>3
  <2>5. CASE ReaderTest("test0", 0, "raw", "test1")  BY <2>5
  <2>6. CASE ReaderTest("test1", 1, "crlf", "test2")  BY <2>6
  <2>7. CASE ReaderTest("test2", 2, "escape", "test3")  BY <2>7
  <2>8. CASE ReaderTest("test3", 3, "hex", "drop")  BY <2>8
  <2>9. CASE DisplayRaw \/ DisplayCrLf \/ DisplayLf \/ DisplayCr
    BY <2>9 DEF DisplayRaw, DisplayCrLf, DisplayLf, DisplayCr
  <2>10. CASE NotCrLf \/ NotLf  BY <2>10 DEF NotCrLf, NotLf
  <2>11. CASE Display("escape", "escaped") \/ Display("hex", "hex")  BY <2>11
  <2>12. CASE Drop  BY <2>12 DEF Drop
  <2>13. CASE ReaderDies  BY <2>13 DEF ReaderDies
  <2> QED
    BY <1>2, <2>1, <2>2, <2>3, <2>4, <2>5, <2>6, <2>7, <2>8, <2>9, <2>10, <2>11, <2>12,
         <2>13 DEF Reader
<1>3. CASE WriterRuns
  BY <1>3 DEF WriterRuns, WriterTop, WriterGetKey, MenuKey, ExitKey, SendKey, MenuPort,
       MenuInfo, DumpOk, MenuOther, MenuRepr, WrapRepr, MenuLineFeed,
       WrapLineFeed, MenuPrompt, PromptRaise, UploadLine, UploadEnd, UploadRaise
<1>4. CASE Answer
  BY <1>4 DEF Answer, PromptRefused, PromptBaud, PromptDies, PromptFile, DumpOk
<1>5. CASE Unplug  BY <1>5 DEF Unplug
<1>6. CASE \E k \in Key : Type(k)  BY <1>6 DEF Type
<1>7. CASE UNCHANGED vars  BY <1>7
<1> QED  BY <1>1, <1>2, <1>3, <1>4, <1>5, <1>6, <1>7 DEF Next

\* alive becomes false once, and a writer that sees it takes no further key.
LEMMA LateInvStep == Numbers /\ Flags /\ PlaceInv /\ LateInv /\ [Next]_vars => LateInv'
<1> SUFFICES ASSUME Numbers, Flags, PlaceInv, LateInv, [Next]_vars PROVE LateInv'  OBVIOUS
<1> USE DEF Exit, Cleanup, Setup, vars, readerVars, modeVars, ttyVars, writerVars,
     otherThanReader, otherThanWriter, Handled, Menu, Display, ReaderTest, Numbers, Flags,
     PlaceInv, LateInv, OneKeyAfterEnd
<1>1. CASE Main
  <2>1. CASE MainFails  BY <2>1 DEF MainFails
  <2>2. CASE MainStart  BY <2>2 DEF MainStart
  <2>3. CASE MainStartWriter  BY <2>3 DEF MainStartWriter
  <2>4. CASE MainJoin  BY <2>4 DEF MainJoin
  <2>5. CASE MainExit  BY <2>5 DEF MainExit
  <2> QED  BY <1>1, <2>1, <2>2, <2>3, <2>4, <2>5 DEF Main
<1>2. CASE Reader
  <2>1. CASE ReaderTop  BY <2>1 DEF ReaderTop
  <2>2. CASE ReaderTimeout  BY <2>2 DEF ReaderTimeout
  <2>3. CASE ReaderRaise  BY <2>3 DEF ReaderRaise
  <2>4. CASE \E d \in {"cr", "lf", "text"} : ReaderReceive(d)  BY <2>4 DEF ReaderReceive
  <2>5. CASE ReaderTest("test0", 0, "raw", "test1")  BY <2>5
  <2>6. CASE ReaderTest("test1", 1, "crlf", "test2")  BY <2>6
  <2>7. CASE ReaderTest("test2", 2, "escape", "test3")  BY <2>7
  <2>8. CASE ReaderTest("test3", 3, "hex", "drop")  BY <2>8
  <2>9. CASE DisplayRaw  BY <2>9 DEF DisplayRaw
  <2>10. CASE DisplayCrLf  BY <2>10 DEF DisplayCrLf
  <2>11. CASE DisplayLf  BY <2>11 DEF DisplayLf
  <2>12. CASE DisplayCr  BY <2>12 DEF DisplayCr
  <2>13. CASE NotCrLf \/ NotLf  BY <2>13 DEF NotCrLf, NotLf
  <2>14. CASE Display("escape", "escaped") \/ Display("hex", "hex")  BY <2>14
  <2>15. CASE Drop  BY <2>15 DEF Drop
  <2>16. CASE ReaderDies  BY <2>16 DEF ReaderDies
  <2> QED
    BY <1>2, <2>1, <2>2, <2>3, <2>4, <2>5, <2>6, <2>7, <2>8, <2>9, <2>10, <2>11, <2>12,
         <2>13, <2>14, <2>15, <2>16 DEF Reader
<1>3. CASE WriterRuns
  BY <1>3 DEF WriterRuns, WriterTop, WriterGetKey, MenuKey, ExitKey, SendKey, MenuPort,
       MenuInfo, DumpOk, MenuOther, MenuRepr, WrapRepr, MenuLineFeed,
       WrapLineFeed, MenuPrompt, PromptRaise, UploadLine, UploadEnd, UploadRaise
<1>4. CASE Answer
  BY <1>4 DEF Answer, PromptRefused, PromptBaud, PromptDies, PromptFile, DumpOk
<1>5. CASE Unplug  BY <1>5 DEF Unplug
<1>6. CASE \E k \in Key : Type(k)  BY <1>6 DEF Type
<1>7. CASE UNCHANGED vars  BY <1>7
<1> QED  BY <1>1, <1>2, <1>3, <1>4, <1>5, <1>6, <1>7 DEF Next

-----------------------------------------------------------------------------
LEMMA TypeParts == TypeOK <=> Flags /\ Keys /\ Places /\ ReaderPlaces /\ Numbers
  BY DEF TypeOK, Flags, Keys, Places, ReaderPlaces, Numbers

LEMMA InvStep == Inv /\ [Next]_vars => Inv'
<1> SUFFICES ASSUME Inv, [Next]_vars PROVE Inv'  OBVIOUS
<1>1. Flags /\ Keys /\ Places /\ ReaderPlaces /\ Numbers  BY TypeParts DEF Inv
<1>2. Flags' /\ Keys' /\ Places' /\ ReaderPlaces' /\ Numbers'
  BY <1>1, FlagsStep, KeysStep, PlacesStep, ReaderPlacesStep, NumbersStep DEF Inv
<1>3. TypeOK'  BY <1>2 DEF TypeOK, Flags, Keys, Places, ReaderPlaces, Numbers
<1>4. ModeInv' /\ PlaceInv' /\ TestInv' /\ LateInv'
  BY <1>1, ModeInvStep, PlaceInvStep, TestInvStep, LateInvStep DEF Inv
<1> QED  BY <1>3, <1>4 DEF Inv

LEMMA SpecInv == Spec => []Inv
  BY InitInv, InvStep, PTL DEF Spec

\* The state of the three threads keeps its types.
THEOREM TypeCorrect == Spec => []TypeOK
<1>1. Inv => TypeOK  BY DEF Inv
<1> QED  BY <1>1, SpecInv, PTL

\* A character is dropped only when the mode was beyond its last value while the reader
\* tested it.
THEOREM Shown == Spec => []ShownUnlessWrapped
<1>1. Inv => ShownUnlessWrapped  BY DEF Inv, TestInv
<1> QED  BY <1>1, SpecInv, PTL

\* Keys are read from a raw tty, and the program leaves the tty as it found it.
THEOREM Tty == Spec => []TtyModes
<1>1. Inv => TtyModes  BY DEF Inv, PlaceInv, TtyModes
<1> QED  BY <1>1, SpecInv, PTL

\* The writer takes at most one key after the end of the session.
THEOREM OneKey == Spec => []OneKeyAfterEnd
<1>1. Inv => OneKeyAfterEnd  BY DEF Inv, LateInv
<1> QED  BY <1>1, SpecInv, PTL
=============================================================================
