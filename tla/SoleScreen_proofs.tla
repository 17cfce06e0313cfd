------------------------- MODULE SoleScreen_proofs -------------------------
(***************************************************************************)
(* Proofs about the screen of a Windows terminal, for every set of widths  *)
(* and in both modes: its types, that the writer's lines are never wider   *)
(* than the reader's, that the console follows the window, and that Vim    *)
(* follows the communicator from block to block and never goes back.       *)
(***************************************************************************)
EXTENDS SoleScreen, TLAPS

LEMMA TypeInit == Init => TypeOK
<1> SUFFICES ASSUME Init PROVE TypeOK  OBVIOUS
<1>1. InitWidth \in Nat \ {0}  BY SoleScreenAssumption
<1>6. window \in Widths \cup {MaxWindow}  BY SoleScreenAssumption DEF Init, Clamped
<1>2. resizes \in 0..MaxResizes /\ outputs \in 0..MaxOutputs
  BY SoleScreenAssumption DEF Init
<1>3. adding \in BOOLEAN /\ hasData \in BOOLEAN /\ nearEnd \in BOOLEAN
      /\ dropped \in BOOLEAN /\ resizeLost \in BOOLEAN
  BY Zenon DEF Init
<1>4. /\ shmResize \in Widths \cup {0} /\ asked \in Widths /\ columns \in Widths
      /\ cmdWidth \in Widths /\ bufferWidth \in Widths
      /\ shmRescroll \in Message \cup {NoMessage} /\ got \in Message \cup {NoMessage}
  BY SoleScreenAssumption, Zenon DEF Init
<1>5. /\ vimKey \in Nat /\ blocks \in Nat \ {0} /\ key \in Nat \ {0} /\ size \in Nat
      /\ vimPc = "boot" /\ commPc = "boot"
  BY <1>1 DEF Init
<1> QED  BY <1>2, <1>3, <1>4, <1>5, <1>6 DEF TypeOK

LEMMA WiderType == \A a, b \in Widths : Wider(a, b) \in Widths
BY DEF Wider

LEMMA TypeNext == TypeOK /\ [Next]_vars => TypeOK'
<1> SUFFICES ASSUME TypeOK, [Next]_vars PROVE TypeOK'  OBVIOUS
<1> USE SoleScreenAssumption DEF TypeOK, vimVars, commVars, progVars, histVars
<1>1. CASE VimOpen
  <2>1. dropped' \in BOOLEAN  BY <1>1, Zenon DEF VimOpen
  <2>2. /\ vimPc' = "ready" /\ shmResize' = 0 /\ shmRescroll' = NoMessage
        /\ UNCHANGED <<asked, columns, got, vimKey, resizes, commVars, progVars, resizeLost>>
    BY <1>1 DEF VimOpen
  <2> QED  BY <2>1, <2>2
<1>2. ASSUME NEW w \in Widths, VimResize(w) PROVE TypeOK'
  <2>1. columns' \in Widths  BY <1>2, WiderType DEF VimResize
  <2>2. resizes' \in 0..MaxResizes  BY <1>2 DEF VimResize
  <2> QED  BY <1>2, <2>1, <2>2 DEF VimResize
<1>3. CASE VimPoll  BY <1>3 DEF VimPoll
<1>4. CASE VimClear
  <2>1. dropped' \in BOOLEAN  BY <1>4, Zenon DEF VimClear
  <2>2. /\ vimPc' = "map" /\ shmRescroll' = NoMessage
        /\ UNCHANGED <<asked, columns, got, vimKey, resizes, shmResize, commVars, progVars,
                       resizeLost>>
    BY <1>4 DEF VimClear
  <2> QED  BY <2>1, <2>2
<1>5. CASE VimMap
  <2>1. Mapped(got) \in Nat  BY DEF Mapped, Message, NoMessage
  <2> QED  BY <1>5, <2>1 DEF VimMap
<1>6. CASE ProgramOutput  BY <1>6 DEF ProgramOutput
<1>7. CASE CommInit
  <2>1. resizeLost' \in BOOLEAN  BY <1>7, Zenon DEF CommInit
  <2>2. /\ commPc' = "check" /\ shmResize' = 0 /\ shmRescroll' = NoMessage
        /\ UNCHANGED <<cmdWidth, adding, window, bufferWidth, blocks, key, size, hasData,
                       vimVars, progVars, dropped>>
    BY <1>7 DEF CommInit
  <2> QED  BY <2>1, <2>2
<1>8. CASE CommCheck  BY <1>8 DEF CommCheck
<1>9. CASE CommResize
  <2>1. resizeLost' \in BOOLEAN  BY <1>9, Zenon DEF CommResize
  <2>2. bufferWidth' \in Widths  BY <1>9, WiderType DEF CommResize
  <2>3. /\ shmResize' = 0 /\ window' = cmdWidth /\ adding' = FALSE /\ commPc' = "swap"
        /\ UNCHANGED <<cmdWidth, blocks, key, size, hasData, shmRescroll, vimVars, progVars,
                       dropped>>
    BY <1>9 DEF CommResize
  <2> QED  BY <2>1, <2>2, <2>3
<1>10. CASE CommSwap
  <2>1. blocks' \in Nat \ {0} /\ key' \in Nat \ {0}  BY <1>10 DEF CommSwap
  <2>2. size' \in Nat  BY <1>10, <2>1 DEF CommSwap
  <2>3. commPc' \in {"notify", "check", "crashed"}  BY <1>10 DEF CommSwap
  <2>4. UNCHANGED <<cmdWidth, adding, window, bufferWidth, hasData, shmResize, shmRescroll,
                    vimVars, progVars, histVars>>
    BY <1>10 DEF CommSwap
  <2> QED  BY <2>1, <2>2, <2>3, <2>4
<1>11. CASE CommNotify
  <2>1. nearEnd' \in BOOLEAN  BY <1>11, Zenon DEF CommNotify
  <2>2. shmRescroll' \in Message  BY <1>11 DEF CommNotify, Message
  <2>3. commPc' \in {"check", "read"}  BY <1>11 DEF CommNotify
  <2>4. UNCHANGED <<cmdWidth, adding, bufferWidth, blocks, key, size, hasData,
                    shmResize, vimVars, outputs, histVars>>
    BY <1>11 DEF CommNotify
  <2>5. window' \in Widths \cup {MaxWindow}  BY <1>11 DEF CommNotify, Clamped
  <2> QED  BY <2>1, <2>2, <2>3, <2>4, <2>5
<1>12. CASE CommRead
  <2>1. commPc' \in {"swap", "check"} /\ adding' \in BOOLEAN /\ hasData' = TRUE
    BY <1>12 DEF CommRead
  <2>2. UNCHANGED <<cmdWidth, window, bufferWidth, blocks, key, size, shmResize, shmRescroll,
                    vimVars, progVars, histVars>>
    BY <1>12 DEF CommRead
  <2> QED  BY <2>1, <2>2
<1>13. CASE CommEnd
  <2>1. commPc' = "ended"  BY <1>13 DEF CommEnd
  <2>2. /\ UNCHANGED <<cmdWidth, adding, window, bufferWidth, blocks, key, size, hasData>>
        /\ UNCHANGED <<shmResize, shmRescroll, vimVars, progVars, histVars>>
    BY <1>13 DEF CommEnd
  <2> QED  BY <2>1, <2>2
<1>14. CASE UNCHANGED vars  BY <1>14 DEF vars
<1> QED
  BY <1>1, <1>2, <1>3, <1>4, <1>5, <1>6, <1>7, <1>8, <1>9, <1>10, <1>11, <1>12, <1>13,
     <1>14
  DEF Next, Comm

\* Every variable keeps its type, whatever the widths and the mode.
THEOREM TypeCorrect == Spec => []TypeOK
<1> QED  BY TypeInit, TypeNext, PTL DEF Spec

-----------------------------------------------------------------------------
(* Widths and the resize mailbox.  A width that waits in the mailbox is the *)
(* last one asked for, unless it was lost; the console has it once the      *)
(* window that was set has been read back.                                  *)
ResizeKnown ==
    ~resizeLost => IF shmResize = 0 THEN Clamped(window) = Clamped(asked)
                                    ELSE shmResize = asked

ReadBack ==
    ~Gone /\ (commPc \in {"swap", "notify"} => adding) => window <= MaxWindow

WidthInv == WriterNeverWider /\ ResizeKnown /\ ReadBack /\ (vimPc = "boot" => shmResize = 0)
            /\ InitWidth <= bufferWidth

LEMMA WidthInit == Init => WidthInv
BY SoleScreenAssumption
DEF Init, WidthInv, WriterNeverWider, ResizeKnown, ReadBack, Clamped

LEMMA WidthNext == TypeOK /\ WidthInv /\ [Next]_vars => WidthInv'
<1> SUFFICES ASSUME TypeOK, WidthInv, [Next]_vars PROVE WidthInv'  OBVIOUS
<1>0. /\ shmResize \in Nat /\ asked \in Nat /\ columns \in Nat /\ cmdWidth \in Nat
      /\ window \in Nat /\ bufferWidth \in Nat /\ InitWidth \in Nat /\ MaxWindow \in Nat
  BY SoleScreenAssumption DEF TypeOK
<1> USE <1>0 DEF WidthInv, WriterNeverWider, ResizeKnown, ReadBack, Gone, vimVars, commVars,
                 histVars
<1>1. CASE VimOpen  BY <1>1 DEF VimOpen
<1>2. ASSUME NEW w \in Widths, VimResize(w) PROVE WidthInv'
  <2>1. w \in Nat \ {0}  BY SoleScreenAssumption
  <2> QED  BY <1>2, <2>1 DEF VimResize, Wider
<1>3. CASE VimPoll \/ VimClear \/ VimMap  BY <1>3 DEF VimPoll, VimClear, VimMap
<1>4. CASE ProgramOutput  BY <1>4 DEF ProgramOutput
<1>5. CASE CommInit
  <2>1. ~resizeLost' => ~resizeLost /\ shmResize = 0  BY <1>5, Zenon DEF CommInit
  <2>2. /\ shmResize' = 0 /\ commPc = "boot" /\ commPc' = "check"
        /\ UNCHANGED <<cmdWidth, window, bufferWidth, columns, asked, vimPc>>
    BY <1>5 DEF CommInit
  <2> QED  BY <2>1, <2>2
<1>6. CASE CommCheck  BY <1>6 DEF CommCheck
<1>7. CASE CommResize
  <2>1. ~resizeLost' => ~resizeLost /\ shmResize = cmdWidth  BY <1>7, Zenon DEF CommResize
  <2>2. /\ shmResize' = 0 /\ window' = cmdWidth /\ bufferWidth' = Wider(cmdWidth, bufferWidth)
        /\ commPc' = "swap" /\ adding' = FALSE
        /\ UNCHANGED <<cmdWidth, columns, asked, vimPc>>
    BY <1>7 DEF CommResize
  <2>3. bufferWidth' <= columns /\ InitWidth <= bufferWidth'  BY <2>2 DEF Wider
  <2>4. ~resizeLost' => cmdWidth = asked
    BY <2>1, SoleScreenAssumption DEF TypeOK
  <2> QED  BY <2>2, <2>3, <2>4
<1>8. CASE CommSwap
  <2>1. commPc' = "check" => adding  BY <1>8 DEF CommSwap
  <2>2. /\ commPc = "swap" /\ commPc' \in {"notify", "check", "crashed"}
        /\ UNCHANGED <<cmdWidth, adding, window, bufferWidth, shmResize, vimVars, histVars>>
    BY <1>8 DEF CommSwap
  <2> QED  BY <2>1, <2>2
<1>9. CASE CommNotify
  <2>1. window' <= MaxWindow /\ Clamped(window') = Clamped(window)
    BY <1>9 DEF CommNotify, Clamped
  <2>2. UNCHANGED <<cmdWidth, bufferWidth, shmResize, vimVars, histVars>>
    BY <1>9 DEF CommNotify
  <2> QED  BY <2>1, <2>2
<1>10. CASE CommRead  BY <1>10 DEF CommRead
<1>11. CASE CommEnd  BY <1>11 DEF CommEnd
<1>12. CASE UNCHANGED vars  BY <1>12 DEF vars
<1> QED
  BY <1>1, <1>2, <1>3, <1>4, <1>5, <1>6, <1>7, <1>8, <1>9, <1>10, <1>11, <1>12 DEF Next, Comm

LEMMA WidthCorrect == Spec => []WidthInv
<1> QED  BY WidthInit, WidthNext, TypeCorrect, PTL DEF Spec

\* The writer's lines are never wider than the lines Vim reads, however often the
\* window changes and whatever resizes are lost.
THEOREM NeverWider == Spec => []WriterNeverWider
<1>1. WidthInv => WriterNeverWider  BY DEF WidthInv
<1> QED  BY <1>1, WidthCorrect, PTL

\* Unless a resize was cleared unread, the console has the width of the window, or the
\* widest it can have, as soon as no resize waits.
THEOREM WindowFollows == Spec => []WindowFollowsUnlessLost
<1>1. ASSUME TypeOK, WidthInv PROVE WindowFollowsUnlessLost
  <2>1. window \in Nat /\ asked \in Nat /\ MaxWindow \in Nat
    BY <1>1, SoleScreenAssumption DEF TypeOK
  <2>2. Settled => window <= MaxWindow  BY <1>1 DEF WidthInv, ReadBack, Settled, Gone
  <2>3. window <= MaxWindow => Clamped(window) = window  BY <2>1 DEF Clamped
  <2> QED  BY <1>1, <2>2, <2>3 DEF WidthInv, ResizeKnown, WindowFollowsUnlessLost
<1> QED  BY <1>1, TypeCorrect, WidthCorrect, PTL

-----------------------------------------------------------------------------
(* Blocks and the rescroll mailbox.  Keys grow on their way from the        *)
(* communicator through the mailbox and Vim's hand to the block Vim maps;   *)
(* a message is about the writer's block as long as it has that block's     *)
(* key; and a block is replaced without a message only if the communicator  *)
(* dies of it.                                                              *)
Waiting == shmRescroll # NoMessage
InHand  == vimPc \in {"clear", "map"}

KeysGrow ==
    /\ vimKey <= key /\ got.key <= key /\ shmRescroll.key <= key
    /\ Waiting => got.key <= shmRescroll.key /\ vimKey <= shmRescroll.key
    /\ InHand  => got \in Message /\ vimKey <= got.key

SameBlock ==
    /\ Waiting /\ shmRescroll.key = key => shmRescroll.blocks = blocks
    /\ got.key = key => got.blocks = blocks
    /\ InitWidth * blocks <= size

MessagesCurrent ==
    /\ Waiting => hasData /\ ~Fast /\ commPc # "boot"
    /\ Waiting /\ commPc \notin {"notify", "crashed", "ended"} => shmRescroll.key = key
    /\ vimPc = "clear" => Waiting
    /\ commPc = "swap" /\ adding => hasData
    /\ commPc = "notify" => hasData /\ ~Fast

\* Where Vim's block comes from, when no message was dropped and no map failed.
Followed ==
    (~Fast /\ ~dropped /\ ~Waiting /\ vimKey # 0
        /\ commPc \notin {"notify", "crashed", "ended"}) =>
            IF vimPc = "map" THEN got.key = key ELSE vimKey = key

KeyInv == KeysGrow /\ SameBlock /\ MessagesCurrent /\ Followed
          /\ NeverBlankWithoutGrowth

LEMMA KeyInit == Init => KeyInv
BY SoleScreenAssumption
DEF Init, KeyInv, KeysGrow, SameBlock, MessagesCurrent, Followed, NeverBlankWithoutGrowth,
    Waiting, InHand, NoMessage

\* A wider buffer makes a larger block.
LEMMA Area == ASSUME NEW a \in Nat, NEW b \in Nat, NEW c \in Nat, a <= b
              PROVE  a * c <= b * c
OBVIOUS

LEMMA MessageFields ==
    ASSUME TypeOK
    PROVE  /\ shmRescroll.key \in Nat /\ shmRescroll.blocks \in Nat
           /\ got.key \in Nat /\ got.blocks \in Nat
           /\ Waiting => shmRescroll \in Message
BY DEF TypeOK, Message, NoMessage, Waiting

\* What a map of the message in Vim's hand gives.
LEMMA MapOfMessage ==
    ASSUME TypeOK, KeyInv, WidthInv, vimPc = "map"
    PROVE  /\ Mapped(got) = 0 \/ Mapped(got) = got.key
           /\ columns = InitWidth => Mapped(got) # 0
<1>1. Mapped(got) = 0 \/ Mapped(got) = got.key  BY DEF Mapped
<1>2. got.key # 0  BY DEF KeyInv, KeysGrow, InHand, Message
<1>3. ASSUME columns = InitWidth, got.key = key PROVE columns * got.blocks <= size
  BY <1>3 DEF KeyInv, SameBlock
<1> QED  BY <1>1, <1>2, <1>3 DEF Mapped

LEMMA KeyNext == TypeOK /\ WidthInv /\ KeyInv /\ [Next]_vars => KeyInv'
<1> SUFFICES ASSUME TypeOK, WidthInv, KeyInv, [Next]_vars PROVE KeyInv'  OBVIOUS
<1>0. /\ key \in Nat \ {0} /\ blocks \in Nat \ {0} /\ vimKey \in Nat /\ size \in Nat
      /\ columns \in Nat /\ bufferWidth \in Nat /\ InitWidth \in Nat
      /\ InitWidth <= bufferWidth
  BY SoleScreenAssumption DEF TypeOK, WidthInv
<1> USE <1>0, MessageFields
    DEF KeyInv, KeysGrow, SameBlock, MessagesCurrent, Followed, NeverBlankWithoutGrowth,
        Waiting, InHand, vimVars, commVars, progVars, histVars
<1>1. CASE VimOpen
  <2>1. ~dropped' => ~dropped /\ ~Waiting  BY <1>1, Zenon DEF VimOpen
  <2>2. /\ vimPc = "boot" /\ vimPc' = "ready" /\ shmRescroll' = NoMessage
        /\ UNCHANGED <<columns, got, vimKey, commVars>>
    BY <1>1 DEF VimOpen
  <2> QED  BY <2>1, <2>2 DEF NoMessage
<1>2. ASSUME NEW w \in Widths, VimResize(w) PROVE KeyInv'
  <2>1. columns' = InitWidth => columns = InitWidth
    BY <1>2, SoleScreenAssumption DEF VimResize, Wider, WidthInv, WriterNeverWider
  <2> QED  BY <1>2, <2>1 DEF VimResize
<1>3. CASE VimPoll  BY <1>3 DEF VimPoll
<1>4. CASE VimClear
  <2>1. ~dropped' => ~dropped /\ shmRescroll = got  BY <1>4, Zenon DEF VimClear
  <2>2. /\ vimPc = "clear" /\ vimPc' = "map" /\ shmRescroll' = NoMessage
        /\ UNCHANGED <<columns, got, vimKey, commVars>>
    BY <1>4 DEF VimClear
  <2> QED  BY <2>1, <2>2 DEF NoMessage
<1>5. CASE VimMap
  <2>1. /\ vimPc = "map" /\ vimPc' = "ready"
        /\ UNCHANGED <<shmRescroll, columns, got, dropped, commVars>>
    BY <1>5 DEF VimMap
  <2>2. vimKey' = 0 \/ vimKey' = got.key  BY <1>5, MapOfMessage DEF VimMap
  <2>3. columns = InitWidth => vimKey' # 0  BY <1>5, MapOfMessage DEF VimMap
  <2>4. vimKey' # 0 => vimKey # 0  BY <1>5 DEF VimMap
  <2> QED  BY <2>1, <2>2, <2>3, <2>4
<1>6. CASE ProgramOutput  BY <1>6 DEF ProgramOutput
<1>7. CASE CommInit
  <2>1. ~Waiting  BY <1>7 DEF CommInit
  <2> QED  BY <1>7, <2>1 DEF CommInit
<1>8. CASE CommCheck  BY <1>8 DEF CommCheck
<1>9. CASE CommResize  BY <1>9 DEF CommResize
<1>10. CASE CommSwap
  <2>1. /\ commPc = "swap" /\ key' = key + 1 /\ blocks' \in Nat
        /\ UNCHANGED <<adding, hasData, shmRescroll, vimVars, dropped>>
    BY <1>10 DEF CommSwap
  <2>2. InitWidth * blocks' <= size'  BY <1>10, <2>1, Area DEF CommSwap
  <2>3. commPc' = IF hasData /\ ~Fast THEN "notify"
                  ELSE IF adding THEN "check" ELSE "crashed"
    BY <1>10 DEF CommSwap
  <2>4. KeysGrow' /\ SameBlock'  BY <2>1, <2>2
  <2>5. MessagesCurrent'  BY <2>1, <2>3
  <2>6. Followed'  BY <2>1, <2>3
  <2> QED  BY <2>1, <2>4, <2>5, <2>6
<1>11. CASE CommNotify
  <2>1. /\ commPc = "notify" /\ shmRescroll' = [key |-> key, blocks |-> blocks]
        /\ commPc' \in {"check", "read"}
        /\ UNCHANGED <<adding, blocks, key, size, hasData, vimVars, dropped>>
    BY <1>11 DEF CommNotify
  <2> QED  BY <2>1 DEF NoMessage
<1>12. CASE CommRead  BY <1>12 DEF CommRead
<1>13. CASE CommEnd  BY <1>13 DEF CommEnd
<1>14. CASE UNCHANGED vars  BY <1>14 DEF vars
<1> QED
  BY <1>1, <1>2, <1>3, <1>4, <1>5, <1>6, <1>7, <1>8, <1>9, <1>10, <1>11, <1>12, <1>13,
     <1>14
  DEF Next, Comm

LEMMA KeyCorrect == Spec => []KeyInv
<1> QED  BY KeyInit, KeyNext, TypeCorrect, WidthCorrect, PTL DEF Spec

\* Between two changes of block the message that waits names the writer's block.
THEOREM MessagesAreCurrent == Spec => []MessageIsCurrent
<1>1. ASSUME TypeOK, KeyInv PROVE MessageIsCurrent
  <2> SUFFICES ASSUME shmRescroll # NoMessage, Settled
               PROVE  shmRescroll = [key |-> key, blocks |-> blocks]
    BY DEF MessageIsCurrent
  <2>1. shmRescroll \in Message  BY <1>1 DEF TypeOK
  <2>2. shmRescroll.key = key
    BY <1>1 DEF Settled, KeyInv, MessagesCurrent, Waiting
  <2>3. shmRescroll.blocks = blocks  BY <1>1, <2>2 DEF KeyInv, SameBlock, Waiting
  <2> QED  BY <2>1, <2>2, <2>3 DEF Message
<1> QED  BY <1>1, TypeCorrect, KeyCorrect, PTL

\* Outside fast mode Vim reads the writer's block, unless a message was cleared
\* unread or a map failed.
THEOREM ReaderFollowsWriter == Spec => []ReaderFollowsUnlessDropped
<1>1. KeyInv => ReaderFollowsUnlessDropped
  BY DEF KeyInv, Followed, ReaderFollowsUnlessDropped, Settled, Waiting
<1> QED  BY <1>1, KeyCorrect, PTL

\* While the window was never widened no map fails.
THEOREM NeverBlank == Spec => []NeverBlankWithoutGrowth
<1>1. KeyInv => NeverBlankWithoutGrowth  BY DEF KeyInv
<1> QED  BY <1>1, KeyCorrect, PTL

\* Vim never goes back to an older block.
THEOREM NeverBack == Spec => ReaderNeverGoesBack
<1>1. ASSUME TypeOK, WidthInv, KeyInv, [Next]_vars
      PROVE  [vimKey' = 0 \/ vimKey' >= vimKey]_vars
  <2>0. vimKey \in Nat  BY <1>1 DEF TypeOK
  <2>1. CASE VimMap
    <3>1. vimKey' = 0 \/ vimKey' = got.key  BY <1>1, <2>1, MapOfMessage DEF VimMap
    <3>2. vimKey <= got.key  BY <1>1, <2>1 DEF VimMap, KeyInv, KeysGrow, InHand
    <3> QED  BY <1>1, <2>0, <3>1, <3>2, MessageFields
  <2>2. CASE ~VimMap
    <3>1. vimKey' = vimKey
      BY <1>1, <2>2
      DEF Next, Comm, VimOpen, VimPoll, VimClear, VimResize, ProgramOutput, CommInit,
          CommCheck, CommResize, CommSwap, CommNotify, CommRead, CommEnd, vars, vimVars
    <3> QED  BY <2>0, <3>1
  <2> QED  BY <2>1, <2>2
<1> QED  BY <1>1, TypeCorrect, WidthCorrect, KeyCorrect, PTL DEF Spec, ReaderNeverGoesBack
=============================================================================
