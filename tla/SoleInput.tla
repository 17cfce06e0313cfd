----------------------------- MODULE SoleInput -----------------------------
(***************************************************************************)
(* The input channel of the Windows terminal.  Two processes share one     *)
(* mailbox, the shared memory block "input", and no lock:                  *)
(*   - Vim (ConqueSoleWrapper) appends what is typed to its bucket and,    *)
(*     when it reads the mailbox empty, puts the first Chunk symbols of    *)
(*     the bucket there;                                                   *)
(*   - the communicator (ConqueSoleSubprocess.write, called once a loop)   *)
(*     reads the mailbox, clears it, and hands the text to the console,    *)
(*     with every virtual-key sequence turned into a key event.            *)
(* A step is what a process does between two accesses to the mailbox.      *)
(***************************************************************************)
EXTENDS Integers, Sequences, SequencesExt

CONSTANTS Chars,       \* plain characters
          Codes,       \* virtual key codes
          Esc, VkEnd,  \* the "\x1b[" and the "VK" around a key code
          Width,       \* bytes of a symbol once encoded in utf-8
          Texts,       \* what one call of write() may carry
          Chunk,       \* symbols moved to the mailbox at once (500)
          InputSize,   \* bytes of the mailbox (1000)
          MaxTyped     \* bound: symbols typed in a behaviour

Symbol == Chars \cup Codes \cup {Esc, VkEnd}

ASSUME SoleInputAssumption ==
    /\ Texts \subseteq Seq(Chars)
    /\ Width \in [Symbol -> 1..4]
    /\ Chunk \in Nat \ {0}
    /\ InputSize \in Nat
    /\ MaxTyped \in Nat

VARIABLES bucket,      \* Vim: text not yet put in the mailbox
          vimPc,       \* Vim: "boot", "ready" or "put"
          shmInput,    \* the mailbox; <<>> when its first byte is the terminator
          commPc,      \* communicator: "boot", "read", "clear", "deliver", "exited"
          hand,        \* communicator: text read from the mailbox
          console,     \* how each symbol reached the console: "key" or "char"
          typed,       \* history: everything Vim was asked to write
          delivered,   \* history: every symbol handed to the console
          wiped,       \* history: what the start-up clears threw away
          cutInside    \* history: a put ended inside a key sequence

vimVars  == <<bucket, vimPc, typed, cutInside>>
commVars == <<commPc, hand, console, delivered>>
vars     == <<vimVars, commVars, shmInput, wiped>>

-----------------------------------------------------------------------------
(* The text of a virtual key, and what the console makes of a text.        *)

\* Mutated form: the sequence begins with an escape that is not one of keys.
MutVkSeq(k) == <<"esc", k, VkEnd>>

VkSeq(k) == <<Esc, k, VkEnd>>

\* Mutated form: a key sequence that ends the text is missed.
MutKeyAt(text, i) ==
    /\ i \in 1..Len(text) - 3
    /\ text[i] = Esc /\ text[i+1] \in Codes /\ text[i+2] = VkEnd

\* A key sequence starts at position i of the text.
KeyAt(text, i) ==
    /\ i \in 1..Len(text) - 2
    /\ text[i] = Esc /\ text[i+1] \in Codes /\ text[i+2] = VkEnd

\* The text stops inside a key sequence.
EndsInKey(text) ==
    \E i \in {Len(text) - 1, Len(text)} :
        /\ i >= 1 /\ text[i] = Esc
        /\ i < Len(text) => text[Len(text)] \in Codes

\* Key codes are digits and semicolons, so neither they nor the end of a sequence begin
\* one; what a user types or pastes does not stop inside one.
ASSUME KeySequences ==
    /\ Esc \notin Codes \cup {VkEnd}
    /\ \A text \in Texts : ~EndsInKey(text)

\* CONQUE_WIN32_REGEX_VK.split and the loop over the pieces: each symbol of a text
\* reaches the console as part of a key event or as a plain character.
Events(text) ==
    [i \in 1..Len(text) |->
        IF \E h \in {i - 2, i - 1, i} : KeyAt(text, h) THEN "key" ELSE "char"]

Bytes(text) == FoldLeft(LAMBDA sum, c : sum + Width[c], 0, text)

\* The encoded text and its terminator fit in the block, else mmap raises.
Fits(text) == Bytes(text) + 1 <= InputSize

\* bucket[:500] and bucket[500:]
Head500(text) == SubSeq(text, 1, IF Len(text) < Chunk THEN Len(text) ELSE Chunk)

Tail500(text) == SubSeq(text, Chunk + 1, Len(text))

-----------------------------------------------------------------------------
Init ==
    /\ bucket = <<>> /\ vimPc = "boot" /\ shmInput = <<>>
    /\ commPc = "boot" /\ hand = <<>> /\ console = <<>>
    /\ typed = <<>> /\ delivered = <<>> /\ wiped = <<>>
    /\ cutInside = FALSE

\* wrapper.open, after CreateProcess: the wrapper clears the mailbox.
VimOpen ==
    /\ vimPc = "boot"
    /\ vimPc' = "ready"
    /\ wiped' = wiped \o shmInput
    /\ shmInput' = <<>>
    /\ UNCHANGED <<bucket, typed, cutInside, commVars>>

\* Mutated form: the mailbox is written without looking whether it is empty.
MutWrite(text) ==
    /\ vimPc = "ready"
    /\ Len(typed) + Len(text) <= MaxTyped
    /\ bucket' = bucket \o text
    /\ typed' = typed \o text
    /\ vimPc' = "put"
    /\ UNCHANGED <<cutInside, shmInput, wiped, commVars>>

\* wrapper.write up to its read of the mailbox.
Write(text) ==
    /\ vimPc = "ready"
    /\ Len(typed) + Len(text) <= MaxTyped
    /\ bucket' = bucket \o text
    /\ typed' = typed \o text
    /\ vimPc' = IF shmInput = <<>> THEN "put" ELSE "ready"
    /\ UNCHANGED <<cutInside, shmInput, wiped, commVars>>

VimWrite == \E text \in Texts : Write(text)

VimWriteVk == \E k \in Codes : Write(VkSeq(k))

\* Mutated form: the bucket is cut before the put that may fail.
MutVimPut ==
    /\ vimPc = "put"
    /\ vimPc' = "ready"
    /\ bucket' = Tail500(bucket)
    /\ IF Fits(Head500(bucket))
       THEN /\ shmInput' = Head500(bucket)
            /\ cutInside' = (cutInside \/ \E i \in {Chunk - 1, Chunk} : KeyAt(bucket, i))
       ELSE UNCHANGED <<shmInput, cutInside>>
    /\ UNCHANGED <<typed, wiped, commVars>>

\* The mailbox was read empty: put the first Chunk symbols there.  A block that
\* is too small makes mmap raise before the bucket is cut.
VimPut ==
    /\ vimPc = "put"
    /\ vimPc' = "ready"
    /\ IF Fits(Head500(bucket))
       THEN /\ shmInput' = Head500(bucket)
            /\ bucket' = Tail500(bucket)
            /\ cutInside' = (cutInside \/ \E i \in {Chunk - 1, Chunk} : KeyAt(bucket, i))
       ELSE UNCHANGED <<shmInput, bucket, cutInside>>
    /\ UNCHANGED <<typed, wiped, commVars>>

-----------------------------------------------------------------------------
\* subprocess.open: the communicator clears the mailbox once more.
CommInit ==
    /\ commPc = "boot"
    /\ commPc' = "read"
    /\ wiped' = wiped \o shmInput
    /\ shmInput' = <<>>
    /\ UNCHANGED <<hand, console, delivered, vimVars>>

\* Mutated form: a single symbol is taken for an empty mailbox.
MutCommRead ==
    /\ commPc = "read"
    /\ Len(shmInput) > 1
    /\ hand' = shmInput
    /\ commPc' = "clear"
    /\ UNCHANGED <<console, delivered, shmInput, wiped, vimVars>>

CommRead ==
    /\ commPc = "read"
    /\ shmInput # <<>>
    /\ hand' = shmInput
    /\ commPc' = "clear"
    /\ UNCHANGED <<console, delivered, shmInput, wiped, vimVars>>

CommClear ==
    /\ commPc = "clear"
    /\ shmInput' = <<>>
    /\ commPc' = "deliver"
    /\ UNCHANGED <<hand, console, delivered, wiped, vimVars>>

CommDeliver ==
    /\ commPc = "deliver"
    /\ console' = console \o Events(hand)
    /\ delivered' = delivered \o hand
    /\ hand' = <<>>
    /\ commPc' = "read"
    /\ UNCHANGED <<shmInput, wiped, vimVars>>

\* Where the loop over the pieces stands after the first n symbols: at the beginning, or
\* before or behind a key sequence.
PieceEnds(text, n) == n = 0 \/ KeyAt(text, n + 1) \/ KeyAt(text, n - 2)

\* write_plain or write_vk raises after the first n symbols: the script's bare except ends
\* the communicator with the rest in its hand.
CommRaise(n) ==
    /\ commPc = "deliver"
    /\ n < Len(hand) /\ PieceEnds(hand, n)
    /\ LET part == SubSeq(hand, 1, n) IN
           /\ console' = console \o Events(part)
           /\ delivered' = delivered \o part
    /\ hand' = SubSeq(hand, n + 1, Len(hand))
    /\ commPc' = "exited"
    /\ UNCHANGED <<shmInput, wiped, vimVars>>

\* The communicator ends between two calls of write, or because open failed.
CommExit ==
    /\ commPc \in {"boot", "read"}
    /\ commPc' = "exited"
    /\ UNCHANGED <<hand, console, delivered, shmInput, wiped, vimVars>>

Next ==
    \/ VimOpen \/ VimWrite \/ VimWriteVk \/ VimPut
    \/ CommInit \/ CommRead \/ CommClear \/ CommDeliver \/ CommExit
    \/ \E n \in 0..Len(hand) : CommRaise(n)

\* Vim finishes a call of write it began; the communicator keeps looping.
Fairness ==
    /\ WF_vars(VimOpen) /\ WF_vars(VimPut)
    /\ WF_vars(CommInit) /\ WF_vars(CommRead) /\ WF_vars(CommClear)
    /\ WF_vars(CommDeliver)

Spec == Init /\ [][Next]_vars

FairSpec == Spec /\ Fairness

-----------------------------------------------------------------------------
(* Properties                                                              *)

TypeOK ==
    /\ bucket \in Seq(Symbol) /\ shmInput \in Seq(Symbol)
    /\ hand \in Seq(Symbol) /\ typed \in Seq(Symbol)
    /\ delivered \in Seq(Symbol) /\ wiped \in Seq(Symbol)
    /\ console \in Seq({"key", "char"})
    /\ vimPc \in {"boot", "ready", "put"}
    /\ commPc \in {"boot", "read", "clear", "deliver", "exited"}
    /\ cutInside \in BOOLEAN

\* Check-then-act without a lock: the mailbox Vim saw empty is still empty when
\* Vim writes it, and the mailbox the communicator clears still holds exactly the
\* text it read.  With TypeOK this is inductive.
MailboxProtocol ==
    /\ vimPc = "boot" => bucket = <<>> /\ shmInput = <<>>
    /\ vimPc = "put" => shmInput = <<>>
    /\ commPc = "boot" => delivered = <<>>
    /\ commPc = "clear" => hand = shmInput /\ shmInput # <<>>
    /\ commPc \in {"boot", "read"} => hand = <<>>

\* What has left the bucket and has not reached the console: while the
\* communicator is between its read and its clear the mailbox holds the text
\* that is also in its hand.
InFlight == IF commPc = "clear" THEN shmInput ELSE hand \o shmInput

\* Nothing typed is lost, doubled or reordered by the unlocked mailbox (write
\* tests it for emptiness, the communicator reads and then clears it): what was
\* wiped at start-up, was delivered, is under way and waits in the bucket is, in
\* this order, all that was typed.  Under way for good is what a communicator that
\* raised had in its hand.
NoLossNoDup == wiped \o delivered \o InFlight \o bucket = typed

\* The console gets the events it would have got had the whole input been split
\* on key sequences at once, unless a put ended in the middle of one: cutting the
\* bucket is the only thing that can break a virtual key into characters.
KeysWholeUnlessCut == ~cutInside => console = Events(delivered)

\* The unlocked channel is a queue that loses at most a beginning of its input.
Fifo == INSTANCE InputFifo WITH
            Pieces <- Texts \cup {VkSeq(k) : k \in Codes},
            queue <- InFlight \o bucket, got <- delivered, lost <- wiped

ImplementsFifo == Fifo!FifoSpec

Gone(n) == Len(wiped) + Len(delivered) >= n \/ commPc = "exited"

\* What was put in the mailbox reaches the console while the communicator runs.
PutIsDelivered ==
    \A n \in 1..MaxTyped : (n <= Len(typed) - Len(bucket)) ~> Gone(n)
=============================================================================
