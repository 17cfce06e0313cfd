-------------------------- MODULE SoleInput_proofs --------------------------
(***************************************************************************)
(* Proofs about the input channel, for every alphabet, chunk size, mailbox *)
(* size and amount of typing: its types, the check-then-act protocol of    *)
(* the unlocked mailbox, that nothing is lost, doubled or reordered, and   *)
(* that only the cut of the bucket breaks a key sequence.                  *)
(***************************************************************************)
EXTENDS SoleInput, SequenceTheorems, TLAPS

(* The pieces a call of write may append are texts.                        *)
LEMMA TextsAreSeqs == /\ Texts \subseteq Seq(Symbol)
                      /\ \A k \in Codes : VkSeq(k) \in Seq(Symbol)
<1>1. ASSUME NEW t \in Texts PROVE t \in Seq(Symbol)
  <2>1. t \in Seq(Chars)  BY SoleInputAssumption
  <2>2. Chars \subseteq Symbol  BY DEF Symbol
  <2> QED  BY <2>1, <2>2, SeqMonotonic
<1>2. ASSUME NEW k \in Codes PROVE VkSeq(k) \in Seq(Symbol)
  BY DEF VkSeq, Symbol
<1> QED  BY <1>1, <1>2

(* Cutting a text at Chunk symbols gives two texts whose concatenation it  *)
(* is: bucket[:500] + bucket[500:] is the bucket.                          *)
LEMMA CutIsExact ==
  ASSUME NEW b \in Seq(Symbol)
  PROVE  /\ Head500(b) \in Seq(Symbol)
         /\ Tail500(b) \in Seq(Symbol)
         /\ Head500(b) \o Tail500(b) = b
<1> DEFINE c == IF Len(b) < Chunk THEN Len(b) ELSE Chunk
<1>1. /\ Chunk \in Nat \ {0} /\ Len(b) \in Nat /\ c \in 0..Len(b)
      /\ \A i \in 1..Len(b) : b[i] \in Symbol
  BY SoleInputAssumption, LenProperties, ElementOfSeq
<1>2. Head500(b) = SubSeq(b, 1, c)  BY DEF Head500
<1>3. Head500(b) \in Seq(Symbol)
  BY <1>1, <1>2, SubSeqProperties
<1>4. CASE Len(b) < Chunk
  <2>1. c = Len(b)  BY <1>4
  <2>2. Head500(b) = b  BY <1>2, <2>1, SubSeqFull
  <2>3. Tail500(b) = <<>>
    BY <1>1, <1>4, SubSeqEmpty DEF Tail500
  <2> QED  BY <2>2, <2>3, ConcatEmptySeq, EmptySeq
<1>5. CASE ~(Len(b) < Chunk)
  <2>1. c = Chunk  BY <1>5
  <2>2. \A i \in Chunk + 1 .. Len(b) : b[i] \in Symbol  BY <1>1
  <2>3. Tail500(b) \in Seq(Symbol)
    BY <1>1, <2>2, SubSeqProperties DEF Tail500
  <2>4. SubSeq(b, 1, Chunk) \o SubSeq(b, Chunk + 1, Len(b)) = SubSeq(b, 1, Len(b))
    <3>1. 1 \in 1..Len(b) + 1 /\ Chunk \in (1 - 1)..Len(b) /\ Len(b) \in Chunk..Len(b)
      BY <1>1, <1>5
    <3> QED  BY <3>1, ConcatAdjacentSubSeq
  <2>5. SubSeq(b, 1, Len(b)) = b  BY SubSeqFull
  <2> QED  BY <1>2, <1>3, <2>1, <2>3, <2>4, <2>5 DEF Tail500
<1> QED  BY <1>4, <1>5

(* Cutting a text anywhere gives two texts whose concatenation it is.      *)
LEMMA CutAnywhere ==
  ASSUME NEW t \in Seq(Symbol), NEW n \in 0..Len(t)
  PROVE  /\ SubSeq(t, 1, n) \in Seq(Symbol) /\ SubSeq(t, n + 1, Len(t)) \in Seq(Symbol)
         /\ t = SubSeq(t, 1, n) \o SubSeq(t, n + 1, Len(t))
         /\ Len(SubSeq(t, 1, n)) = n
<1>1. Len(t) \in Nat /\ n \in Nat /\ n <= Len(t) /\ \A i \in 1..Len(t) : t[i] \in Symbol
  BY LenProperties, ElementOfSeq
<1>2. SubSeq(t, 1, n) \in Seq(Symbol) /\ Len(SubSeq(t, 1, n)) = n
  BY <1>1, SubSeqProperties
<1>3. SubSeq(t, n + 1, Len(t)) \in Seq(Symbol)
  <2>1. \A i \in n + 1..Len(t) : t[i] \in Symbol  BY <1>1
  <2> QED  BY <1>1, <2>1, SubSeqProperties
<1>4. SubSeq(t, 1, n) \o SubSeq(t, n + 1, Len(t)) = SubSeq(t, 1, Len(t))
  <2>1. 1 \in 1..Len(t) + 1 /\ n \in (1 - 1)..Len(t) /\ Len(t) \in n..Len(t)  BY <1>1
  <2> QED  BY <2>1, ConcatAdjacentSubSeq
<1>5. SubSeq(t, 1, Len(t)) = t  BY SubSeqFull
<1> QED  BY <1>2, <1>3, <1>4, <1>5

(* What the console makes of a text has one entry per symbol.              *)
LEMMA EventsType ==
  ASSUME NEW t \in Seq(Symbol)
  PROVE  Events(t) \in Seq({"key", "char"})
<1>1. Len(t) \in Nat  BY LenProperties
<1>2. Events(t) \in [1..Len(t) -> {"key", "char"}]  BY DEF Events
<1> QED  BY <1>1, <1>2
-----------------------------------------------------------------------------
Inv == TypeOK /\ MailboxProtocol

LEMMA InitInv == Init => Inv
BY EmptySeq DEF Init, Inv, TypeOK, MailboxProtocol

LEMMA NextInv == Inv /\ [Next]_vars => Inv'
<1> SUFFICES ASSUME Inv, [Next]_vars PROVE Inv'  OBVIOUS
<1> USE DEF Inv, TypeOK, MailboxProtocol
<1>e. <<>> \in Seq(Symbol)  BY EmptySeq
<1>1. CASE VimOpen
  <2>1. (wiped \o shmInput) \in Seq(Symbol)  BY ConcatProperties
  <2> QED  BY <1>1, <1>e, <2>1 DEF VimOpen, commVars
<1>2. ASSUME NEW text \in Seq(Symbol), Write(text) PROVE Inv'
  <2>1. (bucket \o text) \in Seq(Symbol) /\ (typed \o text) \in Seq(Symbol)
    BY ConcatProperties
  <2> QED  BY <1>2, <2>1 DEF Write, commVars
<1>3. CASE VimWrite  BY <1>2, <1>3, TextsAreSeqs DEF VimWrite
<1>4. CASE VimWriteVk  BY <1>2, <1>4, TextsAreSeqs DEF VimWriteVk
<1>5. CASE VimPut
  <2>1. Head500(bucket) \in Seq(Symbol) /\ Tail500(bucket) \in Seq(Symbol)
    BY CutIsExact
  <2>2. shmInput' \in Seq(Symbol) /\ bucket' \in Seq(Symbol)
        /\ cutInside' \in BOOLEAN
    BY <1>5, <2>1 DEF VimPut
  <2> QED  BY <1>5, <2>2 DEF VimPut, commVars
<1>6. CASE CommInit
  <2>1. (wiped \o shmInput) \in Seq(Symbol)  BY ConcatProperties
  <2> QED  BY <1>6, <1>e, <2>1 DEF CommInit, vimVars
<1>7. CASE CommRead  BY <1>7 DEF CommRead, vimVars
<1>8. CASE CommClear  BY <1>8, <1>e DEF CommClear, vimVars
<1>9. CASE CommDeliver
  <2>1. (delivered \o hand) \in Seq(Symbol)  BY ConcatProperties
  <2>2. (console \o Events(hand)) \in Seq({"key", "char"})
    BY EventsType, ConcatProperties
  <2> QED  BY <1>9, <1>e, <2>1, <2>2 DEF CommDeliver, vimVars
<1>10. CASE CommExit  BY <1>10 DEF CommExit, vimVars
<1>11. ASSUME NEW n \in 0..Len(hand), CommRaise(n) PROVE Inv'
  <2>1. SubSeq(hand, 1, n) \in Seq(Symbol) /\ SubSeq(hand, n + 1, Len(hand)) \in Seq(Symbol)
    BY CutAnywhere
  <2>2. (delivered \o SubSeq(hand, 1, n)) \in Seq(Symbol)  BY <2>1, ConcatProperties
  <2>3. (console \o Events(SubSeq(hand, 1, n))) \in Seq({"key", "char"})
    BY <2>1, EventsType, ConcatProperties
  <2> QED  BY <1>11, <2>1, <2>2, <2>3 DEF CommRaise, vimVars
<1>12. CASE UNCHANGED vars  BY <1>12 DEF vars, vimVars, commVars
<1> QED
  BY <1>1, <1>3, <1>4, <1>5, <1>6, <1>7, <1>8, <1>9, <1>10, <1>11, <1>12 DEF Next

(* The state of both processes and of the mailbox keeps its type, whatever *)
(* the interleaving of Vim and the communicator.                           *)
THEOREM TypeCorrect == Spec => []TypeOK
<1>1. Inv => TypeOK  BY DEF Inv
<1> QED  BY InitInv, NextInv, <1>1, PTL DEF Spec

(* The check-then-act steps of write() on both sides never act on a stale  *)
(* check of the mailbox.                                                   *)
THEOREM ProtocolCorrect == Spec => []MailboxProtocol
<1>1. Inv => MailboxProtocol  BY DEF Inv
<1> QED  BY InitInv, NextInv, <1>1, PTL DEF Spec
-----------------------------------------------------------------------------
(* Nothing is lost, doubled or reordered.                                  *)

FifoInv == Inv /\ NoLossNoDup

(* Concatenation of texts.                                                 *)
LEMMA ConcatType ==
  ASSUME NEW s \in Seq(Symbol), NEW t \in Seq(Symbol) PROVE s \o t \in Seq(Symbol)
BY ConcatProperties

(* Kept folded where it is instantiated: the solver would regroup without  *)
(* end.                                                                    *)
Regroups(s, t, u) == s \o (t \o u) = (s \o t) \o u

LEMMA Regroup ==
  ASSUME NEW s \in Seq(Symbol), NEW t \in Seq(Symbol), NEW u \in Seq(Symbol)
  PROVE  Regroups(s, t, u)
BY ConcatAssociative DEF Regroups

LEMMA InFlightType == ASSUME TypeOK PROVE InFlight \in Seq(Symbol)
BY ConcatProperties DEF InFlight, TypeOK

(* A delivery, whole or broken off: part of the hand goes to the console.  *)
HandsOver(part, left) ==
    /\ part \in Seq(Symbol) /\ left \in Seq(Symbol) /\ hand = part \o left
    /\ commPc = "deliver" /\ commPc' # "clear" /\ hand' = left
    /\ delivered' = delivered \o part /\ console' = console \o Events(part)
    /\ UNCHANGED <<shmInput, wiped, bucket, typed, cutInside>>

LEMMA DeliverHandsOver == TypeOK /\ CommDeliver => HandsOver(hand, <<>>)
<1> SUFFICES ASSUME TypeOK, CommDeliver PROVE HandsOver(hand, <<>>)  OBVIOUS
<1>1. hand = hand \o <<>> /\ <<>> \in Seq(Symbol) /\ hand \in Seq(Symbol)
  BY ConcatEmptySeq, EmptySeq DEF TypeOK
<1> QED  BY <1>1 DEF CommDeliver, HandsOver, vimVars

LEMMA RaiseHandsOver ==
  ASSUME TypeOK, NEW n \in 0..Len(hand), CommRaise(n)
  PROVE  HandsOver(SubSeq(hand, 1, n), SubSeq(hand, n + 1, Len(hand)))
<1> DEFINE part == SubSeq(hand, 1, n)
           left == SubSeq(hand, n + 1, Len(hand))
<1>1. part \in Seq(Symbol) /\ left \in Seq(Symbol) /\ hand = part \o left
  BY CutAnywhere DEF TypeOK
<1>2. /\ commPc = "deliver" /\ commPc' = "exited" /\ hand' = left
      /\ delivered' = delivered \o part /\ console' = console \o Events(part)
      /\ UNCHANGED <<shmInput, wiped, bucket, typed, cutInside>>
  BY DEF CommRaise, vimVars
<1> HIDE DEF part, left
<1>3. HandsOver(part, left)  BY <1>1, <1>2 DEF HandsOver
<1> QED  BY <1>3 DEF part, left

LEMMA InFlightHandsOver ==
  ASSUME TypeOK, NEW part, NEW left, HandsOver(part, left)
  PROVE  /\ InFlight = part \o InFlight' /\ InFlight' = left \o shmInput
         /\ InFlight' \in Seq(Symbol)
<1>1. InFlight = (part \o left) \o shmInput /\ InFlight' = left \o shmInput
  BY DEF HandsOver, InFlight
<1>2. Regroups(part, left, shmInput)  BY Regroup DEF TypeOK, HandsOver
<1>3. InFlight' \in Seq(Symbol)  BY <1>1, ConcatType DEF TypeOK, HandsOver
<1> QED  BY <1>1, <1>2, <1>3 DEF Regroups

LEMMA InitFifo == Init => NoLossNoDup
<1>1. <<>> \in Seq(Symbol) /\ <<>> \o <<>> = <<>>  BY EmptySeq, ConcatEmptySeq
<1> QED  BY <1>1 DEF Init, NoLossNoDup, InFlight

LEMMA NextFifo == FifoInv /\ [Next]_vars => NoLossNoDup'
<1> SUFFICES ASSUME FifoInv, [Next]_vars PROVE NoLossNoDup'  OBVIOUS
<1>t. TypeOK /\ MailboxProtocol  BY DEF FifoInv, Inv
<1>f. InFlight \in Seq(Symbol)  BY <1>t, InFlightType
<1>e. \A s \in Seq(Symbol) : s \o <<>> = s /\ <<>> \o s = s
  BY ConcatEmptySeq
<1>n. ((wiped \o delivered) \o InFlight) \o bucket = typed
  BY DEF FifoInv, NoLossNoDup
<1>1. CASE VimOpen
  <2>1. shmInput = <<>>  BY <1>1, <1>t DEF VimOpen, MailboxProtocol
  <2>2. wiped' = wiped  BY <1>1, <1>e, <1>t, <2>1 DEF VimOpen, TypeOK
  <2> QED
    BY <1>1, <1>n, <2>1, <2>2 DEF VimOpen, commVars, NoLossNoDup, InFlight
<1>2. ASSUME NEW text \in Seq(Symbol), Write(text) PROVE NoLossNoDup'
  <2>1. InFlight' = InFlight  BY <1>2 DEF Write, commVars, InFlight
  <2>2. (wiped \o delivered) \o InFlight \in Seq(Symbol)
    BY <1>t, <1>f, ConcatProperties DEF TypeOK
  <2>3. (((wiped \o delivered) \o InFlight) \o bucket) \o text
          = ((wiped \o delivered) \o InFlight) \o (bucket \o text)
    <3>1. Regroups((wiped \o delivered) \o InFlight, bucket, text)
      BY <1>t, <2>2, Regroup DEF TypeOK
    <3> QED  BY <3>1 DEF Regroups
  <2> QED  BY <1>2, <1>n, <2>1, <2>3 DEF Write, commVars, NoLossNoDup
<1>3. CASE VimWrite  BY <1>2, <1>3, TextsAreSeqs DEF VimWrite
<1>4. CASE VimWriteVk  BY <1>2, <1>4, TextsAreSeqs DEF VimWriteVk
<1>5. CASE VimPut
  <2>1. shmInput = <<>> /\ commPc # "clear"
    BY <1>5, <1>t DEF VimPut, MailboxProtocol
  <2>2. InFlight = hand  BY <2>1, <1>e, <1>t DEF InFlight, TypeOK
  <2>3. CASE Fits(Head500(bucket))
    <3>1. /\ shmInput' = Head500(bucket) /\ bucket' = Tail500(bucket)
          /\ UNCHANGED <<typed, wiped, commPc, hand, console, delivered>>
      BY <1>5, <2>3 DEF VimPut, commVars
    <3>2. InFlight' = hand \o Head500(bucket)  BY <2>1, <3>1 DEF InFlight
    <3>3. /\ Head500(bucket) \in Seq(Symbol) /\ Tail500(bucket) \in Seq(Symbol)
          /\ Head500(bucket) \o Tail500(bucket) = bucket
      BY <1>t, CutIsExact DEF TypeOK
    <3>4. wiped \o delivered \in Seq(Symbol)
      BY <1>t, ConcatProperties DEF TypeOK
    <3>5. ((wiped \o delivered) \o (hand \o Head500(bucket))) \o Tail500(bucket)
            = (((wiped \o delivered) \o hand) \o Head500(bucket)) \o Tail500(bucket)
      <4>1. Regroups(wiped \o delivered, hand, Head500(bucket))
        BY <1>t, <3>3, <3>4, Regroup DEF TypeOK
      <4> QED  BY <4>1 DEF Regroups
    <3>7. (wiped \o delivered) \o hand \in Seq(Symbol)
      BY <1>t, <3>4, ConcatType DEF TypeOK
    <3>6. (((wiped \o delivered) \o hand) \o Head500(bucket)) \o Tail500(bucket)
            = ((wiped \o delivered) \o hand) \o (Head500(bucket) \o Tail500(bucket))
      <4>1. Regroups((wiped \o delivered) \o hand, Head500(bucket), Tail500(bucket))
        BY <1>t, <3>3, <3>4, <3>7, Regroup DEF TypeOK
      <4> QED  BY <4>1 DEF Regroups
    <3> QED  BY <1>n, <2>2, <3>1, <3>2, <3>3, <3>5, <3>6 DEF NoLossNoDup
  <2>4. CASE ~Fits(Head500(bucket))
    BY <1>5, <1>n, <2>4 DEF VimPut, commVars, NoLossNoDup, InFlight
  <2> QED  BY <2>3, <2>4
<1>6. CASE CommInit
  <2>1. /\ hand = <<>> /\ delivered = <<>> /\ commPc = "boot" /\ commPc' = "read"
        /\ wiped' = wiped \o shmInput /\ shmInput' = <<>>
        /\ UNCHANGED <<hand, delivered, bucket, typed>>
    BY <1>6, <1>t DEF CommInit, vimVars, MailboxProtocol
  <2>2. InFlight = shmInput /\ InFlight' = <<>>
    BY <2>1, <1>e, <1>t, EmptySeq DEF InFlight, TypeOK
  <2>3. /\ wiped \o shmInput \in Seq(Symbol) /\ wiped \o <<>> = wiped
        /\ (wiped \o shmInput) \o <<>> = wiped \o shmInput
    BY <1>e, <1>t, ConcatProperties DEF TypeOK
  <2> QED  BY <1>n, <2>1, <2>2, <2>3 DEF NoLossNoDup
<1>7. CASE CommRead
  <2>1. /\ hand = <<>> /\ commPc # "clear" /\ commPc' = "clear"
        /\ UNCHANGED <<shmInput, wiped, delivered, bucket, typed>>
    BY <1>7, <1>t DEF CommRead, vimVars, MailboxProtocol
  <2>2. InFlight = shmInput /\ InFlight' = shmInput
    BY <2>1, <1>e, <1>t DEF InFlight, TypeOK
  <2> QED  BY <1>n, <2>1, <2>2 DEF NoLossNoDup
<1>8. CASE CommClear
  <2>1. /\ hand = shmInput /\ commPc = "clear" /\ commPc' = "deliver"
        /\ shmInput' = <<>>
        /\ UNCHANGED <<hand, wiped, delivered, bucket, typed>>
    BY <1>8, <1>t DEF CommClear, vimVars, MailboxProtocol
  <2>2. InFlight = hand /\ InFlight' = hand
    BY <2>1, <1>e, <1>t DEF InFlight, TypeOK
  <2> QED  BY <1>n, <2>1, <2>2 DEF NoLossNoDup
<1>9. ASSUME NEW part, NEW left, HandsOver(part, left) PROVE NoLossNoDup'
  <2>1. /\ delivered' = delivered \o part
        /\ UNCHANGED <<wiped, bucket, typed>>
        /\ part \in Seq(Symbol) /\ InFlight' \in Seq(Symbol)
        /\ wiped \in Seq(Symbol) /\ delivered \in Seq(Symbol)
    BY <1>9, <1>t, InFlightHandsOver DEF HandsOver, TypeOK
  <2>2. InFlight = part \o InFlight'  BY <1>9, <1>t, InFlightHandsOver
  <2>3. wiped \o (delivered \o part) = (wiped \o delivered) \o part
    <3>1. Regroups(wiped, delivered, part)  BY <2>1, Regroup
    <3> QED  BY <3>1 DEF Regroups
  <2>4. wiped \o delivered \in Seq(Symbol)  BY <2>1, ConcatType
  <2>5. (wiped \o delivered) \o (part \o InFlight')
          = ((wiped \o delivered) \o part) \o InFlight'
    <3>1. Regroups(wiped \o delivered, part, InFlight')  BY <2>1, <2>4, Regroup
    <3> QED  BY <3>1 DEF Regroups
  <2> QED  BY <1>n, <2>1, <2>2, <2>3, <2>5 DEF NoLossNoDup
<1>10. CASE CommExit
  BY <1>10, <1>n DEF CommExit, vimVars, NoLossNoDup, InFlight
<1>11. CASE UNCHANGED vars
  BY <1>11, <1>n DEF vars, vimVars, commVars, NoLossNoDup, InFlight
<1>12. CASE CommDeliver  BY <1>9, <1>12, <1>t, DeliverHandsOver
<1>13. ASSUME NEW n \in 0..Len(hand), CommRaise(n) PROVE NoLossNoDup'
  BY <1>9, <1>13, <1>t, RaiseHandsOver
<1> QED
  BY <1>1, <1>3, <1>4, <1>5, <1>6, <1>7, <1>8, <1>10, <1>11, <1>12, <1>13 DEF Next

(* What was typed is, in order, what the start-up wiped, what the console  *)
(* got, what is under way and what waits in the bucket: the unlocked       *)
(* mailbox loses, doubles and reorders nothing.                            *)
THEOREM NothingLost == Spec => []NoLossNoDup
<1>1. Init => FifoInv  BY InitInv, InitFifo DEF FifoInv
<1>2. FifoInv /\ [Next]_vars => FifoInv'  BY NextInv, NextFifo DEF FifoInv
<1>3. FifoInv => NoLossNoDup  BY DEF FifoInv
<1> QED  BY <1>1, <1>2, <1>3, PTL DEF Spec
-----------------------------------------------------------------------------
(* The channel implements the queue of InputFifo.                          *)

(* Taking the first part off a concatenation.                              *)
LEMMA SplitConcat ==
  ASSUME NEW s \in Seq(Symbol), NEW t \in Seq(Symbol)
  PROVE  /\ SubSeq(s \o t, 1, Len(s)) = s
         /\ SubSeq(s \o t, Len(s) + 1, Len(s \o t)) = t
         /\ s # <<>> => Len(s) \in 1..Len(s \o t)
<1> DEFINE c == s \o t
<1>1. /\ c \in Seq(Symbol) /\ Len(c) = Len(s) + Len(t)
      /\ Len(s) \in Nat /\ Len(t) \in Nat
      /\ \A i \in 1..Len(s) + Len(t) :
            c[i] = IF i <= Len(s) THEN s[i] ELSE t[i - Len(s)]
  BY ConcatProperties, LenProperties
<1>2. \A i \in 1..Len(c) : c[i] \in Symbol  BY <1>1, ElementOfSeq
<1>3. SubSeq(c, 1, Len(s)) = s
  <2>1. /\ SubSeq(c, 1, Len(s)) \in Seq(Symbol)
        /\ Len(SubSeq(c, 1, Len(s))) = Len(s)
        /\ \A i \in 1..Len(s) : SubSeq(c, 1, Len(s))[i] = c[i]
    BY <1>1, <1>2, SubSeqProperties
  <2>2. \A i \in 1..Len(s) : SubSeq(c, 1, Len(s))[i] = s[i]  BY <1>1, <2>1
  <2> QED  BY <2>1, <2>2, SeqEqual
<1>4. SubSeq(c, Len(s) + 1, Len(c)) = t
  <2> DEFINE r == SubSeq(c, Len(s) + 1, Len(c))
  <2>1. /\ r \in Seq(Symbol) /\ Len(r) = Len(t)
        /\ \A i \in 1..Len(t) : r[i] = c[Len(s) + i]
    <3>1. \A i \in Len(s) + 1 .. Len(c) : c[i] \in Symbol  BY <1>1, <1>2
    <3>2. /\ r \in Seq(Symbol)
          /\ Len(r) = IF Len(s) + 1 <= Len(c) THEN Len(c) - (Len(s) + 1) + 1 ELSE 0
          /\ \A i \in 1 .. Len(c) - (Len(s) + 1) + 1 : r[i] = c[(Len(s) + 1) + i - 1]
      BY <1>1, <3>1, SubSeqProperties
    <3>3. /\ Len(c) - (Len(s) + 1) + 1 = Len(t)
          /\ Len(s) + 1 <= Len(c) <=> Len(t) > 0
      BY <1>1
    <3>4. ASSUME NEW i \in 1..Len(t) PROVE r[i] = c[Len(s) + i]
      <4>1. (Len(s) + 1) + i - 1 = Len(s) + i  BY <1>1
      <4>2. r[i] = c[(Len(s) + 1) + i - 1]  BY <3>2, <3>3
      <4> QED  BY <4>1, <4>2
    <3>5. Len(r) = Len(t)  BY <1>1, <3>2, <3>3
    <3> HIDE DEF r, c
    <3> QED  BY <3>2, <3>4, <3>5
  <2>2. \A i \in 1..Len(t) : r[i] = t[i]
    <3> SUFFICES ASSUME NEW i \in 1..Len(t) PROVE r[i] = t[i]  OBVIOUS
    <3>1. /\ Len(s) + i \in 1..Len(s) + Len(t)
          /\ ~(Len(s) + i <= Len(s)) /\ (Len(s) + i) - Len(s) = i
      BY <1>1
    <3>2. c[Len(s) + i] = t[(Len(s) + i) - Len(s)]  BY <1>1, <3>1
    <3> HIDE DEF r, c
    <3> QED  BY <2>1, <3>1, <3>2
  <2> HIDE DEF r
  <2>3. r = t  BY <2>1, <2>2, SeqEqual
  <2> QED  BY <2>3 DEF r
<1>5. s # <<>> => Len(s) \in 1..Len(c)
  BY <1>1, EmptySeq
<1> QED  BY <1>3, <1>4, <1>5

queueOf == InFlight \o bucket

LEMMA FifoStep == FifoInv /\ [Next]_vars => [Fifo!FifoNext]_(Fifo!fifoVars)
<1> SUFFICES ASSUME FifoInv, [Next]_vars PROVE [Fifo!FifoNext]_(Fifo!fifoVars)
  OBVIOUS
<1>t. TypeOK /\ MailboxProtocol  BY DEF FifoInv, Inv
<1>f. InFlight \in Seq(Symbol)  BY <1>t, InFlightType
<1>e. \A s \in Seq(Symbol) : s \o <<>> = s /\ <<>> \o s = s
  BY ConcatEmptySeq
<1>s. ASSUME queueOf' = queueOf, delivered' = delivered, wiped' = wiped
      PROVE  UNCHANGED Fifo!fifoVars
  BY <1>s DEF Fifo!fifoVars, queueOf
<1>1. CASE VimOpen
  <2>1. shmInput = <<>>  BY <1>1, <1>t DEF VimOpen, MailboxProtocol
  <2>2. wiped' = wiped  BY <1>1, <1>e, <1>t, <2>1 DEF VimOpen, TypeOK
  <2> QED
    BY <1>1, <1>s, <2>1, <2>2 DEF VimOpen, commVars, queueOf, InFlight
<1>2. ASSUME NEW text \in Seq(Symbol), Write(text),
             text \in Texts \cup {VkSeq(k) : k \in Codes}
      PROVE  Fifo!Send
  <2>1. InFlight' = InFlight  BY <1>2 DEF Write, commVars, InFlight
  <2>2. InFlight \o (bucket \o text) = (InFlight \o bucket) \o text
    <3>1. Regroups(InFlight, bucket, text)  BY <1>t, <1>f, Regroup DEF TypeOK
    <3> QED  BY <3>1 DEF Regroups
  <2>3. /\ bucket' = bucket \o text
        /\ UNCHANGED <<delivered, wiped>>
    BY <1>2 DEF Write, commVars
  <2> QED  BY <1>2, <2>1, <2>2, <2>3 DEF Fifo!Send
<1>3. CASE VimWrite
  BY <1>2, <1>3, TextsAreSeqs DEF VimWrite, Fifo!FifoNext
<1>4. CASE VimWriteVk
  <2>1. PICK k \in Codes : Write(VkSeq(k))  BY <1>4 DEF VimWriteVk
  <2>2. VkSeq(k) \in Seq(Symbol) /\ VkSeq(k) \in {VkSeq(j) : j \in Codes}
    BY TextsAreSeqs
  <2> QED  BY <1>2, <2>1, <2>2 DEF Fifo!FifoNext
<1>5. CASE VimPut
  <2>1. shmInput = <<>> /\ commPc # "clear"
    BY <1>5, <1>t DEF VimPut, MailboxProtocol
  <2>2. InFlight = hand  BY <2>1, <1>e, <1>t DEF InFlight, TypeOK
  <2>3. CASE Fits(Head500(bucket))
    <3>1. /\ shmInput' = Head500(bucket) /\ bucket' = Tail500(bucket)
          /\ UNCHANGED <<typed, wiped, commPc, hand, console, delivered>>
      BY <1>5, <2>3 DEF VimPut, commVars
    <3>2. InFlight' = hand \o Head500(bucket)  BY <2>1, <3>1 DEF InFlight
    <3>3. /\ Head500(bucket) \in Seq(Symbol) /\ Tail500(bucket) \in Seq(Symbol)
          /\ Head500(bucket) \o Tail500(bucket) = bucket
      BY <1>t, CutIsExact DEF TypeOK
    <3>4. hand \o (Head500(bucket) \o Tail500(bucket))
            = (hand \o Head500(bucket)) \o Tail500(bucket)
      <4>1. Regroups(hand, Head500(bucket), Tail500(bucket))
        BY <1>t, <3>3, Regroup DEF TypeOK
      <4> QED  BY <4>1 DEF Regroups
    <3> QED  BY <1>s, <2>2, <3>1, <3>2, <3>3, <3>4 DEF queueOf
  <2>4. CASE ~Fits(Head500(bucket))
    BY <1>5, <1>s, <2>4 DEF VimPut, commVars, queueOf, InFlight
  <2> QED  BY <2>3, <2>4
<1>6. CASE CommInit
  <2>1. /\ hand = <<>> /\ delivered = <<>> /\ commPc = "boot" /\ commPc' = "read"
        /\ wiped' = wiped \o shmInput /\ shmInput' = <<>>
        /\ UNCHANGED <<hand, delivered, bucket, typed>>
    BY <1>6, <1>t DEF CommInit, vimVars, MailboxProtocol
  <2>2. InFlight = shmInput /\ InFlight' = <<>>
    BY <2>1, <1>e, <1>t, EmptySeq DEF InFlight, TypeOK
  <2>3. queueOf = shmInput \o bucket /\ queueOf' = bucket
    BY <1>e, <1>t, <2>1, <2>2 DEF queueOf, TypeOK
  <2>4. CASE shmInput = <<>>
    <3>1. wiped' = wiped  BY <1>e, <1>t, <2>1, <2>4 DEF TypeOK
    <3>2. queueOf = bucket  BY <1>e, <1>t, <2>3, <2>4 DEF TypeOK
    <3> QED  BY <1>s, <2>1, <2>3, <3>1, <3>2
  <2>5. CASE shmInput # <<>>
    <3>1. /\ SubSeq(queueOf, 1, Len(shmInput)) = shmInput
          /\ SubSeq(queueOf, Len(shmInput) + 1, Len(queueOf)) = bucket
          /\ Len(shmInput) \in 1..Len(queueOf)
      BY <1>t, <2>3, <2>5, SplitConcat DEF TypeOK
    <3>2. Fifo!Lose
      BY <2>1, <2>3, <3>1 DEF Fifo!Lose, queueOf
    <3> QED  BY <3>2 DEF Fifo!FifoNext
  <2> QED  BY <2>4, <2>5
<1>7. CASE CommRead
  <2>1. /\ hand = <<>> /\ commPc # "clear" /\ commPc' = "clear"
        /\ UNCHANGED <<shmInput, wiped, delivered, bucket, typed>>
    BY <1>7, <1>t DEF CommRead, vimVars, MailboxProtocol
  <2>2. InFlight = shmInput /\ InFlight' = shmInput
    BY <2>1, <1>e, <1>t DEF InFlight, TypeOK
  <2> QED  BY <1>s, <2>1, <2>2 DEF queueOf
<1>8. CASE CommClear
  <2>1. /\ hand = shmInput /\ commPc = "clear" /\ commPc' = "deliver"
        /\ shmInput' = <<>>
        /\ UNCHANGED <<hand, wiped, delivered, bucket, typed>>
    BY <1>8, <1>t DEF CommClear, vimVars, MailboxProtocol
  <2>2. InFlight = hand /\ InFlight' = hand
    BY <2>1, <1>e, <1>t DEF InFlight, TypeOK
  <2> QED  BY <1>s, <2>1, <2>2 DEF queueOf
<1>9. ASSUME NEW part, NEW left, HandsOver(part, left) PROVE [Fifo!FifoNext]_(Fifo!fifoVars)
  <2>1. /\ delivered' = delivered \o part /\ UNCHANGED <<wiped, bucket>>
        /\ part \in Seq(Symbol) /\ InFlight' \in Seq(Symbol)
        /\ bucket \in Seq(Symbol) /\ delivered \in Seq(Symbol)
    BY <1>9, <1>t, InFlightHandsOver DEF HandsOver, TypeOK
  <2>2. InFlight = part \o InFlight'  BY <1>9, <1>t, InFlightHandsOver
  <2>3. /\ queueOf = part \o queueOf' /\ queueOf' \in Seq(Symbol)
    <3>1. Regroups(part, InFlight', bucket)  BY <2>1, Regroup
    <3>2. queueOf = (part \o InFlight') \o bucket /\ queueOf' = InFlight' \o bucket
      BY <2>1, <2>2 DEF queueOf
    <3> QED  BY <2>1, <3>1, <3>2, ConcatType DEF Regroups
  <2>4. CASE part = <<>>
    <3>1. delivered' = delivered  BY <1>e, <2>1, <2>4
    <3>2. queueOf = queueOf'  BY <1>e, <2>3, <2>4
    <3> QED  BY <1>s, <2>1, <3>1, <3>2
  <2>5. CASE part # <<>>
    <3>1. /\ SubSeq(queueOf, 1, Len(part)) = part
          /\ SubSeq(queueOf, Len(part) + 1, Len(queueOf)) = queueOf'
          /\ Len(part) \in 1..Len(queueOf)
      BY <2>1, <2>3, <2>5, SplitConcat
    <3>2. Fifo!Deliver
      BY <2>1, <2>3, <3>1 DEF Fifo!Deliver, queueOf
    <3> QED  BY <3>2 DEF Fifo!FifoNext
  <2> QED  BY <2>4, <2>5
<1>10. CASE CommExit
  BY <1>10, <1>t, <1>s DEF CommExit, vimVars, queueOf, InFlight
<1>11. CASE UNCHANGED vars
  BY <1>11, <1>s DEF vars, vimVars, commVars, queueOf, InFlight
<1>12. CASE CommDeliver  BY <1>9, <1>12, <1>t, DeliverHandsOver
<1>13. ASSUME NEW n \in 0..Len(hand), CommRaise(n) PROVE [Fifo!FifoNext]_(Fifo!fifoVars)
  BY <1>9, <1>13, <1>t, RaiseHandsOver
<1> QED
  BY <1>1, <1>3, <1>4, <1>5, <1>6, <1>7, <1>8, <1>10, <1>11, <1>12, <1>13 DEF Next

(* The unlocked mailbox and the bucket together implement a queue that may *)
(* only lose a beginning of its input, before its first delivery.          *)
THEOREM RefinesFifo == Spec => ImplementsFifo
<1>1. Init => Fifo!FifoInit
  <2>1. <<>> \in Seq(Symbol) /\ <<>> \o <<>> = <<>>  BY EmptySeq, ConcatEmptySeq
  <2> QED  BY <2>1 DEF Init, InFlight, Fifo!FifoInit
<1>2. Init => FifoInv  BY InitInv, InitFifo DEF FifoInv
<1>3. FifoInv /\ [Next]_vars => FifoInv'  BY NextInv, NextFifo DEF FifoInv
<1> QED  BY <1>1, <1>2, <1>3, FifoStep, PTL DEF Spec, ImplementsFifo, Fifo!FifoSpec
-----------------------------------------------------------------------------
(* Key sequences reach the console whole, unless a put cut one.              *)

\* What left the wiped beginning behind: delivered, under way and in the bucket.
Stream == delivered \o InFlight \o bucket

\* Where one put ended and the next began, in the stream.
Seams == {Len(delivered), Len(delivered) + Len(hand), Len(delivered) + Len(InFlight)}

\* No key sequence of the text lies across the position p.
WholeAt(text, p) == ~KeyAt(text, p - 1) /\ ~KeyAt(text, p)

\* The stream does not stop inside a key sequence, and no seam lies inside one.
KeyInv ==
    /\ ~EndsInKey(Stream)
    /\ ~cutInside => /\ console = Events(delivered)
                     /\ \A p \in Seams : WholeAt(Stream, p)

\* Entries of a concatenation.
LEMMA Entries ==
  ASSUME NEW a \in Seq(Symbol), NEW b \in Seq(Symbol)
  PROVE  /\ a \o b \in Seq(Symbol) /\ Len(a) \in Nat /\ Len(b) \in Nat
         /\ Len(a \o b) = Len(a) + Len(b)
         /\ \A i \in 1..Len(a) : (a \o b)[i] = a[i]
         /\ \A i \in Len(a) + 1..Len(a) + Len(b) : (a \o b)[i] = b[i - Len(a)]
<1>1. /\ a \o b \in Seq(Symbol) /\ Len(a) \in Nat /\ Len(b) \in Nat
      /\ Len(a \o b) = Len(a) + Len(b)
      /\ \A i \in 1..Len(a) + Len(b) : (a \o b)[i] = IF i <= Len(a) THEN a[i] ELSE b[i - Len(a)]
  BY ConcatProperties, LenProperties
<1> DEFINE m == Len(a)
           n == Len(b)
           c == a \o b
<1>2. m \in Nat /\ n \in Nat /\ \A i \in 1..m + n : c[i] = IF i <= m THEN a[i] ELSE b[i - m]
  BY <1>1
<1> HIDE DEF m, n, c
<1>3. \A i \in 1..m : c[i] = a[i]  BY <1>2
<1>4. \A i \in m + 1..m + n : c[i] = b[i - m]  BY <1>2
<1> QED  BY <1>1, <1>3, <1>4 DEF m, n, c

\* A key sequence that ends in the first part of a text is one of that part.
LEMMA KeyLeft ==
  ASSUME NEW a \in Seq(Symbol), NEW b \in Seq(Symbol), NEW h \in Int, h + 2 <= Len(a)
  PROVE  KeyAt(a \o b, h) <=> KeyAt(a, h)
<1> DEFINE m == Len(a)
           n == Len(b)
           c == a \o b
<1>1. m \in Nat /\ n \in Nat /\ Len(c) = m + n /\ \A i \in 1..m : c[i] = a[i]  BY Entries
<1>2. Len(a) = m /\ h + 2 <= m  OBVIOUS
<1> HIDE DEF m, n, c
<1>3. CASE h >= 1
  <2>1. /\ h \in 1..m /\ h + 1 \in 1..m /\ h + 2 \in 1..m
        /\ h \in 1..m - 2 /\ h \in 1..m + n - 2
    BY <1>1, <1>2, <1>3
  <2>2. c[h] = a[h] /\ c[h+1] = a[h+1] /\ c[h+2] = a[h+2]  BY <1>1, <2>1
  <2>3. KeyAt(c, h) <=> KeyAt(a, h)  BY <1>1, <1>2, <2>1, <2>2 DEF KeyAt
  <2> QED  BY <2>3 DEF c
<1>4. CASE ~(h >= 1)
  <2>1. ~KeyAt(c, h) /\ ~KeyAt(a, h)  BY <1>4 DEF KeyAt
  <2> QED  BY <2>1 DEF c
<1> QED  BY <1>3, <1>4

\* A key sequence that starts in the second part of a text is one of that part.
LEMMA KeyRight ==
  ASSUME NEW a \in Seq(Symbol), NEW b \in Seq(Symbol), NEW h \in Int, h > Len(a)
  PROVE  KeyAt(a \o b, h) <=> KeyAt(b, h - Len(a))
<1> DEFINE m == Len(a)
           n == Len(b)
           c == a \o b
           g == h - m
<1>1. /\ m \in Nat /\ n \in Nat /\ Len(c) = m + n
      /\ \A i \in m + 1..m + n : c[i] = b[i - m]
  BY Entries
<1>2. Len(b) = n /\ h > m  OBVIOUS
<1> HIDE DEF m, n, c
<1>3. h \in 1..m + n - 2 <=> g \in 1..n - 2  BY <1>1, <1>2
<1>4. CASE g \in 1..n - 2
  <2>1. /\ h \in m + 1..m + n /\ h + 1 \in m + 1..m + n /\ h + 2 \in m + 1..m + n
        /\ (h + 1) - m = g + 1 /\ (h + 2) - m = g + 2
    BY <1>1, <1>2, <1>4
  <2>2. c[h] = b[g] /\ c[h+1] = b[g+1] /\ c[h+2] = b[g+2]
    <3>1. c[h] = b[h - m] /\ c[h+1] = b[(h + 1) - m] /\ c[h+2] = b[(h + 2) - m]
      BY <1>1, <2>1
    <3> QED  BY <2>1, <3>1
  <2>3. KeyAt(c, h) <=> KeyAt(b, g)
    <3> HIDE DEF g
    <3> QED  BY <1>1, <1>2, <1>3, <1>4, <2>2 DEF KeyAt
  <2> QED  BY <2>3 DEF c, g, m
<1>5. CASE g \notin 1..n - 2
  <2>1. ~KeyAt(c, h) /\ ~KeyAt(b, g)
    <3> HIDE DEF g
    <3> QED  BY <1>1, <1>2, <1>3, <1>5 DEF KeyAt
  <2> QED  BY <2>1 DEF c, g, m
<1> QED  BY <1>4, <1>5

\* Cut where no key sequence lies, the parts of a text give the events of the whole.
LEMMA EventsOfParts ==
  ASSUME NEW a \in Seq(Symbol), NEW b \in Seq(Symbol), WholeAt(a \o b, Len(a))
  PROVE  Events(a \o b) = Events(a) \o Events(b)
<1> DEFINE m == Len(a)
           n == Len(b)
           c == a \o b
           e == Events(c)
           f == Events(a)
           g == Events(b)
           key(t, i) == \E h \in {i - 2, i - 1, i} : KeyAt(t, h)
<1>1. m \in Nat /\ n \in Nat /\ Len(c) = m + n /\ c \in Seq(Symbol)  BY Entries
<1>2. ~KeyAt(c, m - 1) /\ ~KeyAt(c, m)  BY DEF WholeAt
<1>3. \A h \in Int : h + 2 <= m => (KeyAt(c, h) <=> KeyAt(a, h))  BY KeyLeft
<1>4. \A h \in Int : h > m => (KeyAt(c, h) <=> KeyAt(b, h - m))  BY KeyRight
<1>5. Len(a) = m /\ Len(b) = n  OBVIOUS
<1>6. /\ e = [i \in 1..m + n |-> IF key(c, i) THEN "key" ELSE "char"]
      /\ f = [i \in 1..m |-> IF key(a, i) THEN "key" ELSE "char"]
      /\ g = [i \in 1..n |-> IF key(b, i) THEN "key" ELSE "char"]
  BY <1>1 DEF Events
<1>7. /\ f \in Seq({"key", "char"}) /\ g \in Seq({"key", "char"}) /\ e \in Seq({"key", "char"})
  BY <1>1, EventsType
<1> HIDE DEF m, n, c, e, f, g
<1>8. Len(e) = m + n /\ Len(f) = m /\ Len(g) = n  BY <1>1, <1>6
<1>9. /\ f \o g \in Seq({"key", "char"}) /\ Len(f \o g) = m + n
      /\ \A i \in 1..m + n : (f \o g)[i] = IF i <= m THEN f[i] ELSE g[i - m]
  BY <1>7, <1>8, ConcatProperties
<1>10. ASSUME NEW i \in 1..m PROVE e[i] = f[i]
  <2>1. i \in 1..m + n /\ i \in Int /\ i <= m  BY <1>1
  <2>2. \A h \in {i - 2, i - 1, i} : KeyAt(c, h) <=> KeyAt(a, h)
    <3> SUFFICES ASSUME NEW h \in {i - 2, i - 1, i} PROVE KeyAt(c, h) <=> KeyAt(a, h)
      OBVIOUS
    <3>1. h \in Int /\ h <= m  BY <1>1, <2>1
    <3>2. CASE h + 2 <= m  BY <1>3, <3>1, <3>2
    <3>3. CASE ~(h + 2 <= m)
      <4>1. h = m - 1 \/ h = m  BY <1>1, <3>1, <3>3
      <4>2. h \notin 1..m - 2  BY <1>1, <3>3
      <4>3. ~KeyAt(c, h) /\ ~KeyAt(a, h)  BY <1>2, <1>5, <4>1, <4>2 DEF KeyAt
      <4> QED  BY <4>3
    <3> QED  BY <3>2, <3>3
  <2>3. key(c, i) <=> key(a, i)  BY <2>2
  <2>4. e[i] = IF key(c, i) THEN "key" ELSE "char"  BY <1>6, <2>1
  <2>5. f[i] = IF key(a, i) THEN "key" ELSE "char"  BY <1>6
  <2> QED  BY <2>3, <2>4, <2>5
<1>11. ASSUME NEW i \in m + 1..m + n PROVE e[i] = g[i - m]
  <2>1. i \in 1..m + n /\ i \in Int /\ i > m /\ i - m \in 1..n  BY <1>1
  <2>2. \A k \in {0, 1, 2} : KeyAt(c, i - k) <=> KeyAt(b, (i - m) - k)
    <3> SUFFICES ASSUME NEW k \in {0, 1, 2}
                 PROVE  KeyAt(c, i - k) <=> KeyAt(b, (i - m) - k)
      OBVIOUS
    <3>1. i - k \in Int /\ (i - k) - m = (i - m) - k  BY <1>1, <2>1
    <3>2. CASE i - k > m  BY <1>4, <3>1, <3>2
    <3>3. CASE ~(i - k > m)
      <4>1. i - k = m - 1 \/ i - k = m  BY <1>1, <2>1, <3>3
      <4>2. (i - m) - k \notin 1..n - 2  BY <1>1, <2>1, <3>3
      <4>3. ~KeyAt(c, i - k) /\ ~KeyAt(b, (i - m) - k)  BY <1>2, <1>5, <4>1, <4>2 DEF KeyAt
      <4> QED  BY <4>3
    <3> QED  BY <3>2, <3>3
  <2>3. i - 0 = i /\ (i - m) - 0 = i - m  BY <1>1, <2>1
  <2>4. /\ KeyAt(c, i) <=> KeyAt(b, i - m)
        /\ KeyAt(c, i - 1) <=> KeyAt(b, (i - m) - 1)
        /\ KeyAt(c, i - 2) <=> KeyAt(b, (i - m) - 2)
    BY <2>2, <2>3
  <2>5. key(c, i) <=> key(b, i - m)  BY <2>4
  <2>6. e[i] = IF key(c, i) THEN "key" ELSE "char"  BY <1>6, <2>1
  <2>7. g[i - m] = IF key(b, i - m) THEN "key" ELSE "char"  BY <1>6, <2>1
  <2> QED  BY <2>5, <2>6, <2>7
<1>12. \A i \in 1..m + n : e[i] = (f \o g)[i]
  <2> SUFFICES ASSUME NEW i \in 1..m + n PROVE e[i] = (f \o g)[i]  OBVIOUS
  <2>1. CASE i <= m
    <3>1. i \in 1..m  BY <1>1, <2>1
    <3> QED  BY <1>9, <1>10, <2>1, <3>1
  <2>2. CASE ~(i <= m)
    <3>1. i \in m + 1..m + n  BY <1>1, <2>2
    <3> QED  BY <1>9, <1>11, <2>2, <3>1
  <2> QED  BY <2>1, <2>2
<1>13. e = f \o g  BY <1>7, <1>8, <1>9, <1>12, SeqEqual
<1> QED  BY <1>13 DEF c, e, f, g

\* Appending to a text that does not stop inside a key sequence makes no sequence that
\* starts in it.
LEMMA WholeStays ==
  ASSUME NEW a \in Seq(Symbol), NEW b \in Seq(Symbol), ~EndsInKey(a),
         NEW p \in 0..Len(a), WholeAt(a, p)
  PROVE  WholeAt(a \o b, p)
<1> DEFINE m == Len(a)
           c == a \o b
<1>1. m \in Nat /\ p \in Int /\ p <= m /\ \A i \in 1..m : c[i] = a[i]
  BY Entries
<1>2. \A h \in Int : h + 2 <= m => (KeyAt(c, h) <=> KeyAt(a, h))  BY KeyLeft
<1>3. Len(a) = m  OBVIOUS
<1> HIDE DEF m, c
<1>4. ASSUME NEW h \in {p - 1, p} PROVE ~KeyAt(c, h)
  <2>1. h \in Int /\ h <= m /\ ~KeyAt(a, h)  BY <1>1 DEF WholeAt
  <2>2. CASE h + 2 <= m  BY <1>2, <2>1, <2>2
  <2>3. CASE ~(h + 2 <= m)
    <3> SUFFICES ASSUME KeyAt(c, h) PROVE FALSE  OBVIOUS
    <3>1. h >= 1 /\ c[h] = Esc /\ c[h+1] \in Codes  BY DEF KeyAt
    <3>2. h \in {m - 1, m} /\ h \in 1..m  BY <1>1, <2>1, <2>3, <3>1
    <3>3. a[h] = Esc  BY <1>1, <3>1, <3>2
    <3>4. h < m => a[m] \in Codes
      <4> SUFFICES ASSUME h < m PROVE a[m] \in Codes  OBVIOUS
      <4>1. h + 1 = m /\ m \in 1..m  BY <1>1, <3>2
      <4> QED  BY <1>1, <3>1, <4>1
    <3>5. EndsInKey(a)  BY <1>3, <3>1, <3>2, <3>3, <3>4 DEF EndsInKey
    <3> QED  BY <3>5
  <2> QED  BY <2>2, <2>3
<1> QED  BY <1>4 DEF WholeAt, c

\* A text ends in a key sequence when its last part does, and only if one of its parts does.
LEMMA EndOfParts ==
  ASSUME NEW a \in Seq(Symbol), NEW b \in Seq(Symbol)
  PROVE  /\ EndsInKey(b) => EndsInKey(a \o b)
         /\ EndsInKey(a \o b) => EndsInKey(a) \/ EndsInKey(b)
<1> DEFINE m == Len(a)
           n == Len(b)
           c == a \o b
<1>1. /\ m \in Nat /\ n \in Nat /\ Len(c) = m + n
      /\ \A i \in 1..m : c[i] = a[i]
      /\ \A i \in m + 1..m + n : c[i] = b[i - m]
  BY Entries
<1>2. Len(a) = m /\ Len(b) = n  OBVIOUS
<1> HIDE DEF m, n, c
<1>3. ASSUME EndsInKey(b) PROVE EndsInKey(c)
  <2>1. PICK i \in {n - 1, n} : i >= 1 /\ b[i] = Esc /\ (i < n => b[n] \in Codes)
    BY <1>2, <1>3 DEF EndsInKey
  <2>2. /\ m + i \in {m + n - 1, m + n} /\ m + i >= 1 /\ m + i \in m + 1..m + n
        /\ (m + i) - m = i /\ (m + n) - m = n /\ m + n \in m + 1..m + n
        /\ (m + i < m + n <=> i < n)
    BY <1>1, <2>1
  <2>3. c[m + i] = b[i] /\ c[m + n] = b[n]
    <3>1. c[m + i] = b[(m + i) - m] /\ c[m + n] = b[(m + n) - m]  BY <1>1, <2>2
    <3> QED  BY <2>2, <3>1
  <2> DEFINE j == m + i
             k == m + n
  <2>4. j \in {k - 1, k} /\ j >= 1 /\ c[j] = Esc /\ (j < k => c[k] \in Codes)
    <3>1. j \in {k - 1, k} /\ j >= 1 /\ (j < k => i < n)  BY <1>1, <2>1
    <3>2. c[j] = Esc /\ (i < n => c[k] \in Codes)  BY <2>1, <2>3
    <3> HIDE DEF j, k
    <3> QED  BY <3>1, <3>2
  <2>5. Len(c) = k  BY <1>1
  <2> HIDE DEF j, k
  <2> QED  BY <2>4, <2>5 DEF EndsInKey
<1>4. ASSUME EndsInKey(c) PROVE EndsInKey(a) \/ EndsInKey(b)
  <2>1. PICK i \in {m + n - 1, m + n} :
           i >= 1 /\ c[i] = Esc /\ (i < m + n => c[m + n] \in Codes)
    BY <1>1, <1>4 DEF EndsInKey
  <2>2. i \in Int /\ i >= 1 /\ i <= m + n  BY <1>1, <2>1
  <2>3. CASE i > m
    <3>1. /\ i \in m + 1..m + n /\ m + n \in m + 1..m + n
          /\ i - m \in {n - 1, n} /\ i - m >= 1 /\ (m + n) - m = n
          /\ (i < m + n <=> i - m < n)
      BY <1>1, <2>1, <2>2, <2>3
    <3>2. c[i] = b[i - m] /\ c[m + n] = b[n]
      <4>1. c[m + n] = b[(m + n) - m]  BY <1>1, <3>1
      <4> QED  BY <1>1, <3>1, <4>1
    <3> DEFINE j == i - m
    <3>3. j \in {n - 1, n} /\ j >= 1 /\ b[j] = Esc /\ (j < n => b[n] \in Codes)
      BY <2>1, <3>1, <3>2
    <3> HIDE DEF j
    <3> QED  BY <1>2, <3>3 DEF EndsInKey
  <2>4. CASE ~(i > m)
    <3>1. i \in 1..m /\ a[i] = Esc
      <4>1. i \in 1..m  BY <1>1, <2>2, <2>4
      <4> QED  BY <1>1, <2>1, <4>1
    <3>2. i \in {m - 1, m} /\ (i < m => n = 0)  BY <1>1, <2>1, <2>4
    <3>3. i < m => a[m] \in Codes
      <4> SUFFICES ASSUME i < m PROVE a[m] \in Codes  OBVIOUS
      <4>1. m + n = m /\ i < m + n /\ m \in 1..m  BY <1>1, <3>1, <3>2
      <4> QED  BY <1>1, <2>1, <4>1
    <3>4. i >= 1  BY <2>2
    <3> QED  BY <1>2, <3>1, <3>2, <3>3, <3>4 DEF EndsInKey
  <2> QED  BY <2>3, <2>4
<1> QED  BY <1>3, <1>4 DEF c

\* What a call of write() appends does not stop inside a key sequence.
LEMMA PiecesAreWhole ==
  /\ \A text \in Texts : ~EndsInKey(text)
  /\ \A k \in Codes : ~EndsInKey(VkSeq(k))
<1>1. ASSUME NEW k \in Codes PROVE ~EndsInKey(VkSeq(k))
  <2> DEFINE t == VkSeq(k)
  <2>1. Len(t) = 3 /\ t[2] = k /\ t[3] = VkEnd  BY DEF VkSeq
  <2>2. t[2] # Esc /\ t[3] # Esc  BY <2>1, KeySequences
  <2> HIDE DEF t
  <2>3. ~EndsInKey(t)
    <3>1. Len(t) - 1 = 2  BY <2>1
    <3> QED  BY <2>1, <2>2, <3>1 DEF EndsInKey
  <2> QED  BY <2>3 DEF t
<1> QED  BY <1>1, KeySequences

LEMMA HeadLength ==
  ASSUME NEW b \in Seq(Symbol)
  PROVE  Len(Head500(b)) = IF Len(b) < Chunk THEN Len(b) ELSE Chunk
<1> DEFINE c == IF Len(b) < Chunk THEN Len(b) ELSE Chunk
<1>1. c \in 0..Len(b) /\ \A i \in 1..c : b[i] \in Symbol
  <2>1. Chunk \in Nat /\ Len(b) \in Nat  BY SoleInputAssumption, LenProperties
  <2>2. c \in 0..Len(b) /\ \A i \in 1..c : i \in 1..Len(b)  BY <2>1
  <2> QED  BY <2>2, ElementOfSeq
<1>2. Len(SubSeq(b, 1, c)) = IF 1 <= c THEN c - 1 + 1 ELSE 0
  <2> HIDE DEF c
  <2> QED  BY <1>1, SubSeqProperties
<1>3. Head500(b) = SubSeq(b, 1, c)  BY DEF Head500
<1> HIDE DEF c
<1>4. Len(Head500(b)) = c  BY <1>1, <1>2, <1>3
<1> QED  BY <1>4 DEF c

LEMMA SeamsInStream ==
  ASSUME Inv
  PROVE  /\ Stream \in Seq(Symbol) /\ delivered \o InFlight \in Seq(Symbol)
         /\ InFlight \in Seq(Symbol)
         /\ \A p \in Seams : p \in 0..Len(Stream)
<1>1. /\ bucket \in Seq(Symbol) /\ delivered \in Seq(Symbol) /\ hand \in Seq(Symbol)
      /\ shmInput \in Seq(Symbol) /\ InFlight \in Seq(Symbol)
  BY InFlightType DEF Inv, TypeOK
<1>2. delivered \o InFlight \in Seq(Symbol) /\ Stream \in Seq(Symbol)
  BY <1>1, ConcatType DEF Stream
<1> DEFINE d == Len(delivered)
           g == Len(hand)
           f == Len(InFlight)
           s == Len(Stream)
<1>3. d \in Nat /\ g \in Nat /\ f \in Nat /\ s \in Nat /\ s >= d + f
  <2>1. Len(delivered \o InFlight) = d + f  BY <1>1, Entries
  <2>2. Len(Stream) = Len(delivered \o InFlight) + Len(bucket)  BY <1>1, <1>2, Entries DEF Stream
  <2>3. d \in Nat /\ g \in Nat /\ f \in Nat /\ s \in Nat /\ Len(bucket) \in Nat
    BY <1>1, <1>2, LenProperties
  <2>4. s = d + f + Len(bucket)  BY <2>1, <2>2
  <2> HIDE DEF d, g, f, s
  <2> QED  BY <2>3, <2>4
<1>4. g <= f
  <2>1. CASE commPc = "clear"
    <3>1. hand = InFlight  BY <2>1 DEF Inv, MailboxProtocol, InFlight
    <3> QED  BY <1>3, <3>1
  <2>2. CASE commPc # "clear"
    <3>1. InFlight = hand \o shmInput  BY <2>2 DEF InFlight
    <3>2. Len(InFlight) = Len(hand) + Len(shmInput) /\ Len(shmInput) \in Nat
      BY <1>1, <3>1, Entries
    <3> QED  BY <1>3, <3>2
  <2> QED  BY <2>1, <2>2
<1>5. Seams = {d, d + g, d + f}  BY DEF Seams
<1> HIDE DEF d, g, f, s
<1>6. d \in 0..s /\ d + g \in 0..s /\ d + f \in 0..s  BY <1>3, <1>4
<1>7. \A p \in Seams : p \in 0..s  BY <1>5, <1>6
<1> QED  BY <1>1, <1>2, <1>7 DEF s

\* No key sequence lies across the ends of a text.
LEMMA EndsAreWhole ==
  ASSUME NEW a \in Seq(Symbol) PROVE WholeAt(a, 0) /\ WholeAt(a, Len(a))
<1> DEFINE m == Len(a)
<1>1. m \in Nat /\ Len(a) = m  BY LenProperties
<1> HIDE DEF m
<1>2. 0 \notin 1..m - 2 /\ 0 - 1 \notin 1..m - 2 /\ m \notin 1..m - 2 /\ m - 1 \notin 1..m - 2
  BY <1>1
<1>3. WholeAt(a, 0) /\ WholeAt(a, m)  BY <1>1, <1>2 DEF WholeAt, KeyAt
<1> QED  BY <1>1, <1>3

\* The beginning of a text has no key sequence that the text has not.
LEMMA WholeInPart ==
  ASSUME NEW a \in Seq(Symbol), NEW b \in Seq(Symbol), NEW p \in Int, WholeAt(a \o b, p)
  PROVE  WholeAt(a, p)
<1>1. ASSUME NEW h \in Int, KeyAt(a, h) PROVE KeyAt(a \o b, h)
  <2>1. Len(a) \in Nat /\ h \in 1..Len(a) - 2  BY <1>1, LenProperties DEF KeyAt
  <2>2. h + 2 <= Len(a)  BY <2>1
  <2> QED  BY <1>1, <2>2, KeyLeft
<1>2. p - 1 \in Int  OBVIOUS
<1> QED  BY <1>1, <1>2 DEF WholeAt

\* Two key sequences have no symbol in common.
LEMMA KeysApart ==
  ASSUME NEW t \in Seq(Symbol), NEW h \in Int, KeyAt(t, h)
  PROVE  ~KeyAt(t, h - 2) /\ ~KeyAt(t, h - 1) /\ ~KeyAt(t, h + 1) /\ ~KeyAt(t, h + 2)
<1>1. t[h] = Esc /\ t[h+1] \in Codes /\ t[h+2] = VkEnd  BY DEF KeyAt
<1>2. ASSUME NEW i \in Int, KeyAt(t, i)
      PROVE  t[i] = Esc /\ t[i+1] \in Codes /\ t[i+2] = VkEnd
  BY <1>2 DEF KeyAt
<1>3. /\ (h - 2) + 2 = h /\ (h - 1) + 1 = h /\ h - 2 \in Int /\ h - 1 \in Int
      /\ h + 1 \in Int /\ h + 2 \in Int
  OBVIOUS
<1>4. t[h] \notin Codes \cup {VkEnd} /\ t[h+1] # Esc /\ t[h+2] # Esc
  BY <1>1, KeySequences
<1> QED  BY <1>2, <1>3, <1>4

\* The text in the hand, which lies in the stream behind what was delivered, ends its
\* pieces where no key sequence of the stream lies.
LEMMA PieceEndsWhole ==
  ASSUME Inv, NEW n \in 0..Len(hand), commPc = "deliver", PieceEnds(hand, n),
         WholeAt(Stream, Len(delivered))
  PROVE  WholeAt(Stream, Len(delivered) + n)
<1> DEFINE d == Len(delivered)
           x == shmInput \o bucket
<1>1. /\ delivered \in Seq(Symbol) /\ hand \in Seq(Symbol) /\ shmInput \in Seq(Symbol)
      /\ bucket \in Seq(Symbol) /\ x \in Seq(Symbol) /\ hand \o x \in Seq(Symbol)
      /\ hand \o shmInput \in Seq(Symbol)
  BY ConcatType DEF Inv, TypeOK
<1>2. Stream = delivered \o (hand \o x)
  <2>1. InFlight = hand \o shmInput  BY DEF InFlight
  <2>2. Regroups(delivered, hand \o shmInput, bucket) /\ Regroups(hand, shmInput, bucket)
    BY <1>1, Regroup
  <2> QED  BY <2>1, <2>2 DEF Stream, Regroups
<1>3. Stream \in Seq(Symbol) /\ d \in Nat /\ n \in Nat /\ Len(hand) \in Nat
  BY <1>1, <1>2, ConcatType, LenProperties
<1>4. ASSUME NEW h \in Int, KeyAt(hand, h) PROVE KeyAt(Stream, d + h)
  <2>1. h >= 1 /\ h + 2 <= Len(hand)  BY <1>3, <1>4 DEF KeyAt
  <2>2. KeyAt(hand \o x, h)  BY <1>1, <1>4, <2>1, KeyLeft
  <2>3. d + h \in Int /\ d + h > d /\ (d + h) - d = h  BY <1>3, <2>1
  <2> HIDE DEF x
  <2> QED  BY <1>1, <1>2, <2>2, <2>3, KeyRight
<1>5. CASE n = 0
  <2>1. d + n = d  BY <1>3, <1>5
  <2> QED  BY <2>1
<1>6. CASE KeyAt(hand, n + 1)
  <2>1. KeyAt(Stream, d + (n + 1))  BY <1>3, <1>4, <1>6
  <2>2. d + (n + 1) \in Int /\ (d + (n + 1)) - 2 = (d + n) - 1 /\ (d + (n + 1)) - 1 = d + n
    BY <1>3
  <2> HIDE DEF d
  <2>3. ~KeyAt(Stream, (d + n) - 1) /\ ~KeyAt(Stream, d + n)
    BY <1>3, <2>1, <2>2, KeysApart
  <2> QED  BY <2>3 DEF WholeAt, d
<1>7. CASE KeyAt(hand, n - 2)
  <2>1. KeyAt(Stream, d + (n - 2))  BY <1>3, <1>4, <1>7
  <2>2. d + (n - 2) \in Int /\ (d + (n - 2)) + 1 = (d + n) - 1 /\ (d + (n - 2)) + 2 = d + n
    BY <1>3
  <2> HIDE DEF d
  <2>3. ~KeyAt(Stream, (d + n) - 1) /\ ~KeyAt(Stream, d + n)
    BY <1>3, <2>1, <2>2, KeysApart
  <2> QED  BY <2>3 DEF WholeAt, d
<1> QED  BY <1>5, <1>6, <1>7 DEF PieceEnds

LEMMA KeyInit == Init => KeyInv
<1> SUFFICES ASSUME Init PROVE KeyInv  OBVIOUS
<1>1. /\ delivered = <<>> /\ hand = <<>> /\ bucket = <<>> /\ shmInput = <<>>
      /\ console = <<>> /\ commPc = "boot"
  BY DEF Init
<1>2. <<>> \in Seq(Symbol) /\ <<>> \o <<>> = <<>> /\ Len(<<>>) = 0  BY EmptySeq, ConcatEmptySeq
<1>3. InFlight = <<>> /\ Stream = <<>>  BY <1>1, <1>2 DEF InFlight, Stream
<1>4. Seams = {0}  BY <1>1, <1>2, <1>3 DEF Seams
<1>5. WholeAt(<<>>, 0)  BY <1>2, EndsAreWhole
<1>6. ~EndsInKey(<<>>)  BY <1>2 DEF EndsInKey
<1>7. console = Events(delivered)
  <2>1. Events(<<>>) = <<>>
    <3> DEFINE e == Events(<<>>)
    <3>1. DOMAIN e = 1..0  BY <1>2 DEF Events
    <3>2. e \in Seq({"key", "char"})  BY <1>2, EventsType
    <3> HIDE DEF e
    <3>3. Len(e) = 0
      <4>1. Len(e) \in Nat /\ DOMAIN e = 1..Len(e)  BY <3>2, LenProperties
      <4> QED  BY <3>1, <4>1
    <3>4. e = <<>>  BY <3>2, <3>3, EmptySeq
    <3> QED  BY <3>4 DEF e
  <2> QED  BY <1>1, <2>1
<1> QED  BY <1>3, <1>4, <1>5, <1>6, <1>7 DEF KeyInv

\* Every step keeps the key sequences whole, one case per action.
LEMMA KeyNext == Inv /\ KeyInv /\ [Next]_vars => KeyInv'
<1> SUFFICES ASSUME Inv, KeyInv, [Next]_vars PROVE KeyInv'  OBVIOUS
<1>t. TypeOK /\ MailboxProtocol /\ TypeOK'  BY NextInv DEF Inv
<1>s. /\ bucket \in Seq(Symbol) /\ delivered \in Seq(Symbol) /\ hand \in Seq(Symbol)
      /\ shmInput \in Seq(Symbol) /\ cutInside \in BOOLEAN
      /\ Stream \in Seq(Symbol) /\ delivered \o InFlight \in Seq(Symbol)
      /\ InFlight \in Seq(Symbol)
      /\ \A p \in Seams : p \in 0..Len(Stream)
  BY <1>t, SeamsInStream DEF TypeOK
<1>e. \A s \in Seq(Symbol) : s \o <<>> = s /\ <<>> \o s = s
  BY ConcatEmptySeq
<1>same. ASSUME Stream' = Stream, UNCHANGED <<console, delivered, cutInside>>,
                Seams' \subseteq Seams
         PROVE  KeyInv'
  BY <1>same DEF KeyInv
<1>1. CASE VimOpen
  <2>1. shmInput = <<>>  BY <1>1, <1>t DEF VimOpen, MailboxProtocol
  <2> QED  BY <1>1, <2>1, <1>same DEF VimOpen, commVars, InFlight, Stream, Seams
<1>2. ASSUME NEW text \in Seq(Symbol), ~EndsInKey(text), Write(text) PROVE KeyInv'
  <2>1. /\ bucket' = bucket \o text
        /\ UNCHANGED <<shmInput, hand, commPc, console, delivered, cutInside>>
    BY <1>2 DEF Write, commVars
  <2>2. InFlight' = InFlight  BY <2>1 DEF InFlight
  <2>3. Seams' = Seams  BY <2>1, <2>2 DEF Seams
  <2>4. Stream' = Stream \o text
    <3>1. Regroups(delivered \o InFlight, bucket, text)  BY <1>2, <1>s, Regroup
    <3> QED  BY <2>1, <2>2, <3>1 DEF Stream, Regroups
  <2>5. ~EndsInKey(Stream')  BY <1>2, <1>s, <2>4, EndOfParts DEF KeyInv
  <2>6. ASSUME ~cutInside, NEW p \in Seams PROVE WholeAt(Stream', p)
    <3>1. WholeAt(Stream, p) /\ ~EndsInKey(Stream) /\ p \in 0..Len(Stream)
      BY <1>s, <2>6 DEF KeyInv
    <3> QED  BY <1>2, <1>s, <2>4, <3>1, WholeStays
  <2> QED  BY <2>1, <2>3, <2>5, <2>6 DEF KeyInv
<1>3. CASE VimWrite  BY <1>2, <1>3, TextsAreSeqs, PiecesAreWhole DEF VimWrite
<1>4. CASE VimWriteVk  BY <1>2, <1>4, TextsAreSeqs, PiecesAreWhole DEF VimWriteVk
<1>5. CASE VimPut
  <2>1. shmInput = <<>> /\ commPc # "clear"
    BY <1>5, <1>t DEF VimPut, MailboxProtocol
  <2>2. InFlight = hand  BY <2>1, <1>e, <1>s DEF InFlight
  <2>3. CASE Fits(Head500(bucket))
    <3> DEFINE head == Head500(bucket)
               tail == Tail500(bucket)
               rest == delivered \o hand
               m == Len(rest)
    <3>1. /\ shmInput' = head /\ bucket' = tail
          /\ UNCHANGED <<commPc, hand, console, delivered>>
          /\ cutInside' = (cutInside \/ \E i \in {Chunk - 1, Chunk} : KeyAt(bucket, i))
      BY <1>5, <2>3 DEF VimPut, commVars
    <3>2. head \in Seq(Symbol) /\ tail \in Seq(Symbol) /\ head \o tail = bucket
      BY <1>s, CutIsExact
    <3>3. InFlight' = hand \o head  BY <2>1, <3>1 DEF InFlight
    <3>4. rest \in Seq(Symbol) /\ m \in Nat /\ m = Len(delivered) + Len(hand)
          /\ Len(head) \in Nat
      BY <1>s, <3>2, Entries
    <3> HIDE DEF head, tail
    <3>5. Stream' = Stream /\ Stream = rest \o bucket
      <4>1. Stream' = (delivered \o (hand \o head)) \o tail  BY <3>1, <3>3 DEF Stream
      <4>2. delivered \o (hand \o head) = rest \o head
        <5>1. delivered \in Seq(Symbol) /\ hand \in Seq(Symbol) /\ head \in Seq(Symbol)
          BY <1>s, <3>2
        <5>2. Regroups(delivered, hand, head)  BY <5>1, Regroup
        <5> QED  BY <5>2 DEF Regroups
      <4>3. (rest \o head) \o tail = rest \o (head \o tail)
        <5> HIDE DEF rest
        <5>1. Regroups(rest, head, tail)  BY <3>2, <3>4, Regroup
        <5> QED  BY <5>1 DEF Regroups
      <4> QED  BY <2>2, <3>2, <4>1, <4>2, <4>3 DEF Stream
    <3>6. Seams = {Len(delivered), m} /\ Seams' = {Len(delivered), m, m + Len(head)}
      <4>1. Len(hand \o head) = Len(hand) + Len(head)  BY <1>s, <3>2, Entries
      <4>2. Len(delivered) \in Nat /\ Len(hand) \in Nat  BY <1>s, LenProperties
      <4>3. Len(delivered) + Len(hand \o head) = m + Len(head)  BY <3>4, <4>1, <4>2
      <4> QED  BY <2>2, <3>1, <3>3, <3>4, <4>3 DEF Seams
    <3> HIDE DEF rest, m
    <3>7. ASSUME ~cutInside' PROVE WholeAt(Stream, m + Len(head))
      <4>1. ~cutInside /\ ~KeyAt(bucket, Chunk - 1) /\ ~KeyAt(bucket, Chunk)
        BY <1>s, <3>1, <3>7, Zenon
      <4>2. Chunk \in Nat \ {0} /\ Len(bucket) \in Nat /\ Len(rest) = m
            /\ Len(Stream) = m + Len(bucket)
        BY <1>s, <3>4, <3>5, SoleInputAssumption, Entries DEF m
      <4>3. Len(head) = IF Len(bucket) < Chunk THEN Len(bucket) ELSE Chunk
        BY <1>s, HeadLength DEF head
      <4>4. CASE Len(bucket) < Chunk
        <5>1. WholeAt(Stream, Len(Stream))  BY <1>s, EndsAreWhole
        <5> QED  BY <4>2, <4>3, <4>4, <5>1
      <4>5. CASE ~(Len(bucket) < Chunk)
        <5>1. Len(head) = Chunk  BY <4>3, <4>5
        <5>2. ~KeyAt(Stream, m + Chunk)
          <6>1. m + Chunk \in Int /\ m + Chunk > Len(rest) /\ (m + Chunk) - Len(rest) = Chunk
            BY <3>4, <4>2
          <6>2. KeyAt(rest \o bucket, m + Chunk) <=> KeyAt(bucket, (m + Chunk) - Len(rest))
            BY <1>s, <3>4, <6>1, KeyRight
          <6> QED  BY <3>5, <4>1, <6>1, <6>2
        <5>3. ~KeyAt(Stream, (m + Chunk) - 1)
          <6>1. CASE Chunk = 1
            <7>1. (m + Chunk) - 1 = m  BY <3>4, <6>1
            <7>2. WholeAt(Stream, m)  BY <3>6, <4>1 DEF KeyInv
            <7> QED  BY <7>1, <7>2 DEF WholeAt
          <6>2. CASE Chunk # 1
            <7> DEFINE h == (m + Chunk) - 1
            <7>1. h \in Int /\ h > Len(rest) /\ h - Len(rest) = Chunk - 1
              BY <3>4, <4>2, <6>2
            <7> HIDE DEF h
            <7>2. KeyAt(rest \o bucket, h) <=> KeyAt(bucket, h - Len(rest))
              BY <1>s, <3>4, <7>1, KeyRight
            <7>3. ~KeyAt(Stream, h)  BY <3>5, <4>1, <7>1, <7>2
            <7> QED  BY <7>3 DEF h
          <6> QED  BY <6>1, <6>2
        <5> QED  BY <5>1, <5>2, <5>3 DEF WholeAt
      <4> QED  BY <4>4, <4>5
    <3>8. ~cutInside' => ~cutInside  BY <1>s, <3>1, Zenon
    <3>9. ~EndsInKey(Stream')  BY <3>5 DEF KeyInv
    <3>10. ASSUME ~cutInside' PROVE console' = Events(delivered')
      BY <3>1, <3>8, <3>10 DEF KeyInv
    <3>11. ASSUME ~cutInside', NEW p \in Seams' PROVE WholeAt(Stream', p)
      <4>1. CASE p = m + Len(head)  BY <3>5, <3>7, <3>11, <4>1
      <4>2. CASE p # m + Len(head)
        <5>1. p \in Seams  BY <3>6, <3>11, <4>2
        <5> QED  BY <3>5, <3>8, <3>11, <5>1 DEF KeyInv
      <4> QED  BY <4>1, <4>2
    <3> QED  BY <3>9, <3>10, <3>11 DEF KeyInv
  <2>4. CASE ~Fits(Head500(bucket))
    <3>1. UNCHANGED <<shmInput, bucket, cutInside, commPc, hand, console, delivered>>
      BY <1>5, <2>4 DEF VimPut, commVars
    <3> QED  BY <3>1, <1>same DEF InFlight, Stream, Seams
  <2> QED  BY <2>3, <2>4
<1>6. CASE CommInit
  <2>1. /\ hand = <<>> /\ delivered = <<>> /\ commPc = "boot" /\ commPc' = "read"
        /\ shmInput' = <<>>
        /\ UNCHANGED <<hand, console, delivered, bucket, cutInside>>
    BY <1>6, <1>t DEF CommInit, vimVars, MailboxProtocol
  <2>2. InFlight = shmInput /\ InFlight' = <<>>
    BY <2>1, <1>e, <1>s, EmptySeq DEF InFlight
  <2>3. Stream = shmInput \o bucket /\ Stream' = bucket
    <3>1. <<>> \in Seq(Symbol)  BY EmptySeq
    <3> QED  BY <2>1, <2>2, <1>e, <1>s, <3>1 DEF Stream
  <2>4. Seams' = {0}
    <3>1. Len(<<>>) = 0  BY EmptySeq
    <3> QED  BY <2>1, <2>2, <3>1 DEF Seams
  <2>5. ~EndsInKey(Stream')  BY <1>s, <2>3, EndOfParts DEF KeyInv
  <2>6. WholeAt(Stream', 0)  BY <1>s, <2>3, EndsAreWhole
  <2> QED  BY <2>1, <2>4, <2>5, <2>6 DEF KeyInv
<1>7. CASE CommRead
  <2>1. /\ hand = <<>> /\ commPc # "clear" /\ commPc' = "clear" /\ hand' = shmInput
        /\ UNCHANGED <<shmInput, console, delivered, bucket, cutInside>>
    BY <1>7, <1>t DEF CommRead, vimVars, MailboxProtocol
  <2>2. InFlight = shmInput /\ InFlight' = shmInput
    BY <2>1, <1>e, <1>s DEF InFlight
  <2>3. Stream' = Stream  BY <2>1, <2>2 DEF Stream
  <2>4. Seams' \subseteq Seams  BY <2>1, <2>2 DEF Seams
  <2> QED  BY <2>1, <2>3, <2>4, <1>same
<1>8. CASE CommClear
  <2>1. /\ hand = shmInput /\ commPc = "clear" /\ commPc' = "deliver" /\ shmInput' = <<>>
        /\ UNCHANGED <<hand, console, delivered, bucket, cutInside>>
    BY <1>8, <1>t DEF CommClear, vimVars, MailboxProtocol
  <2>2. InFlight = hand /\ InFlight' = hand
    BY <2>1, <1>e, <1>s DEF InFlight
  <2>3. Stream' = Stream  BY <2>1, <2>2 DEF Stream
  <2>4. Seams' \subseteq Seams  BY <2>1, <2>2 DEF Seams
  <2> QED  BY <2>1, <2>3, <2>4, <1>same
<1>9. ASSUME NEW part, NEW left, HandsOver(part, left),
             ~cutInside => WholeAt(Stream, Len(delivered) + Len(part))
      PROVE  KeyInv'
  <2>1. /\ hand = part \o left /\ commPc = "deliver" /\ hand' = left
        /\ delivered' = delivered \o part /\ console' = console \o Events(part)
        /\ UNCHANGED <<shmInput, bucket, cutInside>>
        /\ part \in Seq(Symbol) /\ left \in Seq(Symbol)
    BY <1>9 DEF HandsOver
  <2>2. /\ InFlight = part \o InFlight' /\ InFlight' = left \o shmInput
        /\ InFlight' \in Seq(Symbol)
    BY <1>9, <1>t, InFlightHandsOver
  <2>3. delivered \o (part \o InFlight') = (delivered \o part) \o InFlight'
    <3>1. Regroups(delivered, part, InFlight')  BY <1>s, <2>1, <2>2, Regroup
    <3> QED  BY <3>1 DEF Regroups
  <2>4. Stream' = Stream  BY <2>1, <2>2, <2>3 DEF Stream
  <2>5. Seams' \subseteq Seams \cup {Len(delivered) + Len(part)}
    <3> DEFINE d == Len(delivered)
               p == Len(part)
               l == Len(left)
               f == Len(shmInput)
    <3>1. /\ Len(delivered \o part) = d + p /\ Len(hand) = p + l
          /\ Len(InFlight') = l + f /\ Len(InFlight) = p + (l + f)
          /\ d \in Nat /\ p \in Nat /\ l \in Nat /\ f \in Nat
      BY <1>s, <2>1, <2>2, Entries
    <3>2. Seams = {d, d + (p + l), d + (p + (l + f))}  BY <3>1 DEF Seams
    <3>3. Seams' = {d + p, (d + p) + l, (d + p) + (l + f)}  BY <2>1, <3>1 DEF Seams
    <3> HIDE DEF d, p, l, f
    <3>4. (d + p) + l = d + (p + l) /\ (d + p) + (l + f) = d + (p + (l + f))  BY <3>1
    <3>5. Seams' \subseteq Seams \cup {d + p}  BY <3>2, <3>3, <3>4
    <3> QED  BY <3>5 DEF d, p
  <2>6. ASSUME ~cutInside PROVE console' = Events(delivered')
    <3>1. WholeAt(Stream, Len(delivered)) /\ console = Events(delivered)
      BY <2>6 DEF KeyInv, Seams
    <3>2. /\ delivered \o part \in Seq(Symbol) /\ InFlight' \o bucket \in Seq(Symbol)
          /\ Stream = (delivered \o part) \o (InFlight' \o bucket)
      <4>1. delivered \o part \in Seq(Symbol) /\ InFlight' \o bucket \in Seq(Symbol)
        BY <1>s, <2>1, <2>2, ConcatType
      <4>2. Regroups(delivered \o part, InFlight', bucket)  BY <1>s, <2>2, <4>1, Regroup
      <4> QED  BY <2>2, <2>3, <4>1, <4>2 DEF Stream, Regroups
    <3>3. Len(delivered) \in Int  BY <1>s, LenProperties
    <3>4. WholeAt(delivered \o part, Len(delivered))  BY <3>1, <3>2, <3>3, WholeInPart
    <3>5. Events(delivered \o part) = Events(delivered) \o Events(part)
      BY <1>s, <2>1, <3>4, EventsOfParts
    <3> QED  BY <2>1, <3>1, <3>5
  <2>7. ASSUME ~cutInside, NEW q \in Seams' PROVE WholeAt(Stream, q)
    BY <1>9, <2>5, <2>7 DEF KeyInv
  <2> QED  BY <2>1, <2>4, <2>6, <2>7 DEF KeyInv
<1>10. CASE CommExit
  <2>1. /\ commPc # "clear" /\ commPc' # "clear"
        /\ UNCHANGED <<hand, shmInput, console, delivered, bucket, cutInside>>
    BY <1>10 DEF CommExit, vimVars
  <2> QED  BY <2>1, <1>same DEF InFlight, Stream, Seams
<1>11. CASE UNCHANGED vars
  BY <1>11, <1>same DEF vars, vimVars, commVars, InFlight, Stream, Seams
<1>12. CASE CommDeliver
  <2>1. HandsOver(hand, <<>>)  BY <1>12, <1>t, DeliverHandsOver
  <2>2. ~cutInside => WholeAt(Stream, Len(delivered) + Len(hand))  BY DEF KeyInv, Seams
  <2> QED  BY <1>9, <2>1, <2>2
<1>13. ASSUME NEW n \in 0..Len(hand), CommRaise(n) PROVE KeyInv'
  <2>1. HandsOver(SubSeq(hand, 1, n), SubSeq(hand, n + 1, Len(hand)))
    BY <1>13, <1>t, RaiseHandsOver
  <2>2. Len(SubSeq(hand, 1, n)) = n  BY <1>s, CutAnywhere
  <2>3. commPc = "deliver" /\ PieceEnds(hand, n)  BY <1>13 DEF CommRaise
  <2>4. ~cutInside => WholeAt(Stream, Len(delivered))  BY DEF KeyInv, Seams
  <2>5. ~cutInside => WholeAt(Stream, Len(delivered) + n)  BY <2>3, <2>4, PieceEndsWhole
  <2> QED  BY <1>9, <2>1, <2>2, <2>5
<1> QED
  BY <1>1, <1>3, <1>4, <1>5, <1>6, <1>7, <1>8, <1>10, <1>11, <1>12, <1>13 DEF Next

(* For every alphabet, chunk and mailbox size: however the input was cut    *)
(* into calls and puts, the console gets the events of the whole input,     *)
(* unless a put of the bucket ended inside a key sequence.                  *)
THEOREM KeysStayWhole == Spec => []KeysWholeUnlessCut
<1>1. Init => Inv /\ KeyInv  BY InitInv, KeyInit
<1>2. (Inv /\ KeyInv) /\ [Next]_vars => (Inv /\ KeyInv)'  BY NextInv, KeyNext
<1>3. KeyInv => KeysWholeUnlessCut  BY DEF KeyInv, KeysWholeUnlessCut
<1> QED  BY <1>1, <1>2, <1>3, PTL DEF Spec
=============================================================================
