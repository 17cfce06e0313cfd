----------------------------- MODULE InputFifo -----------------------------
(***************************************************************************)
(* What the input channel of a Conque terminal promises: text that is      *)
(* written is delivered to the program in order, each symbol once.  The    *)
(* only text that may disappear is a beginning of the input, thrown away   *)
(* before anything was delivered (the program was still being started).    *)
(***************************************************************************)
EXTENDS Naturals, Sequences

CONSTANT Pieces        \* the texts one call of write may carry

VARIABLES queue,       \* written and not yet delivered
          got,         \* delivered to the program
          lost         \* thrown away while the program was being started

fifoVars == <<queue, got, lost>>

FifoInit == queue = <<>> /\ got = <<>> /\ lost = <<>>

Send == \E text \in Pieces :
            /\ queue' = queue \o text
            /\ UNCHANGED <<got, lost>>

\* The first n symbols of the queue go to the program.
Deliver == \E n \in 1..Len(queue) :
            /\ got' = got \o SubSeq(queue, 1, n)
            /\ queue' = SubSeq(queue, n + 1, Len(queue))
            /\ UNCHANGED lost

Lose == \E n \in 1..Len(queue) :
            /\ got = <<>>
            /\ lost' = lost \o SubSeq(queue, 1, n)
            /\ queue' = SubSeq(queue, n + 1, Len(queue))
            /\ UNCHANGED got

FifoNext == Send \/ Deliver \/ Lose

FifoSpec == FifoInit /\ [][FifoNext]_fifoVars
=============================================================================
