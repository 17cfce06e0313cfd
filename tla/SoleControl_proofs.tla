------------------------- MODULE SoleControl_proofs -------------------------
(***************************************************************************)
(* Proofs about the life cycle of a Windows terminal, for every poll       *)
(* period, process list, number of processes and number of commands: its   *)
(* types, that the end is published, that a dead terminal never reports    *)
(* life again, and that close leaves no process behind that it could list  *)
(* and end.                                                                *)
(***************************************************************************)
EXTENDS SoleControl, TLAPS

(* Before the communicator has its blocks nobody has written the stats; on *)
(* its way out it has published the end.                                   *)
Published ==
    /\ vimPc = "boot" => ~late
    /\ commPc \in {"start", "startClear", "open", "init"} => shmAlive = "none"
    /\ commPc \in {"kill", "terminate", "exited"} => shmAlive = "no" \/ ~statsReady \/ late

Inv == TypeOK /\ Published /\ DeadEnd

LEMMA InitInv == Init => Inv
<1> SUFFICES ASSUME Init PROVE Inv  OBVIOUS
<1>1. /\ posted \in 0..MaxPosts /\ loops \in 0..PollEvery - 1 /\ others \in 0..MaxOthers
      /\ othersListed \in 0..others /\ escaped \in 0..MaxOthers + 1
  BY SoleControlAssumption DEF Init
<1>2. TypeOK  BY <1>1, Zenon DEF Init, TypeOK
<1>3. Published /\ DeadEnd  BY DEF Init, Published, DeadEnd
<1> QED  BY <1>2, <1>3 DEF Inv

(* Counting loops modulo the poll period.                                  *)
LEMMA LoopsType == \A n \in 0..PollEvery - 1 : (n + 1) % PollEvery \in 0..PollEvery - 1
BY SoleControlAssumption

LEMMA NextInv == Inv /\ [Next]_vars => Inv'
<1> SUFFICES ASSUME Inv, [Next]_vars PROVE Inv'  OBVIOUS
<1> USE SoleControlAssumption
    DEF Inv, TypeOK, Published, DeadEnd, Command, shmVars, vimVars, commVars, progVars,
        listVars, notComm
<1>1. CASE VimOpen
  <2>1. late' \in BOOLEAN  BY <1>1, Zenon DEF VimOpen
  <2>2. /\ vimPc' = "ready" /\ shmAlive' = "none" /\ shmCommand' = "none"
        /\ UNCHANGED <<posted, last, commVars, progVars, listVars>>
    BY <1>1 DEF VimOpen
  <2>3. TypeOK' /\ DeadEnd'  BY <2>1, <2>2
  <2>4. shmAlive # "none" => late'  BY <1>1, Zenon DEF VimOpen
  <2>5. ~late  BY <1>1 DEF VimOpen
  <2>6. Published'  BY <2>2, <2>4, <2>5
  <2> QED  BY <2>3, <2>6
<1>2. ASSUME NEW c \in Command, Post(c) PROVE Inv'  BY <1>2 DEF Post
<1>3. CASE VimIdle \/ VimResume \/ VimClose
  BY <1>2, <1>3 DEF VimIdle, VimResume, VimClose
<1>4. CASE ProgramExit
  <2>1. child' = "dead" /\ childListed' = FALSE
    BY <1>4 DEF ProgramExit
  <2>2. UNCHANGED <<attached, others, othersListed, escaped, shmVars, vimVars, commVars>>
    BY <1>4 DEF ProgramExit
  <2>3. TypeOK'
    <3>1. childListed' \in BOOLEAN  BY <2>1
    <3> QED  BY <2>1, <2>2, <3>1
  <2>4. Published' /\ DeadEnd'  BY <2>2
  <2> QED  BY <2>3, <2>4
<1>5. CASE ProgramSpawn
  <2>1. escaped' \in 0..MaxOthers + 1  BY <1>5 DEF ProgramSpawn, Escape
  <2>2. /\ others' = others + 1 /\ others < MaxOthers
        /\ UNCHANGED <<child, attached, childListed, othersListed, shmVars, vimVars, commVars>>
    BY <1>5 DEF ProgramSpawn
  <2> QED  BY <2>1, <2>2
<1>6. CASE OtherExit
  <2>1. others' \in 0..MaxOthers /\ othersListed' \in 0..others'  BY <1>6 DEF OtherExit
  <2>2. UNCHANGED <<child, attached, childListed, escaped, shmVars, vimVars, commVars>>
    BY <1>6 DEF OtherExit
  <2> QED  BY <2>1, <2>2
<1>7. CASE CommStart \/ CommStartClear
  <2>1. CASE CommStart
    <3>1. isIdle' \in BOOLEAN  BY <2>1, Zenon DEF CommStart
    <3>2. commPc' \in {"startClear", "open"}  BY <2>1 DEF CommStart, Goto
    <3>3. UNCHANGED <<loops, shadowed, firstRead, statsReady, shmVars, notComm>>
          /\ commPc = "start"
      BY <2>1 DEF CommStart
    <3> QED  BY <3>1, <3>2, <3>3
  <2>2. CASE CommStartClear  BY <2>2 DEF CommStartClear, Goto
  <2> QED  BY <1>7, <2>1, <2>2
<1>8. CASE CommOpen
  <2>1. child' \in {"running", "unlaunched"} /\ attached' \in BOOLEAN
    BY <1>8 DEF CommOpen
  <2> QED  BY <1>8, <2>1 DEF CommOpen, Goto
<1>9. CASE CommInit  BY <1>9 DEF CommInit, Goto
<1>10. CASE CommOpenFails  BY <1>10 DEF CommOpenFails, Goto
<1>11. CASE CommTop  BY <1>11 DEF CommTop, Goto
<1>12. CASE CommHealth
  <2>1. CASE HealthOk  BY <1>12, <2>1 DEF CommHealth, Goto
  <2>2. CASE ~HealthOk  BY <1>12, <2>2 DEF CommHealth, Goto
  <2> QED  BY <2>1, <2>2
<1>13. CASE CommPoll \/ CommPollClear
  <2>1. CASE CommPoll
    <3>1. isIdle' \in BOOLEAN
      <4>1. isIdle' = (shmCommand = "idle") \/ isIdle' = isIdle
        BY <2>1 DEF CommPoll
      <4> QED  BY <4>1, Zenon
    <3>2. commPc' \in {"pollClear", "read"} /\ commPc = "poll"
      BY <2>1 DEF CommPoll, Goto
    <3>3. UNCHANGED <<loops, shadowed, firstRead, statsReady, shmVars, notComm>>
      BY <2>1 DEF CommPoll
    <3> QED  BY <3>1, <3>2, <3>3
  <2>2. CASE CommPollClear  BY <2>2 DEF CommPollClear, Goto
  <2> QED  BY <1>13, <2>1, <2>2
<1>14. CASE CommRead
  <2>1. CASE ~firstRead \/ HealthOk
    BY <1>14, <2>1 DEF CommRead, Goto, HealthOk
  <2>2. CASE ~(~firstRead \/ HealthOk) /\ shadowed
    BY <1>14, <2>2 DEF CommRead, Goto
  <2>3. CASE ~(~firstRead \/ HealthOk) /\ ~shadowed
    BY <1>14, <2>3, LoopsType DEF CommRead, Goto, NextLoop
  <2> QED  BY <2>1, <2>2, <2>3
<1>15. CASE CommCheck \/ CommCheckClear
  BY <1>15 DEF CommCheck, CommCheckClear, Goto
<1>16. CASE CommStats \/ CommSwallow
  <2>1. loops' \in 0..PollEvery - 1
    BY <1>16, LoopsType DEF CommStats, CommSwallow, NextLoop
  <2>2. shmAlive # "no"  BY <1>16 DEF CommStats, CommSwallow
  <2>3. CASE CommStats
    <3>1. /\ shmAlive' = "yes" /\ firstRead' = FALSE /\ commPc' = "top"
          /\ UNCHANGED <<isIdle, shadowed, statsReady, shmCommand, notComm>>
      BY <2>3 DEF CommStats, Goto
    <3>2. TypeOK'
      <4>1. commPc' = "top" /\ shmAlive' = "yes" /\ firstRead' \in BOOLEAN  BY <3>1
      <4>2. UNCHANGED <<isIdle, shadowed, statsReady, shmCommand>>  BY <3>1
      <4>3. UNCHANGED <<notComm>>  BY <3>1
      <4> QED  BY <2>1, <4>1, <4>2, <4>3
    <3>3. Published' /\ DeadEnd'  BY <3>1
    <3> QED  BY <3>2, <3>3
  <2>4. CASE CommSwallow
    <3>1. /\ firstRead' = FALSE /\ commPc' = "top"
          /\ UNCHANGED <<isIdle, shadowed, statsReady, shmVars, notComm>>
      BY <2>4 DEF CommSwallow, Goto
    <3>2. TypeOK'
      <4>1. firstRead' \in BOOLEAN  BY <3>1
      <4>2. UNCHANGED <<shmVars, notComm>>  BY <3>1
      <4>3. commPc' = "top" /\ UNCHANGED <<isIdle, shadowed, statsReady>>  BY <3>1
      <4> QED  BY <2>1, <4>1, <4>2, <4>3
    <3>3. Published' /\ DeadEnd'  BY <2>2, <3>1
    <3> QED  BY <3>2, <3>3
  <2> QED  BY <1>16, <2>3, <2>4
<1>17. CASE CommRaise  BY <1>17 DEF CommRaise, Goto
<1>18. CASE CommClose  BY <1>18 DEF CommClose, Goto
<1>19. CASE CommKill
  <2>1. childListed' \in BOOLEAN  BY <1>19, Zenon DEF CommKill
  <2>2. othersListed' \in 0..others  BY <1>19 DEF CommKill
  <2>3. /\ commPc = "kill" /\ commPc' = "terminate"
        /\ UNCHANGED <<isIdle, loops, shadowed, firstRead, statsReady, escaped>>
        /\ UNCHANGED <<shmVars, vimVars, progVars>>
    BY <1>19 DEF CommKill, Goto
  <2> QED  BY <2>1, <2>2, <2>3
<1>21. CASE CommKillProgram
  <2>1. child' \in {"dead", child} /\ escaped' \in 0..MaxOthers + 1 /\ childListed' = FALSE
    BY <1>21 DEF CommKillProgram, Escape
  <2>2. UNCHANGED <<attached, others, othersListed, shmVars, vimVars, commVars>>
    BY <1>21 DEF CommKillProgram
  <2>3. TypeOK'
    <3>1. childListed' \in BOOLEAN  BY <2>1
    <3> QED  BY <2>1, <2>2, <3>1
  <2>4. Published' /\ DeadEnd'  BY <2>2
  <2> QED  BY <2>3, <2>4
<1>22. CASE CommKillOther  BY <1>22 DEF CommKillOther, Escape
<1>23. CASE CommKillSelf  BY <1>23 DEF CommKillSelf, Goto
<1>20. CASE UNCHANGED vars  BY <1>20 DEF vars
<1> QED
  BY <1>1, <1>3, <1>4, <1>5, <1>6, <1>7, <1>8, <1>9, <1>10, <1>11, <1>12, <1>13,
     <1>14, <1>15, <1>16, <1>17, <1>18, <1>19, <1>20, <1>21, <1>22, <1>23 DEF Next, Comm

(* The state keeps its type whatever the interleaving of Vim, the program  *)
(* and the communicator.                                                   *)
THEOREM TypeCorrect == Spec => []TypeOK
<1>1. Inv => TypeOK  BY DEF Inv
<1> QED  BY InitInv, NextInv, <1>1, PTL DEF Spec

(* However the communicator ended, the stats say so.                       *)
THEOREM EndPublished == Spec => []ExitIsPublished
<1>1. Inv => ExitIsPublished  BY DEF Inv, Published, ExitIsPublished
<1> QED  BY InitInv, NextInv, <1>1, PTL DEF Spec

(* A terminal that was reported dead is never reported alive again.        *)
THEOREM DeadStaysDead == Spec => NeverAliveAgain
<1>1. Inv /\ [Next]_vars => [shmAlive = "no" => shmAlive' # "yes"]_vars
  <2> SUFFICES ASSUME Inv, Next, shmAlive = "no", shmAlive' = "yes" PROVE FALSE
    OBVIOUS
  <2>1. commPc # "stats"  BY DEF Inv, DeadEnd
  <2>2. shmAlive' \in {"no", "none", shmAlive}
    <3> USE DEF shmVars
    <3>1. CASE VimOpen  BY <3>1 DEF VimOpen
    <3>2. CASE VimIdle \/ VimResume \/ VimClose
      BY <3>2 DEF VimIdle, VimResume, VimClose, Post
    <3>3. CASE ProgramExit \/ ProgramSpawn \/ OtherExit
      BY <3>3 DEF ProgramExit, ProgramSpawn, OtherExit
    <3>4. CASE CommStart \/ CommStartClear \/ CommOpen \/ CommInit
      BY <3>4 DEF CommStart, CommStartClear, CommOpen, CommInit
    <3>5. CASE CommOpenFails  BY <3>5 DEF CommOpenFails
    <3>6. CASE CommTop \/ CommHealth \/ CommPoll \/ CommPollClear
      BY <3>6 DEF CommTop, CommHealth, CommPoll, CommPollClear
    <3>7. CASE CommRead  BY <3>7 DEF CommRead
    <3>8. CASE CommCheck \/ CommCheckClear \/ CommRaise \/ CommKill
      BY <3>8 DEF CommCheck, CommCheckClear, CommRaise, CommKill
    <3>9. CASE CommStats \/ CommSwallow  BY <2>1, <3>9 DEF CommStats, CommSwallow
    <3>10. CASE CommClose  BY <3>10 DEF CommClose
    <3>11. CASE CommKillProgram \/ CommKillOther \/ CommKillSelf
      BY <3>11 DEF CommKillProgram, CommKillOther, CommKillSelf
    <3> QED
      BY <3>1, <3>2, <3>3, <3>4, <3>5, <3>6, <3>7, <3>8, <3>9, <3>10, <3>11 DEF Next, Comm
  <2> QED  BY <2>2
<1> QED  BY InitInv, NextInv, <1>1, PTL DEF Spec, NeverAliveAgain

(* While the list is worked off, each process is listed or has escaped.    *)
Room == attached /\ MaxOthers + 2 <= ListSize

Accounted ==
    /\ childListed => child = "running" /\ commPc = "terminate"
    /\ Room /\ commPc = "terminate" =>
           Procs <= escaped + othersListed + (IF childListed THEN 1 ELSE 0)
    /\ Room /\ commPc = "exited" => Procs <= escaped

(* The list is taken when there is room for all.                           *)
LEMMA KillAccounted == TypeOK /\ CommKill => Accounted'
<1> SUFFICES ASSUME TypeOK, CommKill PROVE Accounted'  OBVIOUS
<1>1. /\ childListed' = (Listed /\ child = "running")
      /\ othersListed' = (IF Listed THEN others ELSE 0)
      /\ commPc' = "terminate" /\ child' = child /\ others' = others
      /\ attached' = attached /\ escaped' = escaped
  BY DEF CommKill, Goto, progVars
<1>2. ASSUME Room PROVE Listed
  BY <1>2, SoleControlAssumption DEF Room, Listed, Procs, TypeOK
<1>3. Procs' = Procs /\ Procs = others + (IF child = "running" THEN 1 ELSE 0)
  BY <1>1 DEF Procs, TypeOK
<1>4. ASSUME Room' PROVE Procs' <= escaped' + othersListed' + (IF childListed' THEN 1 ELSE 0)
  <2>1. Room  BY <1>1, <1>4 DEF Room
  <2>2. othersListed' = others  BY <1>1, <1>2, <2>1
  <2>3. childListed' <=> child = "running"  BY <1>1, <1>2, <2>1
  <2>4. escaped \in Nat /\ others \in Nat  BY SoleControlAssumption DEF TypeOK
  <2> QED  BY <1>1, <1>3, <2>2, <2>3, <2>4
<1> QED  BY <1>1, <1>4 DEF Accounted

(* A process that ends or is ended leaves the list, one that starts or     *)
(* resists has escaped.                                                    *)
LEMMA NextAccounted == TypeOK /\ Accounted /\ [Next]_vars => Accounted'
<1> SUFFICES ASSUME TypeOK, Accounted, [Next]_vars PROVE Accounted'  OBVIOUS
<1> USE SoleControlAssumption DEF TypeOK, Accounted, Room, Procs
<1>1. CASE ProgramExit  BY <1>1 DEF ProgramExit, commVars
<1>2. CASE ProgramSpawn  BY <1>2 DEF ProgramSpawn, Escape, commVars
<1>3. CASE OtherExit
  <2>1. others' = others - 1 /\ UNCHANGED <<child, attached, childListed, escaped, commPc>>
    BY <1>3 DEF OtherExit, commVars
  <2>2. othersListed' = othersListed \/ othersListed' = othersListed - 1
    BY <1>3 DEF OtherExit
  <2>3. CASE othersListed' = othersListed  BY <2>1, <2>3
  <2>4. CASE othersListed' = othersListed - 1  BY <2>1, <2>4
  <2> QED  BY <2>2, <2>3, <2>4
<1>4. CASE CommOpen  BY <1>4 DEF CommOpen, Goto, listVars
<1>5. CASE CommKill  BY <1>5, KillAccounted
<1>6. CASE CommKillProgram  BY <1>6 DEF CommKillProgram, Escape, commVars
<1>7. CASE CommKillOther  BY <1>7 DEF CommKillOther, Escape, commVars
<1>8. CASE CommKillSelf  BY <1>8 DEF CommKillSelf, Goto, notComm, progVars, listVars
<1>9. CASE VimOpen \/ VimIdle \/ VimResume \/ VimClose \/ UNCHANGED vars
  <2>1. UNCHANGED <<commPc, progVars, listVars>>
    BY <1>9 DEF VimOpen, VimIdle, VimResume, VimClose, Post, vars, commVars
  <2>2. UNCHANGED <<commPc, child, attached, others, childListed, othersListed, escaped>>
    BY <2>1 DEF progVars, listVars
  <2> QED  BY <2>2
<1>10. CASE Comm /\ ~(CommOpen \/ CommKill \/ CommKillProgram \/ CommKillOther \/ CommKillSelf)
  <2>1. /\ UNCHANGED <<progVars, listVars>> /\ commPc # "terminate"
        /\ commPc' \notin {"terminate", "exited"}
    BY <1>10 DEF Comm, CommStart, CommStartClear, CommInit, CommOpenFails, CommTop, CommHealth,
       CommPoll, CommPollClear, CommRead, CommCheck, CommCheckClear, CommStats, CommSwallow,
       CommRaise, CommClose, Goto, notComm
  <2> QED  BY <2>1 DEF progVars, listVars
<1> QED
  BY <1>1, <1>2, <1>3, <1>4, <1>5, <1>6, <1>7, <1>8, <1>9, <1>10 DEF Next, Comm

(* However the communicator ends and whatever happens while it goes        *)
(* through its list, no more processes outlive it than started after the   *)
(* list was taken or could not be ended.                                   *)
THEOREM NoneLeft == Spec => []NoOrphansWhenListed
<1>1. Init => Accounted  BY DEF Init, Accounted
<1>2. Inv => TypeOK  BY DEF Inv
<1>3. Accounted => NoOrphansWhenListed  BY DEF Accounted, Room, NoOrphansWhenListed
<1> QED  BY InitInv, NextInv, NextAccounted, <1>1, <1>2, <1>3, PTL DEF Spec
=============================================================================
