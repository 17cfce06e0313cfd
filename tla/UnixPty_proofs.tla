--------------------------- MODULE UnixPty_proofs ---------------------------
(***************************************************************************)
(* Proofs about the terminals of one Vim on Unix, for any terminals,       *)
(* process numbers, sizes of the ptys and slices of a read.                *)
(*                                                                         *)
(* Beside the types (split into parts below): NumberInv says who may hold  *)
(* which process number, KeyInv whose keys lie in which list, LineInv in   *)
(* what order, TodoInv what a poll writes of them, and WholeInv where the  *)
(* bytes of a terminal are and that no boundary lies inside a character.   *)
(***************************************************************************)
EXTENDS UnixPty, SequenceTheorems, TLAPS

\* The parts of TypeOK: a prover is given one at a time.
Procs ==
    /\ program \in [Terms -> {"none", "failed", "runs", "zombie", "reaped"}]
    /\ pid \in [Terms -> Pids \cup {0}] /\ strangers \subseteq Pids
    /\ foundDead \in [Terms -> BOOLEAN] /\ struck \in [Terms -> SUBSET {"group", "other"}]
Places ==
    /\ at \in {"idle", "write", "read", "check", "closing", "dead"} /\ term \in Terms
    /\ polling \in BOOLEAN /\ spoilt \in [Terms -> BOOLEAN] /\ rebound \in [Terms -> BOOLEAN]
Numbers ==
    /\ events \in 0..MaxEvents /\ typed \in 0..events
    /\ inPty \in [Terms -> 0..InRoom] /\ readCt \in 0..Len(Slices) - 1
Lists ==
    /\ classBuffer \in Seq(Keys) /\ buffer \in [Terms -> Seq(Keys)]
    /\ written \in [Terms -> Seq(Keys)] /\ todo \in Seq(Keys)
Texts ==
    /\ outPty \in [Terms -> Seq(Bytes)] /\ sent \in [Terms -> Seq(Bytes)]
    /\ shown \in [Terms -> Seq(Bytes \cup {"?"})] /\ output \in Seq(Bytes)

\* A program that was not waited for keeps its number to itself; one that was is known to
\* be dead.
NumberInv ==
    /\ \A i \in Terms : pid[i] = 0 <=> program[i] \in {"none", "failed"}
    /\ \A i \in Terms : program[i] \in {"runs", "zombie"} =>
          /\ pid[i] \notin strangers
          /\ \A j \in Terms \ {i} : ~Holds(j, pid[i])
    /\ \A i \in Terms : program[i] = "reaped" => foundDead[i]
    /\ at \notin {"idle", "dead"} => Opened(term)

SignalInv == NumberInv /\ StrayOnlyAfterDeath

\* The list of the class holds early keys, that of a terminal its own, and a call writes
\* keys of its terminal or early ones.
MayStray(k) == k.early /\ ~k.direct
KeyInv ==
    /\ \A x \in DOMAIN classBuffer : MayStray(classBuffer[x])
    /\ \A i \in Terms : \A x \in DOMAIN buffer[i] : buffer[i][x].home = i
    /\ \A x \in DOMAIN todo : todo[x].home = term \/ MayStray(todo[x])
    /\ KeysStrayOnlyEarly

-----------------------------------------------------------------------------
\* The initial states satisfy the types and the first invariants.
LEMMA InitInv == Init => TypeOK /\ SignalInv /\ KeyInv
<1> SUFFICES ASSUME Init PROVE TypeOK /\ SignalInv /\ KeyInv  OBVIOUS
<1>1. Procs /\ Places  BY DEF Init, Procs, Places
<1>2. Numbers
  <2>1. MaxEvents \in Nat /\ InRoom \in Nat  BY UnixPtyAssumption
  <2>2. Len(Slices) \in Nat /\ Len(Slices) # 0
    BY UnixPtyAssumption, LenProperties, EmptySeq
  <2> QED  BY <2>1, <2>2 DEF Init, Numbers
<1>3. Lists  BY DEF Init, Lists
<1>4. Texts  BY DEF Init, Texts
<1>5. SignalInv  BY DEF Init, SignalInv, NumberInv, Holds, Opened, StrayOnlyAfterDeath
<1>6. KeyInv
  <2>1. DOMAIN <<>> = {}  OBVIOUS
  <2> QED  BY <2>1 DEF Init, KeyInv, KeysStrayOnlyEarly
<1> QED  BY <1>1, <1>2, <1>3, <1>4, <1>5, <1>6
       DEF TypeOK, Procs, Places, Numbers, Lists, Texts

\* Every step keeps the types of programs, numbers and signals.
LEMMA ProcsStep == Procs /\ [Next]_vars => Procs'
<1> SUFFICES ASSUME Procs, [Next]_vars PROVE Procs'  OBVIOUS
<1> USE DEF vars, procVars, Procs, Signal, Struck
<1>1. CASE Call
  <2>1. CASE WriteKey \/ WriteRaises \/ Written \/ ReadEmpty \/ ReadSlice \/ FindsAlive
    BY <2>1 DEF WriteKey, WriteRaises, Written, ReadEmpty, ReadSlice, FindsAlive
  <2>2. CASE FindsDead
    <3>1. program' \in [Terms -> {"none", "failed", "runs", "zombie", "reaped"}]
      BY <2>2 DEF FindsDead
    <3>2. foundDead' \in [Terms -> BOOLEAN]  BY <2>2 DEF FindsDead
    <3> QED  BY <2>2, <3>1, <3>2 DEF FindsDead
  <2>3. CASE Closing  BY <2>3 DEF Closing
  <2> QED  BY <1>1, <2>1, <2>2, <2>3 DEF Call
<1>2. ASSUME NEW i \in Terms, OpenFails(i) \/ Exit(i) PROVE Procs'
  BY <1>2 DEF OpenFails, Exit
<1>3. ASSUME NEW i \in Terms, Abort(i) \/ Resize(i) PROVE Procs'
  BY <1>3 DEF Abort, Resize
<1>4. ASSUME NEW i \in Terms, NEW odd \in BOOLEAN,
             Take(i) \/ AutoRead(i) \/ TypeBuffered(i, odd) \/ TypeDirect(i)
      PROVE  Procs'
  BY <1>4 DEF Take, AutoRead, TypeBuffered, TypeDirect
<1>5. ASSUME NEW i \in Terms, NEW p \in Pids, Open(i, p) PROVE Procs'
  BY <1>5 DEF Open
<1>6. ASSUME NEW i \in Terms, NEW b \in Bytes, Send(i, b) PROVE Procs'
  BY <1>6 DEF Send
<1>7. ASSUME NEW p \in Pids, StrangerStarts(p) PROVE Procs'
  BY <1>7 DEF StrangerStarts
<1>8. CASE UNCHANGED vars  BY <1>8
<1> QED  BY <1>1, <1>2, <1>3, <1>4, <1>5, <1>6, <1>7, <1>8 DEF Next, Bytes

\* Every step keeps the types of the place of the call.
LEMMA PlacesStep == Places /\ [Next]_vars => Places'
<1> SUFFICES ASSUME Places, [Next]_vars PROVE Places'  OBVIOUS
<1> USE DEF vars, listVars, outVars, callVars, Places, Returns
<1>1. CASE Call
  <2>1. CASE WriteKey \/ WriteRaises \/ Written  BY <2>1 DEF WriteKey, WriteRaises, Written
  <2>2. CASE ReadEmpty  BY <2>2 DEF ReadEmpty
  <2>3. CASE ReadSlice  BY <2>3 DEF ReadSlice
  <2>4. CASE FindsAlive \/ FindsDead \/ Closing  BY <2>4 DEF FindsAlive, FindsDead, Closing
  <2> QED  BY <1>1, <2>1, <2>2, <2>3, <2>4 DEF Call
<1>2. ASSUME NEW i \in Terms, OpenFails(i) \/ Exit(i) \/ Abort(i) \/ Resize(i) PROVE Places'
  BY <1>2 DEF OpenFails, Exit, Abort, Resize
<1>3. ASSUME NEW i \in Terms, NEW odd \in BOOLEAN,
             Take(i) \/ AutoRead(i) \/ TypeBuffered(i, odd) \/ TypeDirect(i)
      PROVE  Places'
  BY <1>3 DEF Take, AutoRead, TypeBuffered, TypeDirect
<1>4. ASSUME NEW i \in Terms, NEW p \in Pids, Open(i, p) PROVE Places'
  BY <1>4 DEF Open
<1>5. ASSUME NEW i \in Terms, NEW b \in Bytes, Send(i, b) PROVE Places'
  BY <1>5 DEF Send
<1>6. ASSUME NEW p \in Pids, StrangerStarts(p) PROVE Places'
  BY <1>6 DEF StrangerStarts
<1>7. CASE UNCHANGED vars  BY <1>7
<1> QED  BY <1>1, <1>2, <1>3, <1>4, <1>5, <1>6, <1>7 DEF Next, Bytes

\* No bound is passed: events, the room of a pty, the slices of a read.
LEMMA NumbersStep == Numbers /\ [Next]_vars => Numbers'
<1> SUFFICES ASSUME Numbers, [Next]_vars PROVE Numbers'  OBVIOUS
<1> USE DEF vars, listVars, inVars, readVars, callVars, Numbers, Returns, Event
<1>1. MaxEvents \in Nat /\ InRoom \in Nat  BY UnixPtyAssumption
<1>2. Len(Slices) \in Nat /\ Len(Slices) # 0
  BY UnixPtyAssumption, LenProperties, EmptySeq
<1>3. CASE Call
  <2>1. CASE WriteKey
    <3>1. CASE program[term] = "runs" /\ term \in Terms
      <4>1. inPty[term] \in 0..InRoom /\ inPty[term] < InRoom
        BY <2>1, <3>1 DEF WriteKey
      <4>2. inPty' = [inPty EXCEPT ![term] = inPty[term] + 1]  BY <2>1, <3>1 DEF WriteKey
      <4>3. inPty[term] + 1 \in 0..InRoom  BY <1>1, <4>1
      <4>4. inPty' \in [Terms -> 0..InRoom]  BY <4>2, <4>3
      <4> QED  BY <2>1, <4>4 DEF WriteKey
    <3>2. CASE ~(program[term] = "runs" /\ term \in Terms)
      <4>1. inPty' = inPty  BY <2>1, <3>2 DEF WriteKey
      <4> QED  BY <2>1, <4>1 DEF WriteKey
    <3> QED  BY <3>1, <3>2
  <2>2. CASE WriteRaises \/ Written  BY <2>2 DEF WriteRaises, Written
  <2>3. CASE ReadEmpty  BY <1>2, <2>3 DEF ReadEmpty
  <2>4. CASE ReadSlice
    <3>1. readCt' = 0 \/ (readCt + 1 # Len(Slices) /\ readCt' = readCt + 1)
      BY <2>4 DEF ReadSlice
    <3>2. readCt' \in 0..Len(Slices) - 1  BY <1>2, <3>1
    <3> QED  BY <2>4, <3>2 DEF ReadSlice
  <2>5. CASE FindsAlive \/ FindsDead \/ Closing  BY <2>5 DEF FindsAlive, FindsDead, Closing
  <2> QED  BY <1>3, <2>1, <2>2, <2>3, <2>4, <2>5 DEF Call
<1>4. ASSUME NEW i \in Terms, OpenFails(i) \/ Exit(i) \/ Abort(i) \/ Resize(i) PROVE Numbers'
  BY <1>1, <1>4 DEF OpenFails, Exit, Abort, Resize
<1>5. ASSUME NEW i \in Terms, Take(i) \/ AutoRead(i) PROVE Numbers'
  <2>1. events' = events /\ typed' = typed /\ readCt' = readCt
    BY <1>5 DEF Take, AutoRead
  <2>2. CASE Take(i)
    <3>1. inPty[i] - 1 \in 0..InRoom  BY <1>1, <2>2 DEF Take
    <3> QED  BY <2>1, <2>2, <3>1 DEF Take
  <2>3. CASE AutoRead(i)
    <3>1. inPty' = inPty  BY <2>3 DEF AutoRead
    <3> QED  BY <2>1, <3>1
  <2> QED  BY <1>5, <2>2, <2>3
<1>6. ASSUME NEW i \in Terms, NEW odd \in BOOLEAN, TypeBuffered(i, odd) \/ TypeDirect(i)
      PROVE  Numbers'
  <2>1. typed' = typed + 1 /\ events' = events + 1 /\ events < MaxEvents
    BY <1>6 DEF TypeBuffered, TypeDirect
  <2>2. inPty' = inPty /\ readCt' = readCt  BY <1>6 DEF TypeBuffered, TypeDirect
  <2>3. events' \in 0..MaxEvents /\ typed' \in 0..events'  BY <1>1, <2>1
  <2> QED  BY <2>2, <2>3
<1>7. ASSUME NEW i \in Terms, NEW p \in Pids, Open(i, p) PROVE Numbers'
  BY <1>1, <1>7 DEF Open
<1>8. ASSUME NEW i \in Terms, NEW b \in Bytes, Send(i, b) PROVE Numbers'
  BY <1>1, <1>8 DEF Send
<1>9. ASSUME NEW p \in Pids, StrangerStarts(p) PROVE Numbers'
  BY <1>1, <1>9 DEF StrangerStarts
<1>10. CASE UNCHANGED vars  BY <1>10
<1> QED  BY <1>3, <1>4, <1>5, <1>6, <1>7, <1>8, <1>9, <1>10 DEF Next, Bytes

\* A slice has room for a byte at least.
LEMMA SliceIsPositive ==
  ASSUME Numbers, Texts, Places, outPty[term] # <<>>
  PROVE  (IF Len(outPty[term]) < Slices[readCt + 1] THEN Len(outPty[term])
          ELSE Slices[readCt + 1]) \in 1..Len(outPty[term])
<1>1. Len(Slices) \in Nat  BY UnixPtyAssumption, LenProperties
<1>2. readCt + 1 \in 1..Len(Slices)  BY <1>1 DEF Numbers
<1>3. Slices[readCt + 1] \in Nat \ {0}  BY <1>2, UnixPtyAssumption, ElementOfSeq
<1>4. outPty[term] \in Seq(Bytes)  BY DEF Texts, Places
<1>5. Len(outPty[term]) \in Nat \ {0}  BY <1>4, LenProperties, EmptySeq
<1> QED  BY <1>3, <1>5

\* Texts stay texts; a slice is a text.
LEMMA TextsStep == Texts /\ Places /\ Numbers /\ [Next]_vars => Texts'
<1> SUFFICES ASSUME Texts, Places, Numbers, [Next]_vars PROVE Texts'  OBVIOUS
<1> USE DEF vars, outVars, readVars, callVars, Texts
<1>p. \A s \in Seq(Bytes) : Played(s) \in Seq(Bytes \cup {"?"})
  <2>1. SUFFICES ASSUME NEW s \in Seq(Bytes) PROVE Played(s) \in Seq(Bytes \cup {"?"})
    OBVIOUS
  <2>2. Len(s) \in Nat /\ DOMAIN s = 1..Len(s) /\ \A k \in 1..Len(s) : s[k] \in Bytes
    BY LenProperties, ElementOfSeq
  <2>3. Played(s) \in [1..Len(s) -> Bytes \cup {"?"}]  BY <2>2 DEF Played
  <2>4. \A n \in Nat : \A f \in [1..n -> Bytes \cup {"?"}] : f \in Seq(Bytes \cup {"?"})
    OBVIOUS
  <2> QED  BY <2>2, <2>3, <2>4
<1>q. ASSUME NEW s \in Seq(Bytes), NEW c \in BOOLEAN, Returns(s, c)
      PROVE  shown' \in [Terms -> Seq(Bytes \cup {"?"})] /\ output' = <<>>
  <2>1. shown[term] \in Seq(Bytes \cup {"?"})  BY DEF Places
  <2>2. PICK k \in 0..Len(s) : shown' = [shown EXCEPT ![term] = @ \o SubSeq(Played(s), 1, k)]
    BY <1>q DEF Returns, Stops
  <2>3. SubSeq(Played(s), 1, k) \in Seq(Bytes \cup {"?"})
    <3>1. Played(s) \in Seq(Bytes \cup {"?"})  BY <1>p
    <3>2. Len(s) \in Nat /\ DOMAIN s = 1..Len(s)  BY LenProperties
    <3>3. DOMAIN Played(s) = 1..Len(s)  BY <3>2 DEF Played
    <3>4. \A x \in 1..k : Played(s)[x] \in Bytes \cup {"?"}
      BY <3>1, <3>2, <3>3, ElementOfSeq, LenProperties
    <3>5. k \in Int  BY <3>2
    <3> QED  BY <3>4, <3>5, SubSeqProperties
  <2>4. shown[term] \o SubSeq(Played(s), 1, k) \in Seq(Bytes \cup {"?"})
    BY <2>1, <2>3, ConcatProperties
  <2> QED  BY <1>q, <2>2, <2>4 DEF Returns
<1>1. CASE Call
  <2>1. CASE WriteKey \/ WriteRaises \/ Written \/ FindsAlive \/ FindsDead \/ Closing
    BY <2>1 DEF WriteKey, WriteRaises, Written, FindsAlive, FindsDead, Closing
  <2>2. CASE ReadEmpty
    <3>1. Returns(output, Last(output) = "E")  BY <2>2 DEF ReadEmpty
    <3>2. shown' \in [Terms -> Seq(Bytes \cup {"?"})] /\ output' = <<>>  BY <1>q, <3>1
    <3>3. outPty' = outPty /\ sent' = sent  BY <2>2 DEF ReadEmpty
    <3> QED  BY <3>2, <3>3
  <2>3. CASE ReadSlice
    <3> DEFINE room  == Slices[readCt + 1]
               n     == IF Len(outPty[term]) < room THEN Len(outPty[term]) ELSE room
               slice == SubSeq(outPty[term], 1, n)
               all   == output \o slice
    <3>1. outPty[term] \in Seq(Bytes)  BY DEF Places
    <3>2. n \in 1..Len(outPty[term])  BY <2>3, SliceIsPositive DEF ReadSlice
    <3>3. \A k \in 1..Len(outPty[term]) : outPty[term][k] \in Bytes  BY <3>1, ElementOfSeq
    <3>4. slice \in Seq(Bytes) /\ all \in Seq(Bytes)
      <4>1. \A k \in 1..n : outPty[term][k] \in Bytes  BY <3>2, <3>3
      <4>2. n \in Int  BY <3>2
      <4>3. slice \in Seq(Bytes)  BY <4>1, <4>2, SubSeqProperties
      <4> QED  BY <4>3, ConcatProperties
    <3>5. SubSeq(outPty[term], n + 1, Len(outPty[term])) \in Seq(Bytes)
      <4>1. Len(outPty[term]) \in Int /\ n + 1 \in Int  BY <3>1, <3>2, LenProperties
      <4>2. \A k \in n + 1..Len(outPty[term]) : outPty[term][k] \in Bytes  BY <3>2, <3>3
      <4> QED  BY <4>1, <4>2, SubSeqProperties
    <3>6. outPty' \in [Terms -> Seq(Bytes)]  BY <2>3, <3>5 DEF ReadSlice
    <3>7. /\ sent' = sent
          /\ \/ output' = all /\ shown' = shown
             \/ \E c \in BOOLEAN : Returns(all, c)
             \/ \E c \in BOOLEAN : Returns(output, c)
      BY <2>3 DEF ReadSlice
    <3> HIDE DEF all
    <3>8. shown' \in [Terms -> Seq(Bytes \cup {"?"})] /\ output' \in Seq(Bytes)
      <4>1. <<>> \in Seq(Bytes)  OBVIOUS
      <4>2. CASE output' = all /\ shown' = shown  BY <3>4, <4>2
      <4>3. CASE \E c \in BOOLEAN : Returns(all, c)  BY <1>q, <3>4, <4>1, <4>3
      <4>4. CASE \E c \in BOOLEAN : Returns(output, c)  BY <1>q, <4>1, <4>4
      <4> QED  BY <3>7, <4>2, <4>3, <4>4
    <3> QED  BY <3>6, <3>7, <3>8
  <2> QED  BY <1>1, <2>1, <2>2, <2>3 DEF Call
<1>2. ASSUME NEW i \in Terms, OpenFails(i) \/ Exit(i) \/ Abort(i) \/ Resize(i) PROVE Texts'
  BY <1>2 DEF OpenFails, Exit, Abort, Resize
<1>3. ASSUME NEW i \in Terms, NEW odd \in BOOLEAN,
             Take(i) \/ AutoRead(i) \/ TypeBuffered(i, odd) \/ TypeDirect(i)
      PROVE  Texts'
  BY <1>3 DEF Take, AutoRead, TypeBuffered, TypeDirect
<1>4. ASSUME NEW i \in Terms, NEW p \in Pids, Open(i, p) PROVE Texts'
  BY <1>4 DEF Open
<1>5. ASSUME NEW i \in Terms, NEW b \in Bytes, Send(i, b) PROVE Texts'
  <2>1. Append(outPty[i], b) \in Seq(Bytes) /\ Append(sent[i], b) \in Seq(Bytes)
    BY AppendProperties
  <2> QED  BY <1>5, <2>1 DEF Send
<1>6. ASSUME NEW p \in Pids, StrangerStarts(p) PROVE Texts'
  BY <1>6 DEF StrangerStarts
<1>7. CASE UNCHANGED vars  BY <1>7
<1> QED  BY <1>1, <1>2, <1>3, <1>4, <1>5, <1>6, <1>7 DEF Next, Bytes

\* A signal of a terminal that was opened strikes another process only when its own
\* program was waited for.
LEMMA SignalStrikes ==
  ASSUME Procs, SignalInv, NEW i \in Terms, Opened(i), Signal(i),
         UNCHANGED <<program, foundDead>>
  PROVE  StrayOnlyAfterDeath'
<1>1. "group" \in Struck(i) => program[i] = "failed"
  BY DEF Struck, SignalInv, NumberInv, Opened
<1>2. "other" \in Struck(i) => foundDead[i]
  <2>1. SUFFICES ASSUME pid[i] # 0,
                        pid[i] \in strangers \/ \E j \in Terms \ {i} : Holds(j, pid[i])
                 PROVE  foundDead[i]
    BY DEF Struck
  <2>2. program[i] \in {"failed", "runs", "zombie", "reaped"}  BY DEF Procs, Opened
  <2> QED  BY <2>1, <2>2 DEF SignalInv, NumberInv
<1>3. struck' = [struck EXCEPT ![i] = struck[i] \cup Struck(i)]  BY DEF Signal
<1> QED  BY <1>1, <1>2, <1>3 DEF SignalInv, StrayOnlyAfterDeath, Procs

\* Every step keeps the numbers apart and the signals in bounds.
LEMMA SignalStep == Procs /\ Places /\ SignalInv /\ [Next]_vars => SignalInv'
<1> SUFFICES ASSUME Procs, Places, SignalInv, [Next]_vars PROVE SignalInv'  OBVIOUS
<1> USE DEF vars, procVars, callVars, readVars, Holds, Opened, Procs, SignalInv, NumberInv,
     StrayOnlyAfterDeath
<1>1. CASE Call
  <2>1. CASE WriteKey \/ WriteRaises \/ Written \/ FindsAlive
    BY <2>1 DEF WriteKey, WriteRaises, Written, FindsAlive
  <2>2. CASE ReadEmpty \/ ReadSlice
    <3>1. CASE ReadEmpty  BY <3>1 DEF ReadEmpty, Returns
    <3>2. CASE ReadSlice  BY <3>2 DEF ReadSlice, Returns
    <3> QED  BY <2>2, <3>1, <3>2
  <2>3. CASE FindsDead  BY <2>3 DEF FindsDead, Places
  <2>4. CASE Closing
    <3>1. term \in Terms /\ Opened(term)  BY <2>4 DEF Closing, Places
    <3>2. NumberInv'
      BY <2>4, <3>1 DEF Closing
    <3>3. StrayOnlyAfterDeath'  BY <2>4, <3>1, SignalStrikes DEF Closing
    <3> QED  BY <3>2, <3>3
  <2> QED  BY <1>1, <2>1, <2>2, <2>3, <2>4 DEF Call
<1>2. ASSUME NEW i \in Terms, OpenFails(i) PROVE SignalInv'
  BY <1>2 DEF OpenFails
<1>3. ASSUME NEW i \in Terms, Exit(i) PROVE SignalInv'
  BY <1>3 DEF Exit
<1>4. ASSUME NEW i \in Terms, Abort(i) \/ Resize(i) PROVE SignalInv'
  <2>1. NumberInv'
    BY <1>4 DEF Abort, Resize
  <2>2. StrayOnlyAfterDeath'  BY <1>4, SignalStrikes DEF Abort, Resize
  <2> QED  BY <2>1, <2>2
<1>5. ASSUME NEW i \in Terms, NEW odd \in BOOLEAN,
             Take(i) \/ AutoRead(i) \/ TypeBuffered(i, odd) \/ TypeDirect(i)
      PROVE  SignalInv'
  <2>1. CASE Take(i) \/ AutoRead(i)              BY <2>1 DEF Take, AutoRead
  <2>2. CASE TypeBuffered(i, odd) \/ TypeDirect(i)  BY <2>2 DEF TypeBuffered, TypeDirect
  <2> QED  BY <1>5, <2>1, <2>2
<1>6. ASSUME NEW i \in Terms, NEW p \in Pids, Open(i, p) PROVE SignalInv'
  BY <1>6, UnixPtyAssumption DEF Open, Free
<1>7. ASSUME NEW i \in Terms, NEW b \in Bytes, Send(i, b) PROVE SignalInv'
  BY <1>7 DEF Send
<1>8. ASSUME NEW p \in Pids, StrangerStarts(p) PROVE SignalInv'
  BY <1>8 DEF StrangerStarts, Free
<1>9. CASE UNCHANGED vars  BY <1>9
<1> QED  BY <1>1, <1>2, <1>3, <1>4, <1>5, <1>6, <1>7, <1>8, <1>9 DEF Next, Bytes

\* The key of this call: later than all others.
LEMMA NewKey ==
  ASSUME Numbers, Places, events < MaxEvents, NEW i \in Terms, NEW d \in BOOLEAN,
         NEW o \in BOOLEAN
  PROVE  /\ Key(i, d, o) \in Keys /\ Key(i, d, o).n = typed + 1 /\ Key(i, d, o).home = i
         /\ Key(i, d, o).direct = d /\ typed \in Nat
<1>1. typed + 1 \in 1..MaxEvents /\ typed \in Nat  BY UnixPtyAssumption DEF Numbers
<1>2. rebound[i] \in BOOLEAN  BY DEF Places
<1> QED  BY <1>1, <1>2 DEF Key, Keys

\* A key that is put in a list.
LEMMA BufferedKey ==
  ASSUME NEW i \in Terms, NEW o \in BOOLEAN
  PROVE  /\ Key(i, FALSE, o).home = i
         /\ rebound[i] \/ MayStray(Key(i, FALSE, o))
BY DEF Key, MayStray

\* Lists of keys stay lists of keys.
LEMMA ListsStep == Lists /\ Numbers /\ Places /\ [Next]_vars => Lists'
<1> SUFFICES ASSUME Lists, Numbers, Places, [Next]_vars PROVE Lists'  OBVIOUS
<1> USE DEF vars, listVars, inVars, callVars, Lists
<1>1. CASE Call
  <2>1. CASE WriteKey
    <3>1. Head(todo) \in Keys /\ Tail(todo) \in Seq(Keys)
      BY <2>1, HeadTailProperties DEF WriteKey
    <3>2. written[term] \in Seq(Keys)  BY DEF Places
    <3>3. Append(written[term], Head(todo)) \in Seq(Keys)  BY <3>1, <3>2, AppendProperties
    <3> QED  BY <2>1, <3>1, <3>3 DEF WriteKey
  <2>2. CASE Written  BY <2>2 DEF Written
  <2>3. CASE ReadEmpty \/ ReadSlice  BY <2>3 DEF ReadEmpty, ReadSlice
  <2>4. CASE FindsAlive \/ FindsDead \/ Closing  BY <2>4 DEF FindsAlive, FindsDead, Closing
  <2>5. CASE WriteRaises
    <3>1. <<>> \in Seq(Keys)  OBVIOUS
    <3> QED  BY <2>5, <3>1 DEF WriteRaises
  <2> QED  BY <1>1, <2>1, <2>2, <2>3, <2>4, <2>5 DEF Call
<1>2. ASSUME NEW i \in Terms, OpenFails(i) \/ Exit(i) \/ Abort(i) \/ Resize(i) PROVE Lists'
  BY <1>2 DEF OpenFails, Exit, Abort, Resize
<1>3. ASSUME NEW i \in Terms, Take(i) \/ AutoRead(i) PROVE Lists'
  BY <1>3 DEF Take, AutoRead, Waiting
<1>4. ASSUME NEW i \in Terms, NEW d \in BOOLEAN, NEW o \in BOOLEAN, events < MaxEvents
      PROVE  Key(i, d, o) \in Keys
  BY <1>4, NewKey
<1>5. ASSUME NEW i \in Terms, NEW odd \in BOOLEAN, TypeBuffered(i, odd) PROVE Lists'
  <2>1. Key(i, FALSE, odd) \in Keys  BY <1>4, <1>5 DEF TypeBuffered, Event
  <2>2. /\ Append(buffer[i], Key(i, FALSE, odd)) \in Seq(Keys)
        /\ Append(classBuffer, Key(i, FALSE, odd)) \in Seq(Keys)
    BY <2>1, AppendProperties
  <2> QED  BY <1>5, <2>2 DEF TypeBuffered
<1>6. ASSUME NEW i \in Terms, TypeDirect(i) PROVE Lists'
  <2>1. Key(i, TRUE, FALSE) \in Keys  BY <1>4, <1>6 DEF TypeDirect, Event
  <2>2. todo' = <<Key(i, TRUE, FALSE)>>  BY <1>6 DEF TypeDirect
  <2>3. \A k \in Keys : <<k>> \in Seq(Keys)  OBVIOUS
  <2>4. todo' \in Seq(Keys)  BY <2>1, <2>2, <2>3
  <2> QED  BY <1>6, <2>4 DEF TypeDirect
<1>7. ASSUME NEW i \in Terms, NEW p \in Pids, Open(i, p) PROVE Lists'
  BY <1>7 DEF Open
<1>8. ASSUME NEW i \in Terms, NEW b \in Bytes, Send(i, b) PROVE Lists'
  BY <1>8 DEF Send
<1>9. ASSUME NEW p \in Pids, StrangerStarts(p) PROVE Lists'
  BY <1>9 DEF StrangerStarts
<1>10. CASE UNCHANGED vars  BY <1>10
<1> QED  BY <1>1, <1>2, <1>3, <1>5, <1>6, <1>7, <1>8, <1>9, <1>10 DEF Next, Bytes

\* Every step keeps the keys in lists they may be in.
LEMMA KeyStep == Lists /\ Numbers /\ Places /\ KeyInv /\ [Next]_vars => KeyInv'
<1> SUFFICES ASSUME Lists, Numbers, Places, KeyInv, [Next]_vars PROVE KeyInv'  OBVIOUS
<1> USE DEF vars, listVars, inVars, callVars, KeyInv, KeysStrayOnlyEarly, MayStray
<1>1. CASE Call
  <2>1. CASE WriteKey
    <3>1. todo \in Seq(Keys) /\ todo # <<>> /\ written[term] \in Seq(Keys) /\ term \in Terms
      BY <2>1 DEF WriteKey, Lists, Places
    <3> DEFINE k == Head(todo)
    <3>2. k = todo[1] /\ 1 \in DOMAIN todo /\ k \in Keys  BY <3>1, HeadTailProperties
    <3>3. k.home = term \/ MayStray(k)  BY <3>2
    <3>4. \A x \in DOMAIN Tail(todo) : x + 1 \in DOMAIN todo /\ Tail(todo)[x] = todo[x + 1]
      BY <3>1, HeadTailProperties, LenProperties
    <3>5. \A x \in DOMAIN todo' : todo'[x].home = term' \/ MayStray(todo'[x])
      BY <2>1, <3>4 DEF WriteKey
    <3> HIDE DEF k
    <3>6. \A x \in DOMAIN Append(written[term], k) :
             \/ x \in DOMAIN written[term] /\ Append(written[term], k)[x] = written[term][x]
             \/ Append(written[term], k)[x] = k
      BY <3>1, <3>2, AppendProperties, LenProperties
    <3>7. written' = [written EXCEPT ![term] = Append(written[term], k)]
      BY <2>1 DEF WriteKey, k
    <3>8. KeysStrayOnlyEarly'  BY <3>1, <3>3, <3>6, <3>7 DEF Lists
    <3> QED  BY <2>1, <3>5, <3>8 DEF WriteKey
  <2>2. CASE Written
    <3>1. \A i \in Terms : \A x \in DOMAIN buffer'[i] : buffer'[i][x].home = i
      <4>1. DOMAIN <<>> = {}  OBVIOUS
      <4> QED  BY <2>2, <4>1 DEF Written, Lists
    <3> QED  BY <2>2, <3>1 DEF Written
  <2>3. CASE ReadEmpty \/ ReadSlice  BY <2>3 DEF ReadEmpty, ReadSlice
  <2>4. CASE FindsAlive \/ FindsDead \/ Closing  BY <2>4 DEF FindsAlive, FindsDead, Closing
  <2>5. CASE WriteRaises
    <3>1. DOMAIN <<>> = {}  OBVIOUS
    <3> QED  BY <2>5, <3>1 DEF WriteRaises
  <2> QED  BY <1>1, <2>1, <2>2, <2>3, <2>4, <2>5 DEF Call
<1>2. ASSUME NEW i \in Terms, OpenFails(i) \/ Exit(i) \/ Abort(i) \/ Resize(i) PROVE KeyInv'
  BY <1>2 DEF OpenFails, Exit, Abort, Resize
<1>3. ASSUME NEW i \in Terms, Take(i) \/ AutoRead(i) PROVE KeyInv'
  BY <1>3 DEF Take, AutoRead, Waiting
<1>4. ASSUME NEW i \in Terms, NEW odd \in BOOLEAN, TypeBuffered(i, odd) PROVE KeyInv'
  <2> DEFINE k == Key(i, FALSE, odd)
  <2>1. k \in Keys
    <3>1. events < MaxEvents  BY <1>4 DEF TypeBuffered, Event
    <3> QED  BY <3>1, NewKey
  <2>2. k.home = i /\ (rebound[i] \/ MayStray(k))  BY BufferedKey
  <2> HIDE DEF k
  <2>3. \A s \in Seq(Keys) : \A x \in DOMAIN Append(s, k) :
           (x \in DOMAIN s /\ Append(s, k)[x] = s[x]) \/ Append(s, k)[x] = k
    BY <2>1, AppendProperties, LenProperties
  <2>4. CASE rebound[i]
    <3>1. buffer' = [buffer EXCEPT ![i] = Append(buffer[i], k)] /\ classBuffer' = classBuffer
      BY <1>4, <2>4 DEF TypeBuffered, k
    <3>2. buffer[i] \in Seq(Keys)  BY DEF Lists
    <3>3. \A j \in Terms : \A x \in DOMAIN buffer'[j] : buffer'[j][x].home = j
      BY <2>2, <2>3, <3>1, <3>2 DEF Lists
    <3> QED  BY <1>4, <3>1, <3>3 DEF TypeBuffered
  <2>5. CASE ~rebound[i]
    <3>1. classBuffer' = Append(classBuffer, k) /\ buffer' = buffer
      BY <1>4, <2>5 DEF TypeBuffered, k
    <3>2. \A x \in DOMAIN classBuffer' : MayStray(classBuffer'[x])
      BY <2>2, <2>3, <2>5, <3>1 DEF Lists
    <3> QED  BY <1>4, <3>1, <3>2 DEF TypeBuffered
  <2> QED  BY <2>4, <2>5
<1>5. ASSUME NEW i \in Terms, TypeDirect(i) PROVE KeyInv'
  <2>1. todo' = <<Key(i, TRUE, FALSE)>> /\ term' = i  BY <1>5 DEF TypeDirect
  <2>2. \A x \in DOMAIN todo' : todo'[x] = Key(i, TRUE, FALSE)
    <3>1. \A k : \A x \in DOMAIN <<k>> : <<k>>[x] = k  OBVIOUS
    <3> QED  BY <2>1, <3>1
  <2>3. Key(i, TRUE, FALSE).home = i  BY DEF Key
  <2>4. \A x \in DOMAIN todo' : todo'[x].home = term'  BY <2>1, <2>2, <2>3
  <2> QED  BY <1>5, <2>4 DEF TypeDirect
<1>6. ASSUME NEW i \in Terms, NEW p \in Pids, Open(i, p) PROVE KeyInv'
  BY <1>6 DEF Open
<1>7. ASSUME NEW i \in Terms, NEW b \in Bytes, Send(i, b) PROVE KeyInv'
  BY <1>7 DEF Send
<1>8. ASSUME NEW p \in Pids, StrangerStarts(p) PROVE KeyInv'
  BY <1>8 DEF StrangerStarts
<1>9. CASE UNCHANGED vars  BY <1>9
<1> QED  BY <1>1, <1>2, <1>3, <1>4, <1>5, <1>6, <1>7, <1>8, <1>9 DEF Next, Bytes

-----------------------------------------------------------------------------
(* The order of the keys.                                                    *)

\* Of the keys in L that were typed in terminal i, those of one kind are in order.
Ordered(L, i) ==
    \A x, y \in DOMAIN L :
        x < y /\ L[x].home = i /\ L[y].home = i /\ L[x].direct = L[y].direct => L[x].n < L[y].n
Has(L, n, i) == \E x \in DOMAIN L : L[x].n = n /\ L[x].home = i
Below(L, n) == \A x \in DOMAIN L : L[x].n < n

\* The keys of each terminal are in order while no odd one waits, no key is lost, and a
\* mapped key waits in no list.
LineInv ==
    /\ \A i \in Terms : NoneOdd(Waiting(i)) => Ordered(Line(i), i)
    /\ \A i \in Terms : Below(Line(i), typed + 1) /\ Below(Waiting(i), typed + 1)
    /\ \A n \in 1..typed : \E i \in Terms : Has(Line(i), n, i)
    /\ \A i \in Terms : \A x \in DOMAIN Waiting(i) : ~Waiting(i)[x].direct
    /\ \A x \in DOMAIN classBuffer : ~classBuffer[x].direct
    /\ at \in {"idle", "closing"} => ~polling

\* A new key at the end keeps the order.
LEMMA AppendInOrder ==
  ASSUME NEW L \in Seq(Keys), NEW k \in Keys, NEW i, Below(L, k.n)
  PROVE  /\ Ordered(L, i) => Ordered(Append(L, k), i)
         /\ Below(Append(L, k), k.n + 1)
         /\ Has(Append(L, k), k.n, k.home)
         /\ \A n, j : Has(L, n, j) => Has(Append(L, k), n, j)
<1> DEFINE M == Append(L, k)
<1>1. /\ Len(L) \in Nat /\ DOMAIN L = 1..Len(L) /\ DOMAIN M = 1..Len(L) + 1
      /\ M[Len(L) + 1] = k /\ \A x \in 1..Len(L) : M[x] = L[x] /\ L[x] \in Keys
  BY AppendProperties, LenProperties, ElementOfSeq
<1> HIDE DEF M
<1>2. k.n \in Int /\ \A x \in 1..Len(L) : L[x].n \in Int /\ L[x].n < k.n
  BY <1>1 DEF Below, Keys
<1>3. Ordered(L, i) => Ordered(M, i)
  <2>1. SUFFICES ASSUME Ordered(L, i),
                        NEW x \in DOMAIN M, NEW y \in DOMAIN M, x < y, M[x].home = i,
                        M[y].home = i, M[x].direct = M[y].direct
                 PROVE  M[x].n < M[y].n
    BY DEF Ordered
  <2>2. x \in 1..Len(L) /\ M[x] = L[x]  BY <1>1, <2>1
  <2>3. CASE y \in 1..Len(L)  BY <1>1, <2>1, <2>2, <2>3 DEF Ordered
  <2>4. CASE y = Len(L) + 1  BY <1>1, <1>2, <2>2, <2>4
  <2> QED  BY <1>1, <2>3, <2>4
<1>4. Below(M, k.n + 1)
  <2>1. SUFFICES ASSUME NEW x \in DOMAIN M PROVE M[x].n < k.n + 1  BY DEF Below
  <2>2. CASE x \in 1..Len(L)  BY <1>1, <1>2, <2>2
  <2>3. CASE x = Len(L) + 1  BY <1>1, <1>2, <2>3
  <2> QED  BY <1>1, <2>2, <2>3
<1>5. Len(L) + 1 \in DOMAIN M /\ \A x \in DOMAIN L : x \in DOMAIN M /\ M[x] = L[x]  BY <1>1
<1>6. Has(M, k.n, k.home) /\ \A n, j : Has(L, n, j) => Has(M, n, j)
  BY <1>1, <1>5 DEF Has
<1> QED  BY <1>3, <1>4, <1>6 DEF M

\* A new mapped key may be put before keys that are not mapped.
LEMMA InsertInOrder ==
  ASSUME NEW a \in Seq(Keys), NEW b \in Seq(Keys), NEW k \in Keys, NEW i,
         Below(a \o b, k.n), k.direct, \A x \in DOMAIN b : ~b[x].direct
  PROVE  /\ Ordered(a \o b, i) => Ordered(a \o <<k>> \o b, i)
         /\ Below(a \o <<k>> \o b, k.n + 1)
         /\ Has(a \o <<k>> \o b, k.n, k.home)
         /\ \A n, j : Has(a \o b, n, j) => Has(a \o <<k>> \o b, n, j)
<1> DEFINE L == a \o b
           M == a \o <<k>> \o b
           p == Len(a) + 1
           Old(x) == IF x < p THEN x ELSE x - 1
           New(x) == IF x < p THEN x ELSE x + 1
<1>1. /\ Len(a) \in Nat /\ Len(b) \in Nat /\ L \in Seq(Keys) /\ Len(L) = Len(a) + Len(b)
      /\ \A x \in 1..Len(a) : L[x] = a[x]
      /\ \A x \in Len(a) + 1..Len(a) + Len(b) : L[x] = b[x - Len(a)]
  BY ConcatProperties, LenProperties
<1>2. /\ a \o <<k>> \in Seq(Keys) /\ Len(a \o <<k>>) = p /\ (a \o <<k>>)[p] = k
      /\ \A x \in 1..Len(a) : (a \o <<k>>)[x] = a[x]
  <2>1. a \o <<k>> = Append(a, k)  BY AppendIsConcat
  <2> QED  BY <2>1, AppendProperties
<1>3. /\ M \in Seq(Keys) /\ Len(M) = p + Len(b)
      /\ \A x \in 1..p : M[x] = (a \o <<k>>)[x]
      /\ \A x \in p + 1..p + Len(b) : M[x] = b[x - p]
  <2> DEFINE c == a \o <<k>>
  <2>1. c \in Seq(Keys) /\ Len(c) = p /\ p \in Nat  BY <1>1, <1>2
  <2> HIDE DEF c
  <2>2. /\ c \o b \in Seq(Keys) /\ Len(c \o b) = p + Len(b)
        /\ \A x \in 1..p + Len(b) : (c \o b)[x] = IF x <= p THEN c[x] ELSE b[x - p]
    <3>1. /\ c \o b \in Seq(Keys) /\ Len(c \o b) = Len(c) + Len(b)
          /\ \A x \in 1..Len(c) + Len(b) :
                (c \o b)[x] = IF x <= Len(c) THEN c[x] ELSE b[x - Len(c)]
      BY <2>1, ConcatProperties
    <3> QED  BY <2>1, <3>1
  <2>3. \A x \in 1..p : (c \o b)[x] = c[x]  BY <1>1, <2>1, <2>2
  <2>4. \A x \in p + 1..p + Len(b) : (c \o b)[x] = b[x - p]  BY <1>1, <2>1, <2>2
  <2> QED  BY <2>2, <2>3, <2>4 DEF c
<1>4. DOMAIN L = 1..Len(a) + Len(b) /\ DOMAIN M = 1..p + Len(b)
      /\ DOMAIN b = 1..Len(b) /\ p \in 1..p + Len(b)
  BY <1>1, <1>3, LenProperties
<1>5. M[p] = k  BY <1>1, <1>2, <1>3
<1>6. ASSUME NEW x \in DOMAIN M, x # p
      PROVE  Old(x) \in DOMAIN L /\ M[x] = L[Old(x)] /\ (x > p => ~M[x].direct)
  <2>1. CASE x < p
    <3>1. x \in 1..Len(a) /\ x \in 1..p  BY <1>1, <1>4, <2>1
    <3> QED  BY <1>1, <1>2, <1>3, <1>4, <2>1, <3>1
  <2>2. CASE x > p
    <3>1. /\ x - p \in 1..Len(b) /\ x - 1 \in Len(a) + 1..Len(a) + Len(b)
          /\ x \in p + 1..p + Len(b) /\ x - 1 - Len(a) = x - p /\ Old(x) = x - 1
          /\ x - 1 \in 1..Len(a) + Len(b)
      BY <1>1, <1>4, <2>2
    <3> QED  BY <1>1, <1>3, <1>4, <3>1
  <2> QED  BY <1>1, <1>4, <1>6, <2>1, <2>2
<1>7. ASSUME NEW x \in DOMAIN L PROVE New(x) \in DOMAIN M /\ M[New(x)] = L[x]
  <2>1. New(x) \in DOMAIN M /\ New(x) # p /\ Old(New(x)) = x  BY <1>1, <1>4
  <2> HIDE DEF New, Old
  <2> QED  BY <1>6, <2>1
<1>8. k.n \in Int /\ \A x \in DOMAIN L : L[x].n < k.n /\ L[x].n \in Int
  <2>1. \A x \in DOMAIN L : L[x] \in Keys  BY <1>1, <1>4, ElementOfSeq
  <2> QED  BY <2>1 DEF Below, Keys
<1>9. DOMAIN M \subseteq Int /\ p \in Int  BY <1>1, <1>4
<1>10. \A x, y \in DOMAIN M : x < y /\ x # p /\ y # p => Old(x) < Old(y)  BY <1>9
<1> HIDE DEF L, M, Old, New, p
<1>11. Ordered(L, i) => Ordered(M, i)
  <2>1. SUFFICES ASSUME Ordered(L, i), NEW x \in DOMAIN M, NEW y \in DOMAIN M, x < y, M[x].home = i,
                        M[y].home = i, M[x].direct = M[y].direct
                 PROVE  M[x].n < M[y].n
    BY DEF Ordered
  <2>2. CASE x = p
    <3>1. y > p /\ y # p  BY <1>9, <2>1, <2>2
    <3> QED  BY <1>5, <1>6, <2>1, <2>2, <3>1
  <2>3. CASE y = p
    <3>1. x # p  BY <1>9, <2>1, <2>3
    <3> QED  BY <1>5, <1>6, <1>8, <2>3, <3>1
  <2>4. CASE x # p /\ y # p  BY <1>6, <1>10, <2>1, <2>4 DEF Ordered
  <2> QED  BY <2>2, <2>3, <2>4
<1>12. Below(M, k.n + 1)
  <2>1. SUFFICES ASSUME NEW x \in DOMAIN M PROVE M[x].n < k.n + 1  BY DEF Below
  <2>2. CASE x = p  BY <1>5, <1>8, <2>2
  <2>3. CASE x # p  BY <1>6, <1>8, <2>3
  <2> QED  BY <2>2, <2>3
<1>13. Has(M, k.n, k.home) /\ \A n, j : Has(L, n, j) => Has(M, n, j)
  <2>1. p \in DOMAIN M  BY <1>4 DEF p
  <2> QED  BY <1>5, <1>7, <2>1 DEF Has
<1> QED  BY <1>11, <1>12, <1>13 DEF L, M

\* A list is its head and its tail.
LEMMA HeadAndTail == ASSUME NEW s \in Seq(Keys), s # <<>> PROVE s = <<Head(s)>> \o Tail(s)
<1>1. Len(s) \in Nat \ {0}  BY LenProperties, EmptySeq
<1>2. SubSeq(s, 1, Len(s)) = <<s[1]>> \o SubSeq(s, 1 + 1, Len(s))
  BY <1>1, SubSeqRecursiveFirst
<1>3. Tail(s) = SubSeq(s, 2, Len(s)) /\ Head(s) = s[1]  BY TailIsSubSeq
<1> QED  BY <1>2, <1>3, SubSeqFull

\* The parts of a line are lists of keys.
LEMMA LineParts ==
  ASSUME Lists, Places, NEW i \in Terms
  PROVE  /\ written[i] \in Seq(Keys) /\ Waiting(i) \in Seq(Keys) /\ Writing(i) \in Seq(Keys)
         /\ Line(i) \in Seq(Keys)
         /\ at # "write" => Line(i) = written[i] \o Waiting(i)
<1>1. written[i] \in Seq(Keys) /\ Waiting(i) \in Seq(Keys)  BY DEF Lists, Waiting
<1>2. <<>> \in Seq(Keys)  OBVIOUS
<1>3. Writing(i) \in Seq(Keys)  BY <1>2 DEF Lists, Writing
<1>4. written[i] \o Writing(i) \in Seq(Keys)  BY <1>1, <1>3, ConcatProperties
<1>5. Line(i) \in Seq(Keys)
  <2>1. (IF at = "write" /\ i = term /\ polling THEN <<>> ELSE Waiting(i)) \in Seq(Keys)
    BY <1>1, <1>2
  <2> QED  BY <1>4, <2>1, ConcatProperties DEF Line
<1>6. at # "write" => Line(i) = written[i] \o Waiting(i)
  <2>1. written[i] \o <<>> = written[i]  BY <1>1, ConcatEmptySeq
  <2> QED  BY <2>1 DEF Line, Writing
<1> QED  BY <1>1, <1>3, <1>5, <1>6

\* A poll writes keys that wait, and comes to the odd ones among them; no mapped key is odd.
TodoInv ==
    at = "write" =>
        IF polling
        THEN /\ \A x \in DOMAIN todo :
                   \E y \in DOMAIN Waiting(term) : Waiting(term)[y] = todo[x]
             /\ NoneOdd(todo) => NoneOdd(Waiting(term))
        ELSE NoneOdd(todo)

\* LineInv', with what it says of the next state spelt out.
LEMMA LinePrimed ==
  ASSUME \A i \in Terms : NoneOdd(Waiting(i)') => Ordered(Line(i)', i),
         \A i \in Terms : Below(Line(i)', typed' + 1) /\ Below(Waiting(i)', typed' + 1),
         \A n \in 1..typed' : \E i \in Terms : Has(Line(i)', n, i),
         \A i \in Terms : \A x \in DOMAIN Waiting(i)' : ~Waiting(i)'[x].direct,
         \A x \in DOMAIN classBuffer' : ~classBuffer'[x].direct,
         at' \in {"idle", "closing"} => ~polling'
  PROVE  LineInv'
<1>1. \A i \in Terms : /\ Ordered(Line(i), i)' = Ordered(Line(i)', i)
                       /\ Below(Line(i), typed + 1)' = Below(Line(i)', typed' + 1)
                       /\ Below(Waiting(i), typed + 1)' = Below(Waiting(i)', typed' + 1)
                       /\ NoneOdd(Waiting(i))' = NoneOdd(Waiting(i)')
                       /\ \A n \in 1..typed' : Has(Line(i), n, i)' = Has(Line(i)', n, i)
  BY DEF Ordered, Below, Has, NoneOdd
<1> QED  BY <1>1 DEF LineInv

\* Most steps leave every line as it is.
LEMMA LineStays ==
  ASSUME LineInv, typed' = typed, classBuffer' = classBuffer,
         at' \in {"idle", "closing"} => ~polling',
         \A i \in Terms :
            /\ Line(i)' = Line(i)
            /\ Waiting(i)' = Waiting(i) \/ (Waiting(i)' = <<>> /\ NoneOdd(Waiting(i)))
  PROVE  LineInv'
<1>1. \A i \in Terms : \A x \in DOMAIN Waiting(i)' : ~Waiting(i)'[x].direct
  <2>1. DOMAIN <<>> = {}  OBVIOUS
  <2> QED  BY <2>1 DEF LineInv
<1>2. \A i \in Terms : NoneOdd(Waiting(i)') => Ordered(Line(i)', i)  BY DEF LineInv
<1>3. \A i \in Terms : Below(Line(i)', typed' + 1) /\ Below(Waiting(i)', typed' + 1)
  <2>1. Below(<<>>, typed + 1)  BY DEF Below
  <2> QED  BY <2>1 DEF LineInv
<1>4. \A n \in 1..typed' : \E i \in Terms : Has(Line(i)', n, i)  BY DEF LineInv
<1>5. \A x \in DOMAIN classBuffer' : ~classBuffer'[x].direct  BY DEF LineInv
<1> QED  BY <1>1, <1>2, <1>3, <1>4, <1>5, LinePrimed

\* A key moves from what the call writes to what is written.
LEMMA LineWriteKey == Lists /\ Places /\ LineInv /\ WriteKey => LineInv'
<1> SUFFICES ASSUME Lists, Places, LineInv, WriteKey PROVE LineInv'  OBVIOUS
<1>1. /\ at = "write" /\ at' = "write" /\ term' = term /\ polling' = polling /\ todo # <<>>
      /\ typed' = typed /\ classBuffer' = classBuffer /\ rebound' = rebound /\ buffer' = buffer
      /\ written' = [written EXCEPT ![term] = Append(written[term], Head(todo))]
      /\ todo' = Tail(todo) /\ term \in Terms
  BY DEF WriteKey, listVars, Places
<1>2. \A i \in Terms : Waiting(i)' = Waiting(i)  BY <1>1 DEF Waiting
<1>3. written[term] \in Seq(Keys) /\ todo \in Seq(Keys)  BY <1>1 DEF Lists
<1>4. Append(written[term], Head(todo)) \o Tail(todo) = written[term] \o todo
  <2>1. Head(todo) \in Keys /\ Tail(todo) \in Seq(Keys)  BY <1>1, <1>3, HeadTailProperties
  <2>2. Append(written[term], Head(todo)) = written[term] \o <<Head(todo)>>
    BY <1>3, <2>1, AppendIsConcat
  <2>3. \A k \in Keys : <<k>> \in Seq(Keys)  OBVIOUS
  <2>4. <<Head(todo)>> \in Seq(Keys)  BY <2>1, <2>3
  <2>5. (written[term] \o <<Head(todo)>>) \o Tail(todo)
             = written[term] \o (<<Head(todo)>> \o Tail(todo))
    BY <1>3, <2>1, <2>4, ConcatAssociative
  <2>6. todo = <<Head(todo)>> \o Tail(todo)  BY <1>1, <1>3, HeadAndTail
  <2> QED  BY <2>2, <2>5, <2>6
<1>5. ASSUME NEW i \in Terms PROVE Line(i)' = Line(i)
  <2>1. CASE i = term
    <3>1. written'[i] \o Writing(i)' = written[i] \o Writing(i)
      BY <1>1, <1>4, <2>1 DEF Writing, Lists
    <3> QED  BY <1>1, <1>2, <3>1 DEF Line
  <2>2. CASE i # term
    <3>1. written'[i] = written[i] /\ Writing(i)' = Writing(i)
      BY <1>1, <2>2 DEF Writing, Lists
    <3> QED  BY <1>1, <1>2, <3>1 DEF Line
  <2> QED  BY <2>1, <2>2
<1> QED  BY <1>1, <1>2, <1>5, LineStays

\* Another end of a line: what holds of all its keys, and which keys it has.
LEMMA OtherEnd ==
  ASSUME NEW a \in Seq(Keys), NEW b \in Seq(Keys), NEW c \in Seq(Keys), NEW m \in Nat,
         Below(a \o b, m), Below(c, m),
         \A x \in DOMAIN b : \E y \in DOMAIN c : c[y] = b[x]
  PROVE  /\ Below(a \o c, m)
         /\ \A n, i : Has(a \o b, n, i) => Has(a \o c, n, i)
<1>1. \A d \in Seq(Keys) :
         /\ DOMAIN (a \o d) = 1..Len(a) + Len(d) /\ DOMAIN d = 1..Len(d) /\ Len(d) \in Nat
         /\ \A x \in 1..Len(a) : (a \o d)[x] = a[x]
         /\ \A x \in 1..Len(d) : (a \o d)[Len(a) + x] = d[x]
  <2> TAKE d \in Seq(Keys)
  <2>1. Len(a) \in Nat /\ Len(d) \in Nat /\ DOMAIN d = 1..Len(d)  BY LenProperties
  <2>2. a \o d \in Seq(Keys) /\ Len(a \o d) = Len(a) + Len(d)  BY ConcatProperties
  <2>3. DOMAIN (a \o d) = 1..Len(a) + Len(d)  BY <2>2, LenProperties
  <2>4. \A x \in 1..Len(a) : (a \o d)[x] = a[x]  BY <2>1, ConcatProperties
  <2>5. \A x \in 1..Len(d) : (a \o d)[Len(a) + x] = d[x]  BY <2>1, ConcatProperties
  <2> QED  BY <2>1, <2>3, <2>4, <2>5
<1>2. Len(a) \in Nat  BY LenProperties
<1>3. \A d \in Seq(Keys) : \A x \in DOMAIN (a \o d) :
         x \in 1..Len(a) \/ (x - Len(a) \in DOMAIN d /\ (a \o d)[x] = d[x - Len(a)])
  <2> TAKE d \in Seq(Keys)
  <2>1. ASSUME NEW x \in 1..Len(a) + Len(d), x \notin 1..Len(a)
        PROVE  x - Len(a) \in 1..Len(d) /\ Len(a) + (x - Len(a)) = x
    BY <1>1, <1>2, <2>1
  <2> QED  BY <1>1, <2>1
<1>4. Below(a \o c, m)
  <2>1. \A x \in 1..Len(a) : x \in DOMAIN (a \o b) /\ (a \o b)[x] = (a \o c)[x]
    BY <1>1, <1>2
  <2> QED  BY <1>3, <2>1 DEF Below
<1>5. ASSUME NEW n, NEW i, Has(a \o b, n, i) PROVE Has(a \o c, n, i)
  <2>1. PICK x \in DOMAIN (a \o b) : (a \o b)[x].n = n /\ (a \o b)[x].home = i
    BY <1>5 DEF Has
  <2>2. CASE x \in 1..Len(a)
    <3>1. x \in DOMAIN (a \o c) /\ (a \o c)[x] = (a \o b)[x]  BY <1>1, <1>2, <2>2
    <3> QED  BY <2>1, <3>1 DEF Has
  <2>3. CASE x \notin 1..Len(a)
    <3>1. PICK y \in DOMAIN c : c[y] = (a \o b)[x]  BY <1>3, <2>3
    <3>2. Len(a) + y \in DOMAIN (a \o c) /\ (a \o c)[Len(a) + y] = c[y]  BY <1>1, <1>2
    <3> QED  BY <2>1, <3>1, <3>2 DEF Has
  <2> QED  BY <2>2, <2>3
<1> QED  BY <1>4, <1>5

\* After an odd key all that wait go on waiting.
LEMMA LineWriteRaises ==
  Lists /\ Places /\ Numbers /\ TodoInv /\ LineInv /\ WriteRaises => LineInv'
<1> SUFFICES ASSUME Lists, Places, Numbers, TodoInv, LineInv, WriteRaises PROVE LineInv'
  OBVIOUS
<1>1. /\ at = "write" /\ at' = "idle" /\ term' = term /\ ~polling' /\ todo # <<>>
      /\ typed' = typed /\ classBuffer' = classBuffer /\ rebound' = rebound /\ buffer' = buffer
      /\ written' = written /\ term \in Terms /\ Head(todo).odd
  BY DEF WriteRaises, listVars, inVars, Places
<1>2. todo \in Seq(Keys) /\ 1 \in DOMAIN todo /\ todo[1].odd
  <2>1. todo \in Seq(Keys)  BY DEF Lists
  <2> QED  BY <1>1, <2>1, HeadTailProperties
<1>3. polling /\ ~NoneOdd(Waiting(term))
      /\ \A x \in DOMAIN todo : \E y \in DOMAIN Waiting(term) : Waiting(term)[y] = todo[x]
  BY <1>1, <1>2 DEF TodoInv, NoneOdd
<1>4. \A i \in Terms : Waiting(i)' = Waiting(i)  BY <1>1 DEF Waiting
<1>5. ASSUME NEW i \in Terms, i # term PROVE Line(i)' = Line(i)
  <2>1. Writing(i)' = Writing(i)  BY <1>1, <1>5 DEF Writing
  <2> QED  BY <1>1, <1>4, <1>5, <2>1 DEF Line
<1>6. /\ written[term] \in Seq(Keys) /\ Waiting(term) \in Seq(Keys)
      /\ written[term] \o todo \in Seq(Keys)
  BY <1>1, <1>2, LineParts, ConcatProperties
<1>7. Line(term) = written[term] \o todo
  <2>1. (written[term] \o todo) \o <<>> = written[term] \o todo  BY <1>6, ConcatEmptySeq
  <2> QED  BY <1>1, <1>3, <2>1 DEF Line, Writing
<1>8. Line(term)' = written[term] \o Waiting(term)
  <2>1. Writing(term)' = <<>>  BY <1>1 DEF Writing
  <2>2. written[term] \o <<>> = written[term]  BY <1>6, ConcatEmptySeq
  <2> QED  BY <1>1, <1>4, <2>1, <2>2 DEF Line
<1>9. typed \in Nat /\ typed + 1 \in Nat  BY DEF Numbers
<1>10. Below(Line(term), typed + 1) /\ Below(Waiting(term), typed + 1)
  BY <1>1 DEF LineInv
<1>11. /\ Below(Line(term)', typed + 1)
       /\ \A n, i : Has(Line(term), n, i) => Has(Line(term)', n, i)
  <2> DEFINE a == written[term]
             c == Waiting(term)
  <2>1. /\ a \in Seq(Keys) /\ c \in Seq(Keys) /\ Below(a \o todo, typed + 1)
        /\ Below(c, typed + 1) /\ \A x \in DOMAIN todo : \E y \in DOMAIN c : c[y] = todo[x]
    BY <1>3, <1>6, <1>7, <1>10
  <2> HIDE DEF a, c
  <2>2. /\ Below(a \o c, typed + 1)
        /\ \A n, i : Has(a \o todo, n, i) => Has(a \o c, n, i)
    BY <1>2, <1>9, <2>1, OtherEnd
  <2> QED  BY <1>7, <1>8, <2>2 DEF a, c
<1>12. \A i \in Terms : NoneOdd(Waiting(i)') => Ordered(Line(i)', i)
  BY <1>3, <1>4, <1>5 DEF LineInv
<1>13. \A i \in Terms : Below(Line(i)', typed' + 1) /\ Below(Waiting(i)', typed' + 1)
  BY <1>1, <1>4, <1>5, <1>11 DEF LineInv
<1>14. \A n \in 1..typed' : \E i \in Terms : Has(Line(i)', n, i)
  <2> TAKE n \in 1..typed'
  <2>1. PICK i \in Terms : Has(Line(i), n, i)  BY <1>1 DEF LineInv
  <2>2. CASE i = term
    <3>1. Has(Line(i)', n, i)  BY <1>1, <1>11, <2>1, <2>2
    <3> QED  BY <3>1
  <2>3. CASE i # term  BY <1>5, <2>1, <2>3
  <2> QED  BY <2>2, <2>3
<1>15. \A i \in Terms : \A x \in DOMAIN Waiting(i)' : ~Waiting(i)'[x].direct
  BY <1>4 DEF LineInv
<1>16. \A x \in DOMAIN classBuffer' : ~classBuffer'[x].direct  BY <1>1 DEF LineInv
<1> QED  BY <1>1, <1>12, <1>13, <1>14, <1>15, <1>16, LinePrimed

\* The list that was written is dropped.
LEMMA LineWritten == Lists /\ Places /\ TodoInv /\ LineInv /\ Written => LineInv'
<1> SUFFICES ASSUME Lists, Places, TodoInv, LineInv, Written PROVE LineInv'  OBVIOUS
<1>1. /\ at = "write" /\ at' = "read" /\ todo = <<>> /\ typed' = typed /\ term' = term
      /\ classBuffer' = classBuffer /\ written' = written /\ polling' = polling
      /\ polling => /\ rebound' = [rebound EXCEPT ![term] = TRUE]
                   /\ buffer' = [buffer EXCEPT ![term] = <<>>]
      /\ ~polling => rebound' = rebound /\ buffer' = buffer
  BY DEF Written, inVars
<1>2. ASSUME NEW i \in Terms
      PROVE  /\ Line(i)' = Line(i)
             /\ Waiting(i)' = Waiting(i) \/ (Waiting(i)' = <<>> /\ NoneOdd(Waiting(i)))
  <2>1. Writing(i)' = <<>> /\ Writing(i) = <<>>  BY <1>1 DEF Writing
  <2>2. CASE i = term /\ polling
    <3>1. Waiting(i)' = <<>>  BY <1>1, <2>2 DEF Waiting, Lists, Places
    <3>2. NoneOdd(Waiting(i))
      <4>1. NoneOdd(todo)  BY <1>1 DEF NoneOdd
      <4> QED  BY <1>1, <2>2, <4>1 DEF TodoInv
    <3> QED  BY <1>1, <2>1, <2>2, <3>1, <3>2 DEF Line
  <2>3. CASE ~(i = term /\ polling)
    <3>1. Waiting(i)' = Waiting(i)  BY <1>1, <2>3 DEF Waiting, Lists, Places
    <3> QED  BY <1>1, <2>1, <2>3, <3>1 DEF Line
  <2> QED  BY <2>2, <2>3
<1> QED  BY <1>1, <1>2, LineStays

\* The keys that wait become those that the call writes.
LEMMA LineAutoRead ==
  ASSUME Lists, Places, LineInv, NEW t \in Terms, AutoRead(t) PROVE LineInv'
<1>1. /\ at = "idle" /\ term' = t /\ polling' = TRUE /\ todo' = Waiting(t)
      /\ at' = IF Waiting(t) = <<>> THEN "check" ELSE "write"
      /\ typed' = typed /\ classBuffer' = classBuffer /\ rebound' = rebound /\ buffer' = buffer
      /\ written' = written
  BY DEF AutoRead, listVars, inVars
<1>2. \A i \in Terms : Waiting(i)' = Waiting(i)  BY <1>1 DEF Waiting
<1>3. ASSUME NEW i \in Terms PROVE Line(i)' = Line(i)
  <2>1. /\ written[i] \in Seq(Keys) /\ Waiting(i) \in Seq(Keys)
        /\ Line(i) = written[i] \o Waiting(i)
    BY <1>1, LineParts
  <2>2. /\ written[i] \o <<>> = written[i]
        /\ (written[i] \o Waiting(i)) \o <<>> = written[i] \o Waiting(i)
    <3>1. written[i] \o Waiting(i) \in Seq(Keys)  BY <2>1, ConcatProperties
    <3> QED  BY <2>1, <3>1, ConcatEmptySeq
  <2>3. CASE i = t /\ at' = "write"
    <3>1. Writing(i)' = Waiting(i)  BY <1>1, <2>3 DEF Writing
    <3> QED  BY <1>1, <2>1, <2>2, <2>3, <3>1 DEF Line
  <2>4. CASE ~(i = t /\ at' = "write")
    <3>1. Writing(i)' = <<>>  BY <1>1, <2>4 DEF Writing
    <3> QED  BY <1>1, <1>2, <2>1, <2>2, <2>4, <3>1 DEF Line
  <2> QED  BY <2>3, <2>4
<1> QED  BY <1>1, <1>2, <1>3, LineStays

\* Steps between which no key is written leave the lines alone.
LEMMA LineElsewhere ==
  ASSUME LineInv, UNCHANGED <<listVars, written>>, at # "write", at' # "write",
         at' \in {"idle", "closing"} => ~polling'
  PROVE  LineInv'
<1>1. \A i \in Terms : Waiting(i)' = Waiting(i)  BY DEF Waiting, listVars
<1>2. \A i \in Terms : Writing(i)' = Writing(i)  BY DEF Writing
<1>3. \A i \in Terms : Line(i)' = Line(i)  BY <1>1, <1>2 DEF Line
<1> QED  BY <1>1, <1>3, LineStays DEF listVars

\* What touches neither keys nor the call leaves the lines alone.
LEMMA LineUnchanged ==
  ASSUME LineInv, UNCHANGED <<listVars, written, callVars>> PROVE LineInv'
<1>1. \A i \in Terms : Waiting(i)' = Waiting(i)  BY DEF Waiting, listVars
<1>2. \A i \in Terms : Writing(i)' = Writing(i)  BY DEF Writing, callVars
<1>3. \A i \in Terms : Line(i)' = Line(i)  BY <1>1, <1>2 DEF Line, callVars
<1>4. at' \in {"idle", "closing"} => ~polling'  BY DEF LineInv, callVars
<1> QED  BY <1>1, <1>3, <1>4, LineStays DEF listVars

LEMMA StillBelow ==
  ASSUME NEW s \in Seq(Keys), NEW n \in Nat, Below(s, n + 1) PROVE Below(s, n + 2)
<1>1. \A x \in DOMAIN s : s[x] \in Keys  BY ElementOfSeq, LenProperties
<1> QED  BY <1>1 DEF Below, Keys

\* What a step that types a key has to keep.
LEMMA LineTyped ==
  ASSUME LineInv, typed \in Nat, typed' = typed + 1, NEW t \in Terms,
         \A i \in Terms : NoneOdd(Waiting(i)') => Ordered(Line(i)', i),
         \A i \in Terms : Below(Line(i)', typed + 2) /\ Below(Waiting(i)', typed + 2),
         \A i \in Terms : \A n \in 1..typed : Has(Line(i), n, i) => Has(Line(i)', n, i),
         Has(Line(t)', typed + 1, t),
         \A i \in Terms : \A x \in DOMAIN Waiting(i)' : ~Waiting(i)'[x].direct,
         \A x \in DOMAIN classBuffer' : ~classBuffer'[x].direct,
         at' \in {"idle", "closing"} => ~polling'
  PROVE  LineInv'
<1>1. ASSUME NEW n \in 1..typed + 1 PROVE \E i \in Terms : Has(Line(i)', n, i)
  <2>1. CASE n = typed + 1  BY <2>1
  <2>2. CASE n # typed + 1
    <3>1. n \in 1..typed  BY <2>2
    <3> QED  BY <3>1 DEF LineInv
  <2> QED  BY <2>1, <2>2
<1>2. typed' + 1 = typed + 2  OBVIOUS
<1> QED  BY <1>1, <1>2, LinePrimed

\* A mapped key passes the keys that wait.
LEMMA LineTypeDirect ==
  ASSUME Lists, Places, Numbers, LineInv, NEW t \in Terms, TypeDirect(t) PROVE LineInv'
<1> DEFINE k == Key(t, TRUE, FALSE)
<1>1. /\ at = "idle" /\ at' = "write" /\ term' = t /\ polling' = polling /\ todo' = <<k>>
      /\ typed' = typed + 1 /\ events < MaxEvents
      /\ classBuffer' = classBuffer /\ rebound' = rebound /\ buffer' = buffer
      /\ written' = written
  BY DEF TypeDirect, Event, inVars
<1>2. k \in Keys /\ k.n = typed + 1 /\ k.home = t /\ k.direct /\ typed \in Nat
  BY <1>1, NewKey
<1> HIDE DEF k
<1>3. ~polling /\ ~polling'  BY <1>1 DEF LineInv
<1>4. \A i \in Terms : Waiting(i)' = Waiting(i)  BY <1>1 DEF Waiting
<1>5. \A i \in Terms : /\ written[i] \in Seq(Keys) /\ Waiting(i) \in Seq(Keys)
                       /\ Line(i) = written[i] \o Waiting(i) /\ Line(i) \in Seq(Keys)
  BY <1>1, LineParts
<1>6. ASSUME NEW i \in Terms, i # t PROVE Line(i)' = Line(i)
  <2>1. Writing(i)' = <<>>  BY <1>1, <1>6 DEF Writing
  <2>2. written[i] \o <<>> = written[i]  BY <1>5, ConcatEmptySeq
  <2> QED  BY <1>1, <1>3, <1>4, <1>5, <1>6, <2>1, <2>2 DEF Line
<1>7. Line(t)' = written[t] \o <<k>> \o Waiting(t)
  <2>1. Writing(t)' = <<k>>  BY <1>1 DEF Writing
  <2> QED  BY <1>1, <1>3, <1>4, <2>1 DEF Line
<1>8. /\ Ordered(Line(t), t) => Ordered(Line(t)', t)
      /\ Below(Line(t)', k.n + 1) /\ Has(Line(t)', k.n, k.home)
      /\ \A n, j : Has(Line(t), n, j) => Has(Line(t)', n, j)
  <2>1. Below(Line(t), k.n) /\ \A x \in DOMAIN Waiting(t) : ~Waiting(t)[x].direct
    BY <1>2 DEF LineInv
  <2> DEFINE a == written[t]
             b == Waiting(t)
  <2>2. /\ a \in Seq(Keys) /\ b \in Seq(Keys) /\ Line(t) = a \o b /\ Line(t)' = a \o <<k>> \o b
        /\ Below(a \o b, k.n) /\ \A x \in DOMAIN b : ~b[x].direct
    BY <1>5, <1>7, <2>1
  <2> HIDE DEF a, b
  <2>3. /\ Ordered(a \o b, t) => Ordered(a \o <<k>> \o b, t)
        /\ Below(a \o <<k>> \o b, k.n + 1)
        /\ Has(a \o <<k>> \o b, k.n, k.home)
        /\ \A n, j : Has(a \o b, n, j) => Has(a \o <<k>> \o b, n, j)
    BY <1>2, <2>2, InsertInOrder
  <2> QED  BY <2>2, <2>3
<1>9. ASSUME NEW i \in Terms
      PROVE  /\ i # t => Below(Line(i)', typed + 2)
             /\ Below(Waiting(i)', typed + 2)
  <2>1. Below(Line(i), typed + 1) /\ Below(Waiting(i), typed + 1)  BY DEF LineInv
  <2>2. Below(Line(i), typed + 2) /\ Below(Waiting(i), typed + 2)
    BY <1>2, <1>5, <2>1, StillBelow
  <2> QED  BY <1>4, <1>6, <2>2
<1>10. Below(Line(t)', typed + 2) /\ Has(Line(t)', typed + 1, t)
  <2>1. k.n + 1 = typed + 2  BY <1>2
  <2> QED  BY <1>2, <1>8, <2>1
<1>11. ASSUME NEW i \in Terms
       PROVE  /\ NoneOdd(Waiting(i)') => Ordered(Line(i)', i)
              /\ Below(Line(i)', typed + 2) /\ Below(Waiting(i)', typed + 2)
  <2>1. NoneOdd(Waiting(i)') => Ordered(Line(i), i)  BY <1>4 DEF LineInv
  <2> QED  BY <1>6, <1>8, <1>9, <1>10, <2>1
<1>12. \A i \in Terms : \A n \in 1..typed : Has(Line(i), n, i) => Has(Line(i)', n, i)
  BY <1>6, <1>8
<1>13. \A i \in Terms : \A x \in DOMAIN Waiting(i)' : ~Waiting(i)'[x].direct
  BY <1>4 DEF LineInv
<1>14. \A x \in DOMAIN classBuffer' : ~classBuffer'[x].direct  BY <1>1 DEF LineInv
<1> QED  BY <1>1, <1>2, <1>3, <1>10, <1>11, <1>12, <1>13, <1>14, LineTyped

\* An odd key goes on waiting when another is put behind it.
LEMMA OddStays ==
  ASSUME NEW s \in Seq(Keys), NEW k \in Keys, NoneOdd(Append(s, k)) PROVE NoneOdd(s)
<1>1. \A x \in DOMAIN s : x \in DOMAIN Append(s, k) /\ Append(s, k)[x] = s[x]
  BY AppendProperties, LenProperties
<1> QED  BY <1>1 DEF NoneOdd

\* A character is put at the end of every line that has the list it is put in.
LEMMA LineTypeBuffered ==
  ASSUME Lists, Places, Numbers, LineInv, NEW t \in Terms, NEW odd \in BOOLEAN,
         TypeBuffered(t, odd)
  PROVE  LineInv'
<1> DEFINE k == Key(t, FALSE, odd)
           Grows(i) == IF rebound[t] THEN i = t ELSE ~rebound[i]
<1>1. /\ at = "idle" /\ at' = at /\ term' = term /\ polling' = polling /\ todo' = todo
      /\ typed' = typed + 1 /\ events < MaxEvents /\ rebound' = rebound /\ written' = written
      /\ rebound[t] => /\ classBuffer' = classBuffer
                      /\ buffer' = [buffer EXCEPT ![t] = Append(buffer[t], k)]
      /\ ~rebound[t] => buffer' = buffer /\ classBuffer' = Append(classBuffer, k)
  BY DEF TypeBuffered, Event, inVars, callVars
<1>2. k \in Keys /\ k.n = typed + 1 /\ k.home = t /\ ~k.direct /\ typed \in Nat
  BY <1>1, NewKey
<1> HIDE DEF k
<1>3. \A i \in Terms : /\ written[i] \in Seq(Keys) /\ Waiting(i) \in Seq(Keys)
                       /\ Line(i) = written[i] \o Waiting(i) /\ Line(i) \in Seq(Keys)
  BY <1>1, LineParts
<1>4. \A i \in Terms : Waiting(i)' = IF Grows(i) THEN Append(Waiting(i), k) ELSE Waiting(i)
  BY <1>1 DEF Waiting, Lists
<1> HIDE DEF Grows
<1>5. ASSUME NEW i \in Terms PROVE Line(i)' = IF Grows(i) THEN Append(Line(i), k) ELSE Line(i)
  <2>1. Line(i)' = written[i] \o Waiting(i)'
    <3>1. Writing(i)' = <<>>  BY <1>1 DEF Writing
    <3>2. written[i] \o <<>> = written[i]  BY <1>3, ConcatEmptySeq
    <3> QED  BY <1>1, <3>1, <3>2 DEF Line
  <2> DEFINE a == written[i]
             b == Waiting(i)
  <2>2. a \in Seq(Keys) /\ b \in Seq(Keys) /\ Line(i) = a \o b  BY <1>3
  <2> HIDE DEF a, b
  <2>3. a \o Append(b, k) = Append(a \o b, k)
    <3>1. \A c \in Keys : <<c>> \in Seq(Keys)  OBVIOUS
    <3>2. <<k>> \in Seq(Keys) /\ a \o b \in Seq(Keys)  BY <1>2, <2>2, <3>1, ConcatProperties
    <3>3. Append(b, k) = b \o <<k>> /\ Append(a \o b, k) = (a \o b) \o <<k>>
      BY <1>2, <2>2, <3>2, AppendIsConcat
    <3>4. (a \o b) \o <<k>> = a \o (b \o <<k>>)  BY <2>2, <3>2, ConcatAssociative
    <3> QED  BY <3>3, <3>4
  <2> QED  BY <1>4, <2>1, <2>2, <2>3 DEF a, b
<1>6. ASSUME NEW i \in Terms
      PROVE  /\ Ordered(Line(i), i) => Ordered(Line(i)', i)
             /\ Below(Line(i)', typed + 2)
             /\ \A n \in 1..typed : Has(Line(i), n, i) => Has(Line(i)', n, i)
             /\ Grows(i) => Has(Line(i)', typed + 1, t)
  <2>1. Below(Line(i), k.n) /\ Line(i) \in Seq(Keys)
    BY <1>2, <1>3 DEF LineInv
  <2>2. CASE Grows(i)
    <3> DEFINE L == Line(i)
    <3>1. L \in Seq(Keys) /\ Below(L, k.n) /\ Line(i)' = Append(L, k)
      BY <1>5, <2>1, <2>2
    <3> HIDE DEF L
    <3>2. /\ Ordered(L, i) => Ordered(Append(L, k), i)
          /\ Below(Append(L, k), k.n + 1)
          /\ Has(Append(L, k), k.n, k.home)
          /\ \A n, j : Has(L, n, j) => Has(Append(L, k), n, j)
      BY <1>2, <3>1, AppendInOrder
    <3>3. k.n + 1 = typed + 2  BY <1>2
    <3> QED  BY <1>2, <3>1, <3>2, <3>3 DEF L
  <2>3. CASE ~Grows(i)
    <3>1. Below(Line(i), typed + 2)  BY <1>2, <2>1, StillBelow
    <3> QED  BY <1>5, <2>1, <2>3, <3>1
  <2> QED  BY <2>2, <2>3
<1>7. \A s \in Seq(Keys) : (\A x \in DOMAIN s : ~s[x].direct) =>
                              \A x \in DOMAIN Append(s, k) : ~Append(s, k)[x].direct
  <2>1. \A s \in Seq(Keys) : \A x \in DOMAIN Append(s, k) :
           (x \in DOMAIN s /\ Append(s, k)[x] = s[x]) \/ Append(s, k)[x] = k
    BY <1>2, AppendProperties, LenProperties
  <2> QED  BY <1>2, <2>1
<1>8. \A i \in Terms : \A x \in DOMAIN Waiting(i)' : ~Waiting(i)'[x].direct
  BY <1>3, <1>4, <1>7 DEF LineInv
<1>9. \A x \in DOMAIN classBuffer' : ~classBuffer'[x].direct
  BY <1>1, <1>7 DEF LineInv, Lists
<1>12. ASSUME NEW i \in Terms PROVE Below(Waiting(i)', typed + 2)
  <2>1. Below(Waiting(i), typed + 1) /\ Waiting(i) \in Seq(Keys)  BY <1>3 DEF LineInv
  <2>2. Below(Waiting(i), typed + 2)  BY <1>2, <2>1, StillBelow
  <2>3. \A s \in Seq(Keys) : Below(s, k.n) => Below(Append(s, k), k.n + 1)
    BY <1>2, AppendInOrder
  <2>4. k.n = typed + 1 /\ k.n + 1 = typed + 2  BY <1>2
  <2>5. Below(Append(Waiting(i), k), typed + 2)  BY <2>1, <2>3, <2>4
  <2> QED  BY <1>4, <2>2, <2>5
<1>13. ASSUME NEW i \in Terms, NoneOdd(Waiting(i)') PROVE Ordered(Line(i)', i)
  <2>1. NoneOdd(Waiting(i))  BY <1>2, <1>3, <1>4, <1>13, OddStays
  <2> QED  BY <1>6, <2>1 DEF LineInv
<1>10. Has(Line(t)', typed + 1, t)  BY <1>6 DEF Grows
<1>11. at' \in {"idle", "closing"} => ~polling'  BY <1>1 DEF LineInv
<1> QED  BY <1>1, <1>2, <1>6, <1>8, <1>9, <1>10, <1>11, <1>12, <1>13, LineTyped

\* Every step keeps the order of the keys and loses none.
LEMMA LineStep == Lists /\ Places /\ Numbers /\ TodoInv /\ LineInv /\ [Next]_vars => LineInv'
<1> SUFFICES ASSUME Lists, Places, Numbers, TodoInv, LineInv, [Next]_vars PROVE LineInv'
  OBVIOUS
<1> USE DEF inVars
<1>1. CASE Call
  <2>1. CASE WriteKey  BY <2>1, LineWriteKey
  <2>2. CASE Written  BY <2>2, LineWritten
  <2>3. CASE ReadEmpty
    <3>1. at' \in {"idle", "closing"} => ~polling'  BY <2>3 DEF ReadEmpty, Returns
    <3> QED  BY <2>3, <3>1, LineElsewhere DEF ReadEmpty, Returns
  <2>4. CASE ReadSlice
    <3>1. at = "read" /\ at' # "write" /\ (at' \in {"idle", "closing"} => ~polling')
      BY <2>4 DEF ReadSlice, Returns
    <3> QED  BY <2>4, <3>1, LineElsewhere DEF ReadSlice
  <2>5. CASE FindsAlive \/ FindsDead
    BY <2>5, LineElsewhere DEF FindsAlive, FindsDead
  <2>6. CASE Closing
    <3>1. at' # "write" /\ ~polling'  BY <2>6 DEF Closing, LineInv
    <3> QED  BY <2>6, <3>1, LineElsewhere DEF Closing
  <2>7. CASE WriteRaises  BY <2>7, LineWriteRaises
  <2> QED  BY <1>1, <2>1, <2>2, <2>3, <2>4, <2>5, <2>6, <2>7 DEF Call
<1>2. ASSUME NEW i \in Terms, OpenFails(i) \/ Exit(i) \/ Resize(i) \/ Take(i) PROVE LineInv'
  BY <1>2, LineUnchanged DEF OpenFails, Exit, Resize, Take
<1>3. ASSUME NEW i \in Terms, Abort(i) PROVE LineInv'
  <2>1. at' # "write" /\ ~polling'  BY <1>3 DEF Abort, LineInv
  <2> QED  BY <1>3, <2>1, LineElsewhere DEF Abort
<1>4. ASSUME NEW i \in Terms, AutoRead(i) PROVE LineInv'  BY <1>4, LineAutoRead
<1>5. ASSUME NEW i \in Terms, NEW odd \in BOOLEAN, TypeBuffered(i, odd) PROVE LineInv'
  BY <1>5, LineTypeBuffered
<1>6. ASSUME NEW i \in Terms, TypeDirect(i) PROVE LineInv'  BY <1>6, LineTypeDirect
<1>7. ASSUME NEW i \in Terms, NEW p \in Pids, Open(i, p) PROVE LineInv'
  BY <1>7, LineUnchanged DEF Open
<1>8. ASSUME NEW i \in Terms, NEW b \in Bytes, Send(i, b) PROVE LineInv'
  BY <1>8, LineUnchanged DEF Send
<1>9. ASSUME NEW p \in Pids, StrangerStarts(p) PROVE LineInv'
  BY <1>9, LineUnchanged DEF StrangerStarts
<1>10. CASE UNCHANGED vars  BY <1>10, LineUnchanged DEF vars
<1> QED  BY <1>1, <1>2, <1>3, <1>4, <1>5, <1>6, <1>7, <1>8, <1>9, <1>10 DEF Next, Bytes

\* What a poll writes is what waits.
LEMMA TodoStep == Lists /\ Places /\ LineInv /\ TodoInv /\ [Next]_vars => TodoInv'
<1> SUFFICES ASSUME Lists, Places, LineInv, TodoInv, [Next]_vars PROVE TodoInv'  OBVIOUS
<1>1. ASSUME at' # "write" PROVE TodoInv'  BY <1>1 DEF TodoInv
<1>2. ASSUME UNCHANGED <<listVars, callVars>> PROVE TodoInv'
  <2>1. Waiting(term)' = Waiting(term)  BY <1>2 DEF Waiting, listVars, callVars
  <2> QED  BY <1>2, <2>1 DEF TodoInv, NoneOdd, callVars
<1>3. CASE WriteKey
  <2>1. /\ at = "write" /\ term' = term /\ polling' = polling /\ todo # <<>>
        /\ ~Head(todo).odd /\ todo' = Tail(todo) /\ UNCHANGED listVars
    BY <1>3 DEF WriteKey
  <2>2. todo \in Seq(Keys)  BY DEF Lists
  <2>3. /\ Head(todo) = todo[1] /\ Len(todo) \in Nat /\ DOMAIN todo = 1..Len(todo)
        /\ DOMAIN Tail(todo) = 1..Len(todo) - 1
        /\ \A x \in 1..Len(todo) - 1 : Tail(todo)[x] = todo[x + 1]
    BY <2>1, <2>2, HeadTailProperties, LenProperties
  <2>4. \A x \in DOMAIN Tail(todo) : x + 1 \in DOMAIN todo /\ Tail(todo)[x] = todo[x + 1]
    BY <2>3
  <2>5. NoneOdd(Tail(todo)) <=> NoneOdd(todo)
    <3>1. \A x \in DOMAIN todo :
             x = 1 \/ (x - 1 \in DOMAIN Tail(todo) /\ Tail(todo)[x - 1] = todo[x])
      BY <2>3
    <3> QED  BY <2>1, <2>3, <2>4, <3>1 DEF NoneOdd
  <2>6. Waiting(term)' = Waiting(term)  BY <2>1 DEF Waiting, listVars
  <2>7. NoneOdd(todo)' = NoneOdd(Tail(todo)) /\ NoneOdd(Waiting(term))' = NoneOdd(Waiting(term))
    BY <2>1, <2>6 DEF NoneOdd
  <2> QED  BY <2>1, <2>4, <2>5, <2>6, <2>7 DEF TodoInv
<1>4. ASSUME NEW i \in Terms, AutoRead(i) PROVE TodoInv'
  <2>1. term' = i /\ polling' /\ todo' = Waiting(i) /\ UNCHANGED listVars
    BY <1>4 DEF AutoRead
  <2>2. Waiting(term)' = todo'  BY <2>1 DEF Waiting, listVars
  <2>3. NoneOdd(todo)' = NoneOdd(Waiting(term))'  BY <2>2 DEF NoneOdd
  <2> QED  BY <2>1, <2>2, <2>3 DEF TodoInv
<1>5. ASSUME NEW i \in Terms, TypeDirect(i) PROVE TodoInv'
  <2>1. ~polling' /\ todo' = <<Key(i, TRUE, FALSE)>>
    BY <1>5 DEF TypeDirect, LineInv
  <2>2. NoneOdd(todo)'
    <3> DEFINE k == Key(i, TRUE, FALSE)
    <3>1. ~k.odd  BY DEF Key
    <3> HIDE DEF k
    <3>2. DOMAIN <<k>> = {1} /\ <<k>>[1] = k  OBVIOUS
    <3> QED  BY <2>1, <3>1, <3>2 DEF NoneOdd, k
  <2> QED  BY <2>1, <2>2 DEF TodoInv
<1>6. CASE Call
  <2>1. CASE WriteRaises \/ Written  BY <1>1, <2>1 DEF WriteRaises, Written
  <2>2. CASE ReadEmpty  BY <1>1, <2>2 DEF ReadEmpty, Returns
  <2>3. CASE ReadSlice  BY <1>1, <2>3 DEF ReadSlice, Returns
  <2>4. CASE FindsAlive \/ FindsDead \/ Closing
    BY <1>1, <2>4 DEF FindsAlive, FindsDead, Closing
  <2> QED  BY <1>3, <1>6, <2>1, <2>2, <2>3, <2>4 DEF Call
<1>7. ASSUME NEW i \in Terms, OpenFails(i) \/ Exit(i) \/ Resize(i) \/ Take(i) PROVE TodoInv'
  BY <1>2, <1>7 DEF OpenFails, Exit, Resize, Take
<1>8. ASSUME NEW i \in Terms, Abort(i) PROVE TodoInv'  BY <1>1, <1>8 DEF Abort
<1>9. ASSUME NEW i \in Terms, NEW odd \in BOOLEAN, TypeBuffered(i, odd) PROVE TodoInv'
  BY <1>1, <1>9 DEF TypeBuffered, callVars
<1>10. ASSUME NEW i \in Terms, NEW p \in Pids, Open(i, p) PROVE TodoInv'
  BY <1>2, <1>10 DEF Open
<1>11. ASSUME NEW i \in Terms, NEW b \in Bytes, Send(i, b) PROVE TodoInv'
  BY <1>2, <1>11 DEF Send
<1>12. ASSUME NEW p \in Pids, StrangerStarts(p) PROVE TodoInv'
  BY <1>2, <1>12 DEF StrangerStarts
<1>13. CASE UNCHANGED vars  BY <1>2, <1>13 DEF vars
<1> QED  BY <1>4, <1>5, <1>6, <1>7, <1>8, <1>9, <1>10, <1>11, <1>12, <1>13 DEF Next, Bytes

-----------------------------------------------------------------------------
(* Output.                                                                   *)

\* What a program sends as it should: the second half of a character or sequence follows
\* the first, and nothing else does.
Well(s) ==
    \A k \in 1..Len(s) :
        /\ s[k] = "t" <=> k > 1 /\ s[k - 1] = "h"
        /\ s[k] = "F" <=> k > 1 /\ s[k - 1] = "E"

Shows == Bytes \cup {"?"}

\* The output of the call of read, if it is for this terminal.
Pending(i) == IF i = term THEN output ELSE <<>>

WholeInv ==
    /\ at # "read" => output = <<>>
    /\ \A i \in Terms : ~spoilt[i] =>
          /\ Well(sent[i])
          /\ shown[i] \o Pending(i) \o outPty[i] = sent[i]
          /\ Last(shown[i]) \notin {"h", "E"} /\ Last(Pending(i)) # "h"

\* The end of two texts in a row.
LEMMA LastOfConcat ==
  ASSUME NEW s \in Seq(Shows), NEW t \in Seq(Shows)
  PROVE  Last(s \o t) = IF t = <<>> THEN Last(s) ELSE Last(t)
<1>1. Len(s) \in Nat /\ Len(t) \in Nat  BY LenProperties
<1>2. CASE t = <<>>  BY <1>2, ConcatEmptySeq
<1>3. CASE t # <<>>
  <2>1. Len(t) > 0  BY <1>1, <1>3, EmptySeq
  <2>2. Len(s \o t) = Len(s) + Len(t) /\ (s \o t)[Len(s) + Len(t)] = t[Len(t)]
    BY <1>1, <2>1, ConcatProperties
  <2>3. s \o t # <<>>  BY <1>1, <2>1, <2>2
  <2> QED  BY <1>3, <2>2, <2>3 DEF Last
<1> QED  BY <1>2, <1>3

\* Where a byte of the middle of three texts lies in the whole.
LEMMA Middle ==
  ASSUME NEW a \in Seq(Shows), NEW s \in Seq(Shows), NEW b \in Seq(Shows)
  PROVE  /\ Len(a) \in Nat /\ Len(s) \in Nat /\ DOMAIN s = 1..Len(s)
         /\ Len(a \o s \o b) \in Nat /\ Len(a \o s \o b) >= Len(a) + Len(s)
         /\ \A k \in 1..Len(s) : (a \o s \o b)[Len(a) + k] = s[k]
         /\ Len(a) > 0 => (a \o s \o b)[Len(a)] = Last(a)
         /\ Len(s) > 0 => Last(s) = s[Len(s)]
<1>1. Len(a) \in Nat /\ Len(s) \in Nat /\ Len(b) \in Nat /\ DOMAIN s = 1..Len(s)
  BY LenProperties
<1>2. a \o s \in Seq(Shows) /\ Len(a \o s) = Len(a) + Len(s)  BY ConcatProperties
<1>3. Len(a \o s \o b) = Len(a) + Len(s) + Len(b)  BY <1>2, ConcatProperties
<1>4. \A k \in 1..Len(a) + Len(s) : (a \o s \o b)[k] = (a \o s)[k]
  BY <1>1, <1>2, ConcatProperties
<1>5. \A k \in 1..Len(s) : (a \o s)[Len(a) + k] = s[k]  BY <1>1, ConcatProperties
<1>6. \A k \in 1..Len(a) : (a \o s)[k] = a[k]  BY <1>1, ConcatProperties
<1>7. Len(a) > 0 => (a \o s \o b)[Len(a)] = Last(a)
  <2>1. Len(a) > 0 => a # <<>> /\ Len(a) \in 1..Len(a)  BY <1>1
  <2> QED  BY <1>1, <1>4, <1>6, <2>1 DEF Last
<1>8. Len(s) > 0 => Last(s) = s[Len(s)]
  <2>1. Len(s) > 0 => s # <<>>  OBVIOUS
  <2> QED  BY <2>1 DEF Last
<1>9. \A k \in 1..Len(s) : (a \o s \o b)[Len(a) + k] = s[k]  BY <1>1, <1>4, <1>5
<1> QED  BY <1>1, <1>3, <1>7, <1>8, <1>9

\* A slice that begins and ends between two characters can be decoded.
LEMMA WholeSliceDecodes ==
  ASSUME NEW a \in Seq(Shows), NEW s \in Seq(Shows), NEW b \in Seq(Shows),
         Well(a \o s \o b), Last(a) # "h", Last(s) # "h"
  PROVE  Decodes(s)
<1> DEFINE w == a \o s \o b
<1>1. /\ Len(a) \in Nat /\ Len(s) \in Nat /\ DOMAIN s = 1..Len(s)
      /\ Len(w) \in Nat /\ Len(w) >= Len(a) + Len(s)
      /\ \A k \in 1..Len(s) : w[Len(a) + k] = s[k]
      /\ Len(a) > 0 => w[Len(a)] = Last(a)
      /\ Len(s) > 0 => Last(s) = s[Len(s)]
  BY Middle
<1>2. \A k \in 1..Len(w) : w[k] = "t" <=> k > 1 /\ w[k - 1] = "h"  BY DEF Well
<1> HIDE DEF w
<1>n. Len(a) \in Nat /\ Len(s) \in Nat /\ Len(w) \in Nat /\ Len(w) >= Len(a) + Len(s)
  BY <1>1
<1>3. ASSUME NEW k \in 1..Len(s), s[k] = "h" PROVE k < Len(s) /\ s[k + 1] = "t"
  <2>0. k \in Nat /\ 1 <= k /\ k <= Len(s) /\ Len(s) > 0  BY <1>1
  <2>1. k # Len(s)
    <3>1. Last(s) = s[Len(s)]  BY <1>1, <2>0
    <3> QED  BY <1>3, <3>1
  <2>2. k + 1 \in 1..Len(s) /\ Len(a) + (k + 1) \in 1..Len(w)
        /\ Len(a) + (k + 1) - 1 = Len(a) + k
    BY <1>n, <2>0, <2>1
  <2>3. w[Len(a) + k] = "h"  BY <1>1, <1>3
  <2>4. w[Len(a) + (k + 1)] = "t"  BY <1>1, <1>2, <2>2, <2>3
  <2>5. s[k + 1] = "t"  BY <1>1, <2>2, <2>4
  <2> QED  BY <1>n, <2>0, <2>1, <2>5
<1>4. ASSUME NEW k \in 1..Len(s), s[k] = "t" PROVE k > 1 /\ s[k - 1] = "h"
  <2>1. Len(a) + k \in 1..Len(w) /\ w[Len(a) + k] = "t"  BY <1>1, <1>4
  <2>2. Len(a) + k > 1 /\ w[Len(a) + k - 1] = "h"  BY <1>2, <2>1
  <2>3. k # 1
    <3>1. SUFFICES ASSUME k = 1 PROVE FALSE  OBVIOUS
    <3>2. Len(a) > 0 /\ Len(a) + k - 1 = Len(a)  BY <1>1, <2>2, <3>1
    <3> QED  BY <1>1, <2>2, <3>2
  <2>4. k - 1 \in 1..Len(s) /\ Len(a) + k - 1 = Len(a) + (k - 1)  BY <1>1, <2>3
  <2>5. s[k - 1] = "h"  BY <1>1, <2>2, <2>4
  <2> QED  BY <2>4, <2>5
<1> QED  BY <1>1, <1>3, <1>4 DEF Decodes

\* Output that begins and ends between two sequences is obeyed as it is.
LEMMA WholeOutputPlays ==
  ASSUME NEW a \in Seq(Shows), NEW s \in Seq(Shows), NEW b \in Seq(Shows),
         Well(a \o s \o b), Last(a) # "E", Last(s) # "E"
  PROVE  Played(s) = s
<1> DEFINE w == a \o s \o b
<1>1. /\ Len(a) \in Nat /\ Len(s) \in Nat /\ DOMAIN s = 1..Len(s)
      /\ Len(w) \in Nat /\ Len(w) >= Len(a) + Len(s)
      /\ \A k \in 1..Len(s) : w[Len(a) + k] = s[k]
      /\ Len(a) > 0 => w[Len(a)] = Last(a)
      /\ Len(s) > 0 => Last(s) = s[Len(s)]
  BY Middle
<1>2. \A k \in 1..Len(w) : w[k] = "F" <=> k > 1 /\ w[k - 1] = "E"  BY DEF Well
<1> HIDE DEF w
<1>n. Len(a) \in Nat /\ Len(s) \in Nat /\ Len(w) \in Nat /\ Len(w) >= Len(a) + Len(s)
  BY <1>1
<1>3. ASSUME NEW k \in 1..Len(s), s[k] = "E" PROVE k < Len(s) /\ s[k + 1] = "F"
  <2>0. k \in Nat /\ 1 <= k /\ k <= Len(s) /\ Len(s) > 0  BY <1>1
  <2>1. k # Len(s)
    <3>1. Last(s) = s[Len(s)]  BY <1>1, <2>0
    <3> QED  BY <1>3, <3>1
  <2>2. k + 1 \in 1..Len(s) /\ Len(a) + (k + 1) \in 1..Len(w)
        /\ Len(a) + (k + 1) - 1 = Len(a) + k
    BY <1>n, <2>0, <2>1
  <2>3. w[Len(a) + k] = "E"  BY <1>1, <1>3
  <2>4. w[Len(a) + (k + 1)] = "F"  BY <1>1, <1>2, <2>2, <2>3
  <2>5. s[k + 1] = "F"  BY <1>1, <2>2, <2>4
  <2> QED  BY <1>n, <2>0, <2>1, <2>5
<1>4. ASSUME NEW k \in 1..Len(s), s[k] = "F" PROVE k > 1 /\ s[k - 1] = "E"
  <2>1. Len(a) + k \in 1..Len(w) /\ w[Len(a) + k] = "F"  BY <1>1, <1>4
  <2>2. Len(a) + k > 1 /\ w[Len(a) + k - 1] = "E"  BY <1>2, <2>1
  <2>3. k # 1
    <3>1. SUFFICES ASSUME k = 1 PROVE FALSE  OBVIOUS
    <3>2. Len(a) > 0 /\ Len(a) + k - 1 = Len(a)  BY <1>1, <2>2, <3>1
    <3> QED  BY <1>1, <2>2, <3>2
  <2>4. k - 1 \in 1..Len(s) /\ Len(a) + k - 1 = Len(a) + (k - 1)  BY <1>1, <2>3
  <2>5. s[k - 1] = "E"  BY <1>1, <2>2, <2>4
  <2> QED  BY <2>4, <2>5
<1>5. Played(s) = [k \in DOMAIN s |-> s[k]]  BY <1>1, <1>3, <1>4 DEF Played
<1>6. s = [k \in DOMAIN s |-> s[k]]  BY <1>1, LenProperties
<1> QED  BY <1>5, <1>6

\* A byte that may follow keeps a text well-formed.
LEMMA WellAppend ==
  ASSUME NEW s \in Seq(Bytes), NEW b \in Bytes, Well(s), Follows(b, s)
  PROVE  Well(Append(s, b))
<1> DEFINE n == Len(s)
           w == Append(s, b)
<1>1. /\ n \in Nat /\ Len(w) = n + 1 /\ w[n + 1] = b
      /\ \A k \in 1..n : w[k] = s[k]
  BY AppendProperties, LenProperties
<1>2. n > 0 => Last(s) = w[n]
  <2>1. n > 0 => s # <<>> /\ n \in 1..n  BY <1>1
  <2> QED  BY <1>1, <2>1 DEF Last
<1>3. n = 0 => Last(s) = "a"  BY EmptySeq DEF Last
<1>4. (b = "t" <=> n > 0 /\ w[n] = "h") /\ (b = "F" <=> n > 0 /\ w[n] = "E")
  BY <1>1, <1>2, <1>3 DEF Follows, Bytes
<1>5. \A k \in 1..n : (s[k] = "t" <=> k > 1 /\ s[k - 1] = "h")
                     /\ (s[k] = "F" <=> k > 1 /\ s[k - 1] = "E")
  BY DEF Well
<1> HIDE DEF w, n
<1>6. ASSUME NEW k \in 1..n + 1
      PROVE  (w[k] = "t" <=> k > 1 /\ w[k - 1] = "h") /\ (w[k] = "F" <=> k > 1 /\ w[k - 1] = "E")
  <2>1. CASE k = n + 1  BY <1>1, <1>4, <2>1
  <2>2. CASE k # n + 1
    <3>1. k \in 1..n /\ (k > 1 => k - 1 \in 1..n)  BY <1>1, <2>2
    <3> QED  BY <1>1, <1>5, <3>1
  <2> QED  BY <2>1, <2>2
<1> QED  BY <1>1, <1>6 DEF Well, w

\* The texts of a terminal, as texts of what is shown.
LEMMA TextsShow ==
  ASSUME Texts, Places, NEW i \in Terms
  PROVE  /\ shown[i] \in Seq(Shows) /\ output \in Seq(Shows) /\ Pending(i) \in Seq(Shows)
         /\ outPty[i] \in Seq(Shows) /\ sent[i] \in Seq(Shows)
<1>1. Bytes \subseteq Shows  BY DEF Shows
<1>2. outPty[i] \in Seq(Bytes) /\ sent[i] \in Seq(Bytes) /\ output \in Seq(Bytes)  BY DEF Texts
<1>3. <<>> \in Seq(Bytes)  OBVIOUS
<1>4. Pending(i) \in Seq(Bytes)  BY <1>2, <1>3 DEF Pending
<1>5. shown[i] \in Seq(Shows)  BY DEF Texts, Shows
<1> QED  BY <1>1, <1>2, <1>4, <1>5, SeqMonotonic

\* What is shown, and whether it is spoilt, when s is played.
Plays(s, c) ==
    \E k \in Stops(s) :
        /\ shown' = [shown EXCEPT ![term] = @ \o SubSeq(Played(s), 1, k)]
        /\ spoilt' = [spoilt EXCEPT ![term] = @ \/ c \/ k < Len(s)]

\* Nothing that was spoilt is whole again.
LEMMA PlaysSpoils ==
  ASSUME Places, NEW s, NEW c, Plays(s, c), NEW i \in Terms, ~spoilt'[i]
  PROVE  ~spoilt[i]
BY DEF Plays, Places

\* Unless it is spoilt, all of s is played.
LEMMA PlaysWhole ==
  ASSUME Texts, Places, NEW s \in Seq(Bytes), NEW c, Plays(s, c), ~spoilt'[term]
  PROVE  ~spoilt[term] /\ ~c /\ shown'[term] = shown[term] \o Played(s)
<1>1. PICK k \in Stops(s) :
        /\ shown' = [shown EXCEPT ![term] = @ \o SubSeq(Played(s), 1, k)]
        /\ spoilt' = [spoilt EXCEPT ![term] = @ \/ c \/ k < Len(s)]
  BY DEF Plays
<1>2. Len(s) \in Nat /\ DOMAIN s = 1..Len(s)  BY LenProperties
<1>3. k \in 0..Len(s)  BY DEF Stops
<1>4. ~spoilt[term] /\ ~c /\ ~(k < Len(s))  BY <1>1 DEF Places
<1>5. k = Len(s)
  <2> DEFINE m == Len(s)
  <2>1. m \in Nat /\ k \in 0..m /\ ~(k < m)  BY <1>2, <1>3, <1>4
  <2> HIDE DEF m
  <2>2. k = m  BY <2>1
  <2> QED  BY <2>2 DEF m
<1>6. SubSeq(Played(s), 1, k) = Played(s)
  <2>1. Played(s) \in Seq(Shows) /\ Len(Played(s)) = Len(s)
    <3>1. \A x \in 1..Len(s) : s[x] \in Bytes  BY ElementOfSeq
    <3>2. Played(s) \in [1..Len(s) -> Shows]  BY <1>2, <3>1 DEF Played, Shows
    <3>3. \A n \in Nat : \A f \in [1..n -> Shows] : f \in Seq(Shows) /\ Len(f) = n
      OBVIOUS
    <3> QED  BY <1>2, <3>2, <3>3
  <2> QED  BY <1>5, <2>1, SubSeqFull
<1> QED  BY <1>1, <1>4, <1>6 DEF Texts, Places

\* The pty is empty: the output is played.
LEMMA WholeReadEmpty == Texts /\ Places /\ WholeInv /\ ReadEmpty => WholeInv'
<1> SUFFICES ASSUME Texts, Places, WholeInv, ReadEmpty PROVE WholeInv'  OBVIOUS
<1>1. /\ sent' = sent /\ outPty' = outPty /\ term' = term /\ output' = <<>>
      /\ Plays(output, Last(output) = "E") /\ outPty[term] = <<>> /\ term \in Terms
  BY DEF ReadEmpty, Returns, Plays, Places
<1>2. Pending(term) = output /\ \A i \in Terms : Pending(i)' = <<>>  BY <1>1 DEF Pending
<1>3. ASSUME NEW i \in Terms, i # term, ~spoilt'[i]
      PROVE  /\ shown'[i] \o Pending(i)' \o outPty'[i] = sent'[i]
             /\ Last(shown'[i]) \notin {"h", "E"} /\ Last(Pending(i)') # "h"
  <2>1. ~spoilt[i] /\ shown'[i] = shown[i] /\ Pending(i) = <<>>
    BY <1>1, <1>3 DEF Texts, Places, Pending, Plays
  <2> QED  BY <1>1, <1>2, <2>1 DEF WholeInv
<1>4. ASSUME ~spoilt'[term]
      PROVE  /\ shown'[term] \o output' \o outPty'[term] = sent'[term]
             /\ Last(shown'[term]) \notin {"h", "E"} /\ Last(output') # "h"
  <2>1. /\ ~spoilt[term] /\ Last(output) # "E"
        /\ shown'[term] = shown[term] \o Played(output)
    <3>1. output \in Seq(Bytes)  BY DEF Texts
    <3> QED  BY <1>1, <1>4, <3>1, PlaysWhole
  <2>2. /\ shown[term] \o output \o outPty[term] = sent[term]
        /\ Last(shown[term]) \notin {"h", "E"} /\ Last(output) # "h" /\ Well(sent[term])
    BY <1>1, <1>2, <2>1 DEF WholeInv
  <2>3. /\ shown[term] \in Seq(Shows) /\ output \in Seq(Shows) /\ outPty[term] \in Seq(Shows)
    BY <1>1, TextsShow
  <2>4. Played(output) = output
    BY <2>1, <2>2, <2>3, WholeOutputPlays
  <2>5. shown'[term] = shown[term] \o output  BY <2>1, <2>4
  <2>6. Last(shown'[term]) \notin {"h", "E"}  BY <2>1, <2>2, <2>3, <2>5, LastOfConcat
  <2>7. shown[term] \o output \in Seq(Shows)  BY <2>3, ConcatProperties
  <2>8. (shown[term] \o output) \o <<>> = shown[term] \o output  BY <2>7, ConcatEmptySeq
  <2>9. Last(<<>>) = "a"  BY DEF Last
  <2> QED  BY <1>1, <1>2, <2>2, <2>5, <2>6, <2>8, <2>9
<1>5. \A i \in Terms : ~spoilt'[i] =>
          /\ shown'[i] \o Pending(i)' \o outPty'[i] = sent'[i]
          /\ Last(shown'[i]) \notin {"h", "E"} /\ Last(Pending(i)') # "h"
  <2>1. \A i \in Terms : i = term => Pending(i)' = output'  BY <1>1 DEF Pending
  <2> QED  BY <1>3, <1>4, <2>1
<1>6. \A i \in Terms : ~spoilt'[i] => Well(sent'[i])
  BY <1>1, PlaysSpoils DEF WholeInv
<1> QED  BY <1>1, <1>5, <1>6 DEF WholeInv

\* A slice is read: when nothing is cut, it can be decoded, and is played with the output
\* when the read ends.
LEMMA WholeReadSlice ==
  Texts /\ Places /\ Numbers /\ WholeInv /\ ReadSlice => WholeInv'
<1> SUFFICES ASSUME Texts, Places, Numbers, WholeInv, ReadSlice PROVE WholeInv'  OBVIOUS
<1> DEFINE n     == IF Len(outPty[term]) < Slices[readCt + 1] THEN Len(outPty[term])
                    ELSE Slices[readCt + 1]
           slice == SubSeq(outPty[term], 1, n)
           left  == SubSeq(outPty[term], n + 1, Len(outPty[term]))
           all   == output \o slice
           ends  == ~Decodes(slice) \/ readCt + 1 = Len(Slices)
           cut   == Last(slice) = "h" \/ (ends /\ Last(slice) = "E")
<1>1. /\ sent' = sent /\ term' = term /\ at = "read" /\ term \in Terms
      /\ outPty' = [outPty EXCEPT ![term] = left] /\ outPty[term] # <<>>
  BY DEF ReadSlice, Places
<1>2. /\ ends => /\ output' = <<>> /\ at' \in {"check", "idle"}
                 /\ Plays(IF Decodes(slice) THEN all ELSE output, cut)
      /\ ~ends => /\ output' = all /\ at' = at /\ shown' = shown
                  /\ spoilt' = [spoilt EXCEPT ![term] = @ \/ cut]
  BY DEF ReadSlice, Returns, Plays
<1>3. n \in 1..Len(outPty[term])  BY <1>1, SliceIsPositive
<1>4. /\ slice \in Seq(Shows) /\ slice # <<>> /\ left \in Seq(Shows)
      /\ slice \o left = outPty[term]
  <2>1. outPty[term] \in Seq(Shows)  BY <1>1, TextsShow
  <2>2. Len(outPty[term]) \in Nat /\ \A k \in 1..Len(outPty[term]) : outPty[term][k] \in Shows
    BY <2>1, LenProperties, ElementOfSeq
  <2>3. n \in Int /\ n >= 1 /\ \A k \in 1..n : outPty[term][k] \in Shows  BY <1>3, <2>2
  <2>4. slice \in Seq(Shows) /\ Len(slice) = n - 1 + 1  BY <2>3, SubSeqProperties
  <2>5. slice # <<>>  BY <2>3, <2>4
  <2>6. left \in Seq(Shows)
    <3>1. \A k \in n + 1..Len(outPty[term]) : outPty[term][k] \in Shows  BY <1>3, <2>2
    <3> QED  BY <2>2, <2>3, <3>1, SubSeqProperties
  <2>7. slice \o left = SubSeq(outPty[term], 1, Len(outPty[term]))
    <3>1. /\ 1 \in 1..Len(outPty[term]) + 1 /\ n \in 1 - 1..Len(outPty[term])
          /\ Len(outPty[term]) \in n..Len(outPty[term])
      BY <1>3, <2>2
    <3> QED  BY <2>1, <3>1, ConcatAdjacentSubSeq
  <2>8. SubSeq(outPty[term], 1, Len(outPty[term])) = outPty[term]  BY <2>1, SubSeqFull
  <2> QED  BY <2>4, <2>5, <2>6, <2>7, <2>8
<1> HIDE DEF n, slice, left, all, ends, cut
<1>a. all \in Seq(Bytes) /\ output \in Seq(Bytes)
  <2>1. output \in Seq(Bytes) /\ outPty[term] \in Seq(Bytes)  BY <1>1 DEF Texts
  <2>2. Len(outPty[term]) \in Nat /\ \A k \in 1..Len(outPty[term]) : outPty[term][k] \in Bytes
    BY <2>1, LenProperties, ElementOfSeq
  <2>3. n \in Int /\ \A k \in 1..n : outPty[term][k] \in Bytes  BY <1>3, <2>2
  <2>4. slice \in Seq(Bytes)  BY <2>3, SubSeqProperties DEF slice
  <2> QED  BY <2>1, <2>4, ConcatProperties DEF all
<1>b. \A i \in Terms : ~spoilt'[i] => ~spoilt[i]
  <2>1. CASE ends  BY <1>2, <2>1, PlaysSpoils
  <2>2. CASE ~ends  BY <1>2, <2>2 DEF Places
  <2> QED  BY <2>1, <2>2
<1>c. \A i \in Terms \ {term} : shown'[i] = shown[i]
  <2>1. CASE ends  BY <1>2, <2>1 DEF Plays, Texts
  <2>2. CASE ~ends  BY <1>2, <2>2
  <2> QED  BY <2>1, <2>2
<1>5. ASSUME NEW i \in Terms, i # term, ~spoilt'[i]
      PROVE  /\ shown'[i] \o Pending(i)' \o outPty'[i] = sent'[i]
             /\ Last(shown'[i]) \notin {"h", "E"} /\ Last(Pending(i)') # "h"
  <2>1. ~spoilt[i] /\ shown'[i] = shown[i] /\ Pending(i) = <<>> /\ Pending(i)' = <<>>
        /\ outPty'[i] = outPty[i]
    BY <1>1, <1>5, <1>b, <1>c DEF Texts, Places, Pending
  <2> QED  BY <1>1, <2>1 DEF WholeInv
<1>6. ASSUME ~spoilt'[term]
      PROVE  /\ shown'[term] \o output' \o outPty'[term] = sent'[term]
             /\ Last(shown'[term]) \notin {"h", "E"} /\ Last(output') # "h"
  <2>1. ~spoilt[term] /\ Last(slice) # "h" /\ (ends => Last(slice) # "E")
    <3>1. ~spoilt[term]  BY <1>1, <1>6, <1>b
    <3>2. ~cut
      <4>1. CASE ends
        <5>1. CASE Decodes(slice)
          <6>1. Plays(all, cut)  BY <1>2, <4>1, <5>1
          <6> QED  BY <1>6, <1>a, <6>1, PlaysWhole
        <5>2. CASE ~Decodes(slice)
          <6>1. Plays(output, cut)  BY <1>2, <4>1, <5>2
          <6> QED  BY <1>6, <1>a, <6>1, PlaysWhole
        <5> QED  BY <5>1, <5>2
      <4>2. CASE ~ends  BY <1>1, <1>2, <1>6, <4>2 DEF Places
      <4> QED  BY <4>1, <4>2
    <3> QED  BY <3>1, <3>2 DEF cut
  <2>2. Pending(term) = output /\ outPty'[term] = left
    BY <1>1 DEF Pending, Texts
  <2>3. /\ shown[term] \o output \o outPty[term] = sent[term]
        /\ Last(shown[term]) \notin {"h", "E"} /\ Last(output) # "h" /\ Well(sent[term])
    BY <1>1, <2>1, <2>2 DEF WholeInv
  <2>4. shown[term] \in Seq(Shows) /\ output \in Seq(Shows)  BY <1>1, TextsShow
  <2>5. all \in Seq(Shows) /\ shown[term] \o output \in Seq(Shows)
    BY <1>4, <2>4, ConcatProperties DEF all
  <2>6. Last(all) = Last(slice)  BY <1>4, <2>4, LastOfConcat DEF all
  <2>7. /\ (shown[term] \o output) \o slice \o left = sent[term]
        /\ shown[term] \o all \o left = sent[term]
    <3>a. \A s, t, u \in Seq(Shows) : (s \o t) \o u = s \o (t \o u)  BY ConcatAssociative
    <3>1. (shown[term] \o output) \o (slice \o left) = ((shown[term] \o output) \o slice) \o left
      BY <1>4, <2>5, <3>a
    <3>2. (shown[term] \o output) \o slice = shown[term] \o (output \o slice)
      BY <1>4, <2>4, <3>a
    <3> QED  BY <1>4, <2>3, <3>1, <3>2 DEF all
  <2>8. Last(shown[term] \o output) # "h"  BY <2>3, <2>4, LastOfConcat
  <2>9. Decodes(slice)  BY <1>4, <2>1, <2>3, <2>5, <2>7, <2>8, WholeSliceDecodes
  <2>10. CASE ends
    <3>1. Played(all) = all
      BY <1>4, <2>1, <2>3, <2>4, <2>5, <2>6, <2>7, <2>10, WholeOutputPlays
    <3>2. shown'[term] = shown[term] \o all /\ output' = <<>>
      <4>1. Plays(all, cut) /\ output' = <<>>  BY <1>2, <2>9, <2>10
      <4>2. shown'[term] = shown[term] \o Played(all)  BY <1>6, <1>a, <4>1, PlaysWhole
      <4> QED  BY <3>1, <4>1, <4>2
    <3>3. all # <<>>  BY <1>4, <2>4, ConcatSimplifications DEF all
    <3>4. Last(shown'[term]) \notin {"h", "E"}
      BY <2>1, <2>4, <2>5, <2>6, <2>10, <3>2, <3>3, LastOfConcat
    <3>5. shown[term] \o all \in Seq(Shows)  BY <2>4, <2>5, ConcatProperties
    <3>6. (shown[term] \o all) \o <<>> = shown[term] \o all  BY <3>5, ConcatEmptySeq
    <3>7. Last(<<>>) = "a"  BY DEF Last
    <3> QED  BY <1>1, <2>2, <2>7, <3>2, <3>4, <3>6, <3>7
  <2>11. CASE ~ends
    <3>1. output' = all /\ shown' = shown  BY <1>2, <2>11
    <3> QED  BY <1>1, <2>1, <2>2, <2>3, <2>6, <2>7, <3>1
  <2> QED  BY <2>10, <2>11
<1>7. \A i \in Terms : ~spoilt'[i] =>
          /\ shown'[i] \o Pending(i)' \o outPty'[i] = sent'[i]
          /\ Last(shown'[i]) \notin {"h", "E"} /\ Last(Pending(i)') # "h"
  <2>1. \A i \in Terms : i = term => Pending(i)' = output'  BY <1>1 DEF Pending
  <2> QED  BY <1>5, <1>6, <2>1
<1>8. at' # "read" => output' = <<>>  BY <1>1, <1>2
<1>9. \A i \in Terms : ~spoilt'[i] => Well(sent'[i])  BY <1>1, <1>b DEF WholeInv
<1> QED  BY <1>7, <1>8, <1>9 DEF WholeInv

\* A byte is sent.
LEMMA WholeSend ==
  ASSUME Texts, Places, WholeInv, NEW i \in Terms, NEW b \in Bytes, Send(i, b)
  PROVE  WholeInv'
<1>1. /\ sent' = [sent EXCEPT ![i] = Append(sent[i], b)]
      /\ spoilt' = [spoilt EXCEPT ![i] = @ \/ ~Follows(b, sent[i])]
      /\ outPty' = [outPty EXCEPT ![i] = Append(outPty[i], b)]
      /\ shown' = shown /\ at' = at /\ term' = term /\ output' = output
  BY DEF Send, callVars, readVars
<1>2. \A j \in Terms : Pending(j)' = Pending(j)  BY <1>1 DEF Pending
<1>3. sent[i] \in Seq(Bytes) /\ outPty[i] \in Seq(Bytes)  BY DEF Texts
<1>4. /\ \A j \in Terms : ~spoilt'[j] => ~spoilt[j] /\ Well(sent'[j])
      /\ \A j \in Terms \ {i} : sent'[j] = sent[j] /\ outPty'[j] = outPty[j]
  <2>1. \A j \in Terms : ~spoilt'[j] => ~spoilt[j] /\ (j = i => Follows(b, sent[i]))
    BY <1>1 DEF Places
  <2>2. \A j \in Terms \ {i} : sent'[j] = sent[j] /\ outPty'[j] = outPty[j]
    BY <1>1 DEF Texts
  <2>3. sent'[i] = Append(sent[i], b)  BY <1>1 DEF Texts
  <2>4. ~spoilt'[i] => Well(sent'[i])  BY <1>3, <2>1, <2>3, WellAppend DEF WholeInv
  <2> QED  BY <2>1, <2>2, <2>4 DEF WholeInv
<1>5. shown[i] \o Pending(i) \o outPty[i] = sent[i] =>
          shown'[i] \o Pending(i)' \o outPty'[i] = sent'[i]
  <2> DEFINE a == shown[i] \o Pending(i)
  <2>1. a \in Seq(Shows) /\ outPty[i] \in Seq(Shows) /\ <<b>> \in Seq(Shows)
    <3>1. shown[i] \in Seq(Shows) /\ Pending(i) \in Seq(Shows) /\ outPty[i] \in Seq(Shows)
      BY TextsShow
    <3>2. b \in Shows  BY DEF Shows
    <3>3. \A c \in Shows : <<c>> \in Seq(Shows)  OBVIOUS
    <3> QED  BY <3>1, <3>2, <3>3, ConcatProperties
  <2> HIDE DEF a
  <2>a. \A s, t, u \in Seq(Shows) : (s \o t) \o u = s \o (t \o u)  BY ConcatAssociative
  <2>2. a \o (outPty[i] \o <<b>>) = (a \o outPty[i]) \o <<b>>  BY <2>1, <2>a
  <2>3. Append(outPty[i], b) = outPty[i] \o <<b>> /\ Append(sent[i], b) = sent[i] \o <<b>>
    BY <1>3, AppendIsConcat
  <2>4. outPty'[i] = Append(outPty[i], b) /\ sent'[i] = Append(sent[i], b)
    BY <1>1 DEF Texts
  <2>5. shown'[i] \o Pending(i)' = a  BY <1>1, <1>2 DEF a
  <2> QED  BY <2>2, <2>3, <2>4, <2>5 DEF a
<1> QED  BY <1>1, <1>2, <1>4, <1>5 DEF WholeInv

\* Every step keeps the output whole.
LEMMA WholeStep == Texts /\ Places /\ Numbers /\ WholeInv /\ [Next]_vars => WholeInv'
<1> SUFFICES ASSUME Texts, Places, Numbers, WholeInv, [Next]_vars PROVE WholeInv'  OBVIOUS
<1>1. ASSUME UNCHANGED outVars, output' = output, term' = term \/ at # "read",
             at = "read" => at' = "read"
      PROVE  WholeInv'
  <2>1. \A i \in Terms : Pending(i)' = Pending(i)  BY <1>1 DEF Pending, WholeInv
  <2> QED  BY <1>1, <2>1 DEF WholeInv, outVars
<1>2. CASE Call
  <2>1. CASE WriteKey \/ WriteRaises \/ Written \/ FindsAlive \/ FindsDead \/ Closing
    BY <1>1, <2>1 DEF WriteKey, WriteRaises, Written, FindsAlive, FindsDead, Closing, readVars
  <2>2. CASE ReadEmpty  BY <2>2, WholeReadEmpty
  <2>3. CASE ReadSlice  BY <2>3, WholeReadSlice
  <2> QED  BY <1>2, <2>1, <2>2, <2>3 DEF Call
<1>3. ASSUME NEW i \in Terms, OpenFails(i) \/ Exit(i) \/ Abort(i) \/ Resize(i) PROVE WholeInv'
  BY <1>1, <1>3 DEF OpenFails, Exit, Abort, Resize, callVars, readVars
<1>4. ASSUME NEW i \in Terms, NEW odd \in BOOLEAN,
             Take(i) \/ AutoRead(i) \/ TypeBuffered(i, odd) \/ TypeDirect(i)
      PROVE  WholeInv'
  BY <1>1, <1>4 DEF Take, AutoRead, TypeBuffered, TypeDirect, callVars, readVars
<1>5. ASSUME NEW i \in Terms, NEW p \in Pids, Open(i, p) PROVE WholeInv'
  BY <1>1, <1>5 DEF Open, callVars, readVars
<1>6. ASSUME NEW p \in Pids, StrangerStarts(p) PROVE WholeInv'
  BY <1>1, <1>6 DEF StrangerStarts, callVars, readVars
<1>7. ASSUME NEW i \in Terms, NEW b \in Bytes, Send(i, b) PROVE WholeInv'
  BY <1>7, WholeSend
<1>8. CASE UNCHANGED vars  BY <1>1, <1>8 DEF vars, callVars, readVars
<1> QED  BY <1>2, <1>3, <1>4, <1>5, <1>6, <1>7, <1>8 DEF Next, Bytes

\* The parts make up TypeOK.
LEMMA TypeParts == TypeOK <=> Procs /\ Places /\ Numbers /\ Lists /\ Texts
BY DEF TypeOK, Procs, Places, Numbers, Lists, Texts

Inv == TypeOK /\ SignalInv /\ KeyInv /\ TodoInv /\ LineInv /\ WholeInv

\* The invariant of all theorems below.
LEMMA SpecInv == Spec => []Inv
<1>1. Init => Inv
  <2> SUFFICES ASSUME Init PROVE Inv  OBVIOUS
  <2>1. \A i \in Terms : sent[i] = <<>> /\ shown[i] = <<>> /\ outPty[i] = <<>> /\ Pending(i) = <<>>
    BY DEF Init, Pending
  <2>2. Well(<<>>) /\ Last(<<>>) = "a" /\ <<>> \o <<>> \o <<>> = <<>>  BY DEF Well, Last
  <2>3. WholeInv  BY <2>1, <2>2 DEF WholeInv, Init
  <2>4. \A i \in Terms : Line(i) = <<>> /\ Waiting(i) = <<>>
    <3>1. <<>> \o <<>> \o <<>> = <<>>  OBVIOUS
    <3> QED  BY <3>1 DEF Init, Line, Writing, Waiting
  <2>5. DOMAIN <<>> = {} /\ 1..0 = {}  OBVIOUS
  <2>6. LineInv  BY <2>4, <2>5 DEF LineInv, Init, Ordered, Below
  <2>7. TodoInv  BY DEF TodoInv, Init
  <2> QED  BY <2>3, <2>6, <2>7, InitInv DEF Inv
<1>2. Inv /\ [Next]_vars => Inv'
  <2> SUFFICES ASSUME Inv, [Next]_vars PROVE Inv'  OBVIOUS
  <2>1. Procs /\ Places /\ Numbers /\ Lists /\ Texts /\ SignalInv /\ KeyInv
        /\ TodoInv /\ LineInv /\ WholeInv
    BY TypeParts DEF Inv
  <2>2. Procs' /\ Places' /\ Numbers' /\ Lists' /\ Texts'
    BY <2>1, ProcsStep, PlacesStep, NumbersStep, ListsStep, TextsStep
  <2>3. SignalInv' /\ KeyInv' /\ TodoInv' /\ LineInv' /\ WholeInv'
    BY <2>1, SignalStep, KeyStep, TodoStep, LineStep, WholeStep
  <2>4. TypeOK'  BY <2>2 DEF TypeOK, Procs, Places, Numbers, Lists, Texts
  <2> QED  BY <2>3, <2>4 DEF Inv
<1> QED  BY <1>1, <1>2, PTL DEF Spec

\* The variables keep their types, for any terminals, process numbers, pty sizes and
\* slices of ConqueSubprocess.read.
THEOREM TypeCorrect == Spec => []TypeOK
<1>1. Inv => TypeOK  BY DEF Inv
<1> QED  BY <1>1, SpecInv, PTL

\* A signal of ConqueSubprocess strikes another process only after is_alive() has found
\* the program dead, and Vim itself only after pty.fork has failed.
THEOREM SignalsStray == Spec => []StrayOnlyAfterDeath
<1>1. Inv => StrayOnlyAfterDeath  BY DEF Inv, SignalInv
<1> QED  BY <1>1, SpecInv, PTL

\* Only a key put in Conque.input_buffer of the class, before its terminal had a list of
\* its own, can be written to another terminal.
THEOREM KeysStray == Spec => []KeysStrayOnlyEarly
<1>1. Inv => KeysStrayOnlyEarly  BY DEF Inv, KeyInv
<1> QED  BY <1>1, SpecInv, PTL

\* What a program sends is shown, once and in order, unless it is no utf-8, a slice of
\* ConqueSubprocess.read ends inside a character or a read inside a sequence, or Conque.read
\* raises in playing it.
THEOREM WholeUnlessSpoilt == Spec => []OutputWhole
<1>1. Inv => OutputWhole
  BY DEF Inv, WholeInv, Pending, OutputWhole
<1> QED  BY <1>1, SpecInv, PTL

\* Every key typed is written to its terminal or waits to be, and while no key waits that
\* unichr() refuses, once and in the order its kind was typed (write_ord,
\* write_buffered_ord and auto_read).
THEOREM KeysInOrder == Spec => []KeysOnceInOrder
<1>1. LineInv => KeysOnceInOrder
  BY DEF LineInv, Ordered, Has, KeysOnceInOrder, NoneOdd
<1>2. Inv => KeysOnceInOrder  BY <1>1 DEF Inv
<1> QED  BY <1>2, SpecInv, PTL
=============================================================================
