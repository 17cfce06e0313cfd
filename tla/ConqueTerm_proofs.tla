-------------------------- MODULE ConqueTerm_proofs --------------------------
(***************************************************************************)
(* Proofs about the terminals of one Vim, for any number of terminals and  *)
(* every choice of the options.                                            *)
(*                                                                         *)
(* Each function of conque_term.vim keeps the states sane (SaneState), and *)
(* says what it does to the fields the properties are about; the steps of  *)
(* the module only put the functions together.                             *)
(***************************************************************************)
EXTENDS ConqueTerm, TLAPS

Programs == {"none", "runs", "told", "ended"}

StateType ==
    [cur : 0..MaxTerms, insert : BOOLEAN, fast : BOOLEAN,
     loaded : [Terms -> BOOLEAN], hooked : [Terms -> BOOLEAN],
     active : [Terms -> BOOLEAN], idle : [Terms -> BOOLEAN],
     program : [Terms -> Programs]]

\* A sane state when n terminals were opened: only existing buffers have hooks, a
\* terminal not yet opened has neither buffer nor commands, and a closed one was told.
SaneState(s, n) ==
    /\ s \in StateType
    /\ \A i \in Terms : s.hooked[i] => s.loaded[i]
    /\ \A i \in Terms : s.loaded[i] \/ s.idle[i] => i <= n
    /\ \A i \in Terms : i <= n /\ ~s.active[i] => s.program[i] # "runs"

\* The current buffer exists.
CurExists(s) == s.cur # 0 => s.loaded[s.cur]

\* Only what leaving and entering a buffer change differs.
SameTerminals(t, s) ==
    /\ t.loaded = s.loaded /\ t.hooked = s.hooked
    /\ t.active = s.active /\ t.program = s.program

-----------------------------------------------------------------------------
LEMMA BlurSane ==
    ASSUME NEW n \in Nat, NEW s, SaneState(s, n), CurExists(s)
    PROVE  /\ SaneState(OnBlur(s), n)
           /\ OnBlur(s).cur = s.cur /\ SameTerminals(OnBlur(s), s)
           /\ \A i \in Terms : OnBlur(s).idle[i] <=> (s.idle[i] \/ i = s.cur)
<1> DEFINE t == OnBlur(s)
<1> USE DEF StateType, Terms
<1>1. /\ t \in StateType /\ t.cur = s.cur /\ t.loaded = s.loaded /\ t.hooked = s.hooked
      /\ t.active = s.active /\ t.program = s.program
      /\ t.idle = [i \in Terms |-> s.idle[i] \/ i = s.cur]
  BY DEF OnBlur, SaneState
<1>2. \A i \in Terms : t.idle[i] <=> (s.idle[i] \/ i = s.cur)  BY <1>1
<1>3. SaneState(t, n)
  <2>1. \A i \in Terms : t.loaded[i] \/ t.idle[i] => i <= n
    BY <1>1, <1>2 DEF SaneState, CurExists
  <2> QED  BY <1>1, <2>1 DEF SaneState
<1> QED  BY <1>1, <1>2, <1>3 DEF SameTerminals

LEMMA FocusSane ==
    ASSUME NEW n \in Nat, NEW s, SaneState(s, n), NEW last, insertOnEnter \in BOOLEAN
    PROVE  /\ SaneState(OnFocus(s, last), n)
           /\ OnFocus(s, last).cur = s.cur /\ SameTerminals(OnFocus(s, last), s)
           /\ \A i \in Terms : OnFocus(s, last).idle[i] <=> (s.idle[i] /\ i # last)
<1> DEFINE t == OnFocus(s, last)
<1> USE DEF StateType, Terms
<1>1. /\ t \in StateType /\ t.cur = s.cur /\ t.loaded = s.loaded /\ t.hooked = s.hooked
      /\ t.active = s.active /\ t.program = s.program
      /\ t.idle = [i \in Terms |-> s.idle[i] /\ i # last]
  BY DEF OnFocus, SaneState
<1>2. \A i \in Terms : t.idle[i] <=> (s.idle[i] /\ i # last)  BY <1>1
<1>3. SaneState(t, n)
  <2>1. \A i \in Terms : t.loaded[i] \/ t.idle[i] => i <= n
    BY <1>1, <1>2 DEF SaneState
  <2> QED  BY <1>1, <2>1 DEF SaneState
<1> QED  BY <1>1, <1>2, <1>3 DEF SameTerminals

\* Leaving a buffer changes nothing but which terminals are idle: its own may become so,
\* if it has hooks.
LEMMA LeavingSane ==
    ASSUME NEW n \in Nat, NEW s, SaneState(s, n), CurExists(s)
    PROVE  /\ SaneState(Leaving(s), n) /\ CurExists(Leaving(s))
           /\ Leaving(s).cur = s.cur /\ SameTerminals(Leaving(s), s)
           /\ \A i \in Terms : Leaving(s).idle[i] =>
                 s.idle[i] \/ (i = s.cur /\ s.hooked[i])
<1>1. CASE s.cur # 0 /\ s.hooked[s.cur]
  <2>1. Leaving(s) = OnBlur(s)  BY <1>1 DEF Leaving
  <2> QED  BY <1>1, <2>1, BlurSane DEF SameTerminals, CurExists
<1>2. CASE ~(s.cur # 0 /\ s.hooked[s.cur])
  <2>1. Leaving(s) = s  BY <1>2 DEF Leaving
  <2> QED  BY <2>1 DEF SameTerminals
<1> QED  BY <1>1, <1>2

\* Entering a buffer that exists: with hooks, it resumes the terminal opened last.
LEMMA EnteringSane ==
    ASSUME NEW n \in Nat, NEW s, SaneState(s, n), NEW b \in 0..MaxTerms,
           b # 0 => s.loaded[b], insertOnEnter \in BOOLEAN
    PROVE  /\ SaneState(Entering(s, b), n) /\ CurExists(Entering(s, b))
           /\ Entering(s, b).cur = b /\ SameTerminals(Entering(s, b), s)
           /\ \A i \in Terms : Entering(s, b).idle[i] =>
                 s.idle[i] /\ (b # 0 /\ s.hooked[b] => i # opened)
<1> DEFINE t == [s EXCEPT !.cur = b, !.insert = FALSE]
<1>1. t \in StateType /\ t.cur = b /\ SameTerminals(t, s) /\ t.idle = s.idle
  BY DEF SaneState, StateType, SameTerminals
<1>2. SaneState(t, n)  BY <1>1 DEF SaneState, SameTerminals
<1> HIDE DEF t
<1>3. CASE b # 0 /\ s.hooked[b]
  <2>1. Entering(s, b) = OnFocus(t, opened)  BY <1>3 DEF Entering, t
  <2> QED  BY <1>1, <1>2, <1>3, <2>1, FocusSane DEF SameTerminals, CurExists
<1>4. CASE ~(b # 0 /\ s.hooked[b])
  <2>1. Entering(s, b) = t  BY <1>4 DEF Entering, t
  <2> QED  BY <1>1, <1>2, <1>4, <2>1 DEF SameTerminals, CurExists
<1> QED  BY <1>3, <1>4

\* Closing a terminal: it is told to end, and whatever has lost its hooks is current.
LEMMA ClosedSane ==
    ASSUME NEW n \in Nat, NEW s, SaneState(s, n), NEW i \in Terms
    PROVE  /\ SaneState(Closed(s, i), n)
           /\ Closed(s, i).cur = s.cur /\ Closed(s, i).loaded = s.loaded
           /\ Closed(s, i).idle = s.idle
           /\ Closed(s, i).program[i] # "runs"
           /\ \A j \in Terms : (Closed(s, i).hooked[j] => s.hooked[j])
                             /\ (s.hooked[j] /\ j # s.cur => Closed(s, i).hooked[j])
                             /\ (s.program[j] # "runs" => Closed(s, i).program[j] # "runs")
<1> DEFINE a == Abort(s, i)
           u == IF hasBuffer[i] THEN Unhook(a) ELSE a
<1> USE DEF StateType, Programs
<1>1. /\ a \in StateType /\ a.cur = s.cur /\ a.loaded = s.loaded /\ a.idle = s.idle
      /\ a.hooked = s.hooked /\ a.active = s.active
      /\ \A j \in Terms : a.program[j] = IF j = i /\ s.program[j] = "runs" THEN "told"
                                         ELSE s.program[j]
  BY DEF Abort, SaneState
<1> HIDE DEF a
<1>2. /\ u \in StateType /\ u.cur = s.cur /\ u.loaded = s.loaded /\ u.idle = s.idle
      /\ u.program = a.program /\ u.active = a.active
      /\ \A j \in Terms : (u.hooked[j] => s.hooked[j]) /\ (j # s.cur => u.hooked[j] = s.hooked[j])
  BY <1>1 DEF Unhook
<1> HIDE DEF u
<1> DEFINE c == [u EXCEPT !.active[i] = FALSE]
<1>3. c = Closed(s, i)  BY DEF Closed, c, u, a
<1>4. /\ c \in StateType /\ c.cur = s.cur /\ c.loaded = s.loaded /\ c.idle = s.idle
      /\ c.program = a.program /\ c.hooked = u.hooked
      /\ \A j \in Terms : j # i => c.active[j] = s.active[j]
  BY <1>1, <1>2
<1> HIDE DEF c
<1>5. SaneState(c, n)
  <2>1. \A j \in Terms : c.hooked[j] => c.loaded[j]  BY <1>2, <1>4 DEF SaneState
  <2>2. \A j \in Terms : j <= n /\ ~c.active[j] => c.program[j] # "runs"
    BY <1>1, <1>4 DEF SaneState
  <2>3. \A j \in Terms : c.loaded[j] \/ c.idle[j] => j <= n  BY <1>4 DEF SaneState
  <2> QED  BY <1>4, <2>1, <2>2, <2>3 DEF SaneState
<1> QED  BY <1>1, <1>2, <1>3, <1>4, <1>5

LEMMA GoneSane ==
    ASSUME NEW n \in Nat, NEW s, SaneState(s, n), NEW i \in Terms
    PROVE  /\ SaneState(Gone(s, i), n)
           /\ Gone(s, i).cur = s.cur /\ Gone(s, i).idle = s.idle
           /\ Gone(s, i).active = s.active /\ Gone(s, i).program = s.program
           /\ ~Gone(s, i).loaded[i]
           /\ \A j \in Terms : j # i => /\ Gone(s, i).loaded[j] = s.loaded[j]
                                        /\ Gone(s, i).hooked[j] = s.hooked[j]
<1> DEFINE t == Gone(s, i)
<1>1. /\ t \in StateType /\ t.cur = s.cur /\ t.idle = s.idle /\ t.active = s.active
      /\ t.program = s.program /\ ~t.loaded[i] /\ ~t.hooked[i]
      /\ \A j \in Terms : j # i => t.loaded[j] = s.loaded[j] /\ t.hooked[j] = s.hooked[j]
  BY DEF Gone, SaneState, StateType
<1>2. SaneState(t, n)  BY <1>1 DEF SaneState
<1> QED  BY <1>1, <1>2

\* Deleting the buffer of a terminal with hooks tells its program to end.
LEMMA UnloadingSane ==
    ASSUME NEW n \in Nat, NEW s, SaneState(s, n), NEW i \in Terms
    PROVE  /\ SaneState(Unloading(s, i), n)
           /\ Unloading(s, i).cur = s.cur /\ Unloading(s, i).loaded = s.loaded
           /\ Unloading(s, i).idle = s.idle
           /\ s.hooked[i] => Unloading(s, i).program[i] # "runs"
           /\ \A j \in Terms : (s.hooked[j] /\ j # s.cur => Unloading(s, i).hooked[j])
                             /\ (s.program[j] # "runs" => Unloading(s, i).program[j] # "runs")
BY ClosedSane DEF Unloading

-----------------------------------------------------------------------------
\* The terminal opened last is idle only where a focus will resume it.
AwakeState(s, n) ==
    ~closeOnEnd /\ n # 0 /\ s.loaded[n] /\ s.idle[n] => s.hooked[n] /\ s.cur # n

Sane ==
    /\ SaneState(Here, opened) /\ CurExists(Here) /\ AwakeState(Here, opened)
    /\ \A i \in Terms : loaded[i] => hasBuffer[i]

RestType ==
    /\ opened \in 0..MaxTerms /\ hasBuffer \in [Terms -> BOOLEAN]
    /\ reads \in [Terms -> 0..CheckEvery - 1] /\ unread \in [Terms -> BOOLEAN]
    /\ readUnfocused \in BOOLEAN /\ closeOnEnd \in BOOLEAN /\ insertOnEnter \in BOOLEAN

IInv == RestType /\ Sane

\* What a function makes of a state becomes the next state.
LEMMA BecomeIs == ASSUME NEW s \in StateType, Become(s) PROVE Here' = s
BY DEF Become, Here, StateType

LEMMA SaneNext ==
    ASSUME NEW s, Become(s), SaneState(s, opened'), CurExists(s),
           closeOnEnd' = closeOnEnd, AwakeState(s, opened'),
           \A i \in Terms : s.loaded[i] => hasBuffer'[i]
    PROVE  Sane'
<1>1. Here' = s  BY BecomeIs DEF SaneState
<1>2. loaded' = s.loaded  BY DEF Become
<1>3. SaneState(Here', opened') /\ CurExists(Here')  BY <1>1
<1>4. AwakeState(Here, opened)'  BY <1>1 DEF AwakeState
<1>5. \A i \in Terms : loaded'[i] => hasBuffer'[i]  BY <1>2
<1> QED  BY <1>3, <1>4, <1>5 DEF Sane, SaneState, CurExists, Here

LEMMA SaneInit == Init => IInv
<1> SUFFICES ASSUME Init PROVE IInv  OBVIOUS
<1> USE ConqueTermAssumption DEF Terms
<1>1. RestType  BY DEF Init, RestType
<1>2. SaneState(Here, opened)
  <2>1. /\ Here.loaded = [i \in Terms |-> FALSE] /\ Here.hooked = [i \in Terms |-> FALSE]
        /\ Here.idle = [i \in Terms |-> FALSE] /\ Here.program = [i \in Terms |-> "none"]
    BY DEF Init, Here
  <2>2. [i \in Terms |-> FALSE] \in [Terms -> BOOLEAN]
        /\ [i \in Terms |-> "none"] \in [Terms -> Programs]
    BY DEF Programs
  <2>3. cur \in 0..MaxTerms  BY DEF Init
  <2>4. active = [i \in Terms |-> FALSE] /\ insert = FALSE /\ fast = FALSE  BY DEF Init
  <2>5. Here \in StateType  BY <2>1, <2>2, <2>3, <2>4 DEF Here, StateType
  <2> QED  BY <2>1, <2>5 DEF SaneState
<1>3. CurExists(Here) /\ AwakeState(Here, opened)
  BY DEF Init, CurExists, AwakeState, Here
<1>4. \A i \in Terms : loaded[i] => hasBuffer[i]  BY DEF Init
<1> QED  BY <1>1, <1>2, <1>3, <1>4 DEF IInv, Sane

LEMMA CurLoaded == IInv => cur \in 0..MaxTerms /\ (cur # 0 => cur \in Terms /\ loaded[cur])
<1> SUFFICES ASSUME IInv
             PROVE  cur \in 0..MaxTerms /\ (cur # 0 => cur \in Terms /\ loaded[cur])
  OBVIOUS
<1>1. Here.cur \in 0..MaxTerms  BY DEF IInv, Sane, SaneState, StateType
<1>2. cur \in 0..MaxTerms  BY <1>1 DEF Here
<1>3. cur # 0 => loaded[cur]  BY DEF IInv, Sane, CurExists, Here
<1> QED  BY <1>2, <1>3, ConqueTermAssumption DEF Terms

\* Another buffer the user may be put in still exists when that of i = cur is gone.
LEMMA OtherBuffer ==
    ASSUME NEW b \in Buffers \ {cur}
    PROVE  b \in 0..MaxTerms /\ (b # 0 => b \in Terms /\ b # cur /\ loaded[b])
BY ConqueTermAssumption DEF Buffers, Terms

LEMMA SwitchSane == ASSUME IInv, NEW b \in 0..MaxTerms, Switch(b) PROVE Sane'
<1> USE DEF IInv, RestType, Sane
<1>1. opened \in Nat /\ insertOnEnter \in BOOLEAN /\ (opened # 0 => opened \in Terms)
  BY DEF Terms
<1>2. b # cur /\ (b # 0 => loaded[b] /\ b \in Terms)  BY DEF Switch, Buffers
<1> DEFINE s == Leaving(Here)
           t == Entering(s, b)
<1>3. /\ SaneState(s, opened) /\ s.cur = cur /\ SameTerminals(s, Here)
      /\ \A i \in Terms : s.idle[i] => idle[i] \/ (i = cur /\ hooked[i])
  BY <1>1, LeavingSane DEF Here
<1>4. b # 0 => s.loaded[b]  BY <1>2, <1>3 DEF SameTerminals, Here
<1> HIDE DEF s
<1>5. /\ SaneState(t, opened) /\ CurExists(t) /\ t.cur = b /\ SameTerminals(t, s)
      /\ \A i \in Terms : t.idle[i] => s.idle[i] /\ (b # 0 /\ s.hooked[b] => i # opened)
  BY <1>1, <1>3, <1>4, EnteringSane
<1> HIDE DEF t
<1>6. AwakeState(t, opened)
  <2>1. SUFFICES ASSUME ~closeOnEnd, opened # 0, t.loaded[opened], t.idle[opened]
                 PROVE  t.hooked[opened] /\ t.cur # opened
    BY DEF AwakeState
  <2>2. opened \in Terms /\ s.idle[opened] /\ loaded[opened]
    BY <1>1, <1>3, <1>5, <2>1 DEF SameTerminals, Here
  <2>3. hooked[opened]
    BY <1>3, <2>1, <2>2 DEF AwakeState, Here
  <2> QED  BY <1>3, <1>5, <2>1, <2>2, <2>3 DEF SameTerminals, Here
<1>7. Become(t) /\ UNCHANGED <<opened, hasBuffer, closeOnEnd>>
  BY DEF Switch, t, s, optionVars
<1>8. \A i \in Terms : t.loaded[i] => hasBuffer'[i]
  BY <1>3, <1>5, <1>7 DEF SameTerminals, Here
<1> QED  BY <1>5, <1>6, <1>7, <1>8, SaneNext

LEMMA CloseSane == ASSUME IInv, NEW i \in Terms, Close(i) PROVE Sane'
<1> USE DEF IInv, RestType, Sane
<1>1. opened \in Nat /\ insertOnEnter \in BOOLEAN /\ (opened # 0 => opened \in Terms)
  BY DEF Terms
<1> DEFINE s == Closed(Here, i)
           g == Gone(s, i)
<1>2. /\ SaneState(s, opened) /\ s.cur = cur /\ s.loaded = loaded /\ s.idle = idle
      /\ \A j \in Terms : hooked[j] /\ j # cur => s.hooked[j]
  BY <1>1, ClosedSane DEF Here
<1>3. AwakeState(s, opened)  BY <1>1, <1>2 DEF AwakeState, Here
<1>4. UNCHANGED <<opened, hasBuffer, closeOnEnd>>  BY DEF Close, optionVars
<1>5. CASE Become(s)
  BY <1>2, <1>3, <1>4, <1>5, SaneNext DEF CurExists, Here
<1> HIDE DEF s
<1>6. /\ SaneState(g, opened) /\ g.cur = cur /\ g.idle = idle /\ ~g.loaded[i]
      /\ \A j \in Terms : j # i => g.loaded[j] = loaded[j] /\ g.hooked[j] = s.hooked[j]
  BY <1>1, <1>2, GoneSane
<1> HIDE DEF g
<1>7. \A j \in Terms : g.loaded[j] => loaded[j]  BY <1>6
<1>8. CASE /\ closeOnEnd /\ i # cur
           /\ Become([g EXCEPT !.insert = FALSE])
  <2> DEFINE t == [g EXCEPT !.insert = FALSE]
  <2>1. /\ t \in StateType /\ t.cur = cur /\ t.idle = g.idle /\ t.loaded = g.loaded
        /\ t.hooked = g.hooked /\ t.active = g.active /\ t.program = g.program
    BY <1>6 DEF SaneState, StateType
  <2>2. SaneState(t, opened)  BY <1>6, <2>1 DEF SaneState
  <2>3. cur # 0 => cur \in Terms /\ loaded[cur]  BY CurLoaded
  <2>4. CurExists(t)  BY <1>6, <1>8, <2>1, <2>3 DEF CurExists
  <2>5. AwakeState(t, opened')  BY <1>8 DEF AwakeState
  <2>6. \A j \in Terms : t.loaded[j] => hasBuffer'[j]  BY <1>4, <1>7, <2>1
  <2> HIDE DEF t
  <2> QED  BY <1>4, <1>8, <2>2, <2>4, <2>5, <2>6, SaneNext DEF t
<1>9. ASSUME closeOnEnd, i = cur, NEW b \in Buffers \ {cur}, Become(Entering(g, b))
      PROVE  Sane'
  <2> DEFINE t == Entering(g, b)
  <2>1. b \in 0..MaxTerms /\ (b # 0 => g.loaded[b])
    BY <1>6, <1>9, OtherBuffer
  <2>2. SaneState(t, opened) /\ CurExists(t) /\ SameTerminals(t, g)
    BY <1>1, <1>6, <2>1, EnteringSane
  <2> HIDE DEF t
  <2>3. AwakeState(t, opened')  BY <1>9 DEF AwakeState
  <2>4. \A j \in Terms : t.loaded[j] => hasBuffer'[j]
    BY <1>4, <1>7, <2>2 DEF SameTerminals
  <2>5. Become(t)  BY <1>9 DEF t
  <2> QED  BY <1>4, <2>2, <2>3, <2>4, <2>5, SaneNext
<1> QED  BY <1>5, <1>8, <1>9 DEF Close, Wipes, g, s

LEMMA AutoCloseSane == ASSUME IInv, AutoClose PROVE Sane'
<1> USE DEF IInv, RestType, Sane
<1>0. cur # 0  BY DEF AutoClose, Polls
<1>1. opened \in Nat /\ (opened # 0 => opened \in Terms) /\ cur \in Terms
  BY <1>0, CurLoaded DEF Terms
<1> DEFINE s == Closed(Here, cur)
           g == Gone(s, cur)
<1>2. /\ SaneState(s, opened) /\ s.cur = cur /\ s.loaded = loaded /\ s.idle = idle
      /\ \A j \in Terms : hooked[j] /\ j # cur => s.hooked[j]
  BY <1>1, ClosedSane DEF Here
<1>3. AwakeState(s, opened)  BY <1>1, <1>2 DEF AwakeState, Here
<1>4. UNCHANGED <<opened, hasBuffer, closeOnEnd>>  BY DEF AutoClose, optionVars
<1>5. CASE Become(s)
  BY <1>2, <1>3, <1>4, <1>5, SaneNext DEF CurExists, Here
<1> HIDE DEF s
<1>6. /\ SaneState(g, opened) /\ ~g.loaded[cur]
      /\ \A j \in Terms : j # cur => g.loaded[j] = loaded[j]
  BY <1>1, <1>2, GoneSane
<1> HIDE DEF g
<1>7. \A j \in Terms : g.loaded[j] => loaded[j]  BY <1>6
<1>8. ASSUME closeOnEnd, NEW b \in Buffers \ {cur},
             Become([g EXCEPT !.cur = b, !.insert = FALSE])
      PROVE  Sane'
  <2> DEFINE t == [g EXCEPT !.cur = b, !.insert = FALSE]
  <2>1. b \in 0..MaxTerms /\ (b # 0 => g.loaded[b])
    BY <1>6, <1>8, OtherBuffer
  <2>2. /\ t \in StateType /\ t.cur = b /\ t.idle = g.idle /\ t.loaded = g.loaded
        /\ t.hooked = g.hooked /\ t.active = g.active /\ t.program = g.program
    BY <1>6, <2>1 DEF SaneState, StateType
  <2>3. Become(t)  BY <1>8
  <2> HIDE DEF t
  <2>4. SaneState(t, opened)  BY <1>6, <2>2 DEF SaneState
  <2>5. CurExists(t)  BY <2>1, <2>2 DEF CurExists
  <2>6. AwakeState(t, opened')  BY <1>8 DEF AwakeState
  <2>7. \A j \in Terms : t.loaded[j] => hasBuffer'[j]  BY <1>4, <1>7, <2>2
  <2> QED  BY <1>4, <2>3, <2>4, <2>5, <2>6, <2>7, SaneNext
<1> QED  BY <1>5, <1>8 DEF AutoClose, Wipes, g, s

LEMMA DeleteSane == ASSUME IInv, NEW i \in Terms, Delete(i) PROVE Sane'
<1> USE DEF IInv, RestType, Sane
<1>1. opened \in Nat /\ insertOnEnter \in BOOLEAN /\ (opened # 0 => opened \in Terms)
  BY DEF Terms
<1>2. UNCHANGED <<opened, hasBuffer, closeOnEnd>>  BY DEF Delete, optionVars
<1>3. ASSUME i # cur, Become(Gone(Unloading(Here, i), i)) PROVE Sane'
  <2> DEFINE s == Unloading(Here, i)
             g == Gone(s, i)
  <2>1. /\ SaneState(s, opened) /\ s.cur = cur /\ s.loaded = loaded /\ s.idle = idle
        /\ \A j \in Terms : hooked[j] /\ j # cur => s.hooked[j]
    BY <1>1, UnloadingSane DEF Here
  <2> HIDE DEF s
  <2>2. /\ SaneState(g, opened) /\ g.cur = cur /\ g.idle = idle /\ ~g.loaded[i]
        /\ \A j \in Terms : j # i => g.loaded[j] = loaded[j] /\ g.hooked[j] = s.hooked[j]
    BY <1>1, <2>1, GoneSane
  <2> HIDE DEF g
  <2>3. CurExists(g)  BY <1>3, <2>2, CurLoaded DEF CurExists
  <2>4. AwakeState(g, opened')
    <3>1. SUFFICES ASSUME ~closeOnEnd, opened # 0, g.loaded[opened], g.idle[opened]
                   PROVE  g.hooked[opened] /\ g.cur # opened
      BY <1>2 DEF AwakeState
    <3>2. opened \in Terms /\ opened # i  BY <1>1, <2>2, <3>1
    <3>3. hooked[opened] /\ cur # opened
      BY <2>2, <3>1, <3>2 DEF AwakeState, Here
    <3> QED  BY <2>1, <2>2, <3>2, <3>3
  <2>5. \A j \in Terms : g.loaded[j] => hasBuffer'[j]  BY <1>2, <2>2
  <2>6. Become(g)  BY <1>3 DEF g, s
  <2> QED  BY <1>2, <2>2, <2>3, <2>4, <2>5, <2>6, SaneNext
<1> DEFINE l == Leaving(Here)
<1>4. /\ SaneState(l, opened) /\ CurExists(l) /\ l.cur = cur /\ SameTerminals(l, Here)
      /\ \A j \in Terms : l.idle[j] => idle[j] \/ (j = cur /\ hooked[j])
  BY <1>1, LeavingSane DEF Here
<1> HIDE DEF l
<1>5. ASSUME ~closeOnEnd, opened \in Terms, loaded[opened], l.idle[opened]
      PROVE  hooked[opened]
  <2>1. idle[opened] \/ (opened = cur /\ hooked[opened])  BY <1>4, <1>5
  <2>2. opened # 0  BY <1>5 DEF Terms
  <2>3. idle[opened] => hooked[opened]  BY <1>5, <2>2 DEF AwakeState, Here
  <2> QED  BY <2>1, <2>3
<1>6. ASSUME i = cur, NEW b \in Buffers \ {cur},
             Become(Entering(Gone(Unloading(l, i), i), b))
      PROVE  Sane'
  <2> DEFINE s == Unloading(l, i)
             g == Gone(s, i)
             t == Entering(g, b)
  <2>1. /\ SaneState(s, opened) /\ s.loaded = loaded /\ s.idle = l.idle
        /\ \A j \in Terms : hooked[j] /\ j # cur => s.hooked[j]
    BY <1>1, <1>4, UnloadingSane DEF SameTerminals, Here
  <2> HIDE DEF s
  <2>2. /\ SaneState(g, opened) /\ g.idle = l.idle /\ ~g.loaded[i]
        /\ \A j \in Terms : j # i => g.loaded[j] = loaded[j] /\ g.hooked[j] = s.hooked[j]
    BY <1>1, <2>1, GoneSane
  <2> HIDE DEF g
  <2>3. b \in 0..MaxTerms /\ (b # 0 => g.loaded[b])  BY <1>6, <2>2, OtherBuffer
  <2>4. /\ SaneState(t, opened) /\ CurExists(t) /\ t.cur = b /\ SameTerminals(t, g)
        /\ \A j \in Terms : t.idle[j] => g.idle[j] /\ (b # 0 /\ g.hooked[b] => j # opened)
    BY <1>1, <2>2, <2>3, EnteringSane
  <2> HIDE DEF t
  <2>5. AwakeState(t, opened')
    <3>1. SUFFICES ASSUME ~closeOnEnd, opened # 0, t.loaded[opened], t.idle[opened]
                   PROVE  t.hooked[opened] /\ t.cur # opened
      BY <1>2 DEF AwakeState
    <3>2. opened \in Terms /\ opened # i /\ l.idle[opened] /\ loaded[opened]
      BY <1>1, <2>2, <2>4, <3>1 DEF SameTerminals
    <3>3. g.hooked[opened]  BY <1>5, <1>6, <2>1, <2>2, <3>1, <3>2
    <3> QED  BY <2>4, <3>1, <3>2, <3>3 DEF SameTerminals
  <2>6. \A j \in Terms : t.loaded[j] => hasBuffer'[j]  BY <1>2, <2>2, <2>4 DEF SameTerminals
  <2>7. Become(t)  BY <1>6 DEF t, g, s
  <2> QED  BY <1>2, <2>4, <2>5, <2>6, <2>7, SaneNext
<1>7. ASSUME i = cur, NEW b \in Buffers \ {cur},
             Become(Gone(Unloading(Entering(l, b), i), i))
      PROVE  Sane'
  <2> DEFINE e == Entering(l, b)
             s == Unloading(e, i)
             g == Gone(s, i)
  <2>1. b \in 0..MaxTerms /\ (b # 0 => b # cur /\ l.loaded[b])
    BY <1>4, OtherBuffer DEF SameTerminals, Here
  <2>2. /\ SaneState(e, opened) /\ CurExists(e) /\ e.cur = b /\ SameTerminals(e, l)
        /\ \A j \in Terms : e.idle[j] => l.idle[j] /\ (b # 0 /\ l.hooked[b] => j # opened)
    BY <1>1, <1>4, <2>1, EnteringSane
  <2> HIDE DEF e
  <2>3. /\ SaneState(s, opened) /\ s.cur = b /\ s.loaded = loaded /\ s.idle = e.idle
        /\ \A j \in Terms : hooked[j] /\ j # b => s.hooked[j]
    BY <1>1, <1>4, <2>2, UnloadingSane DEF SameTerminals, Here
  <2> HIDE DEF s
  <2>4. /\ SaneState(g, opened) /\ g.cur = b /\ g.idle = e.idle /\ ~g.loaded[i]
        /\ \A j \in Terms : j # i => g.loaded[j] = loaded[j] /\ g.hooked[j] = s.hooked[j]
    BY <1>1, <2>3, GoneSane
  <2> HIDE DEF g
  <2>5. CurExists(g)
    <3>1. b # 0 => b \in Terms /\ b # i /\ loaded[b]  BY <1>7, OtherBuffer
    <3> QED  BY <2>4, <3>1 DEF CurExists
  <2>6. AwakeState(g, opened')
    <3>1. SUFFICES ASSUME ~closeOnEnd, opened # 0, g.loaded[opened], g.idle[opened]
                   PROVE  g.hooked[opened] /\ g.cur # opened
      BY <1>2 DEF AwakeState
    <3>2. opened \in Terms /\ opened # i /\ l.idle[opened] /\ loaded[opened]
      BY <1>1, <2>2, <2>4, <3>1
    <3>3. hooked[opened]  BY <1>5, <3>1, <3>2
    <3>4. b # opened  BY <1>1, <1>4, <2>2, <2>4, <3>1, <3>2, <3>3 DEF SameTerminals, Here
    <3> QED  BY <2>3, <2>4, <3>2, <3>3, <3>4
  <2>7. \A j \in Terms : g.loaded[j] => hasBuffer'[j]  BY <1>2, <2>4
  <2>8. Become(g)  BY <1>7 DEF g, s, e
  <2> QED  BY <1>2, <2>4, <2>5, <2>6, <2>7, <2>8, SaneNext
<1> QED  BY <1>3, <1>6, <1>7 DEF Delete, l

LEMMA OpenSane == ASSUME IInv, NEW ok \in BOOLEAN, NEW back \in BOOLEAN, Open(ok, back) PROVE Sane'
<1> USE DEF IInv, RestType, Sane
<1> DEFINE n == opened + 1
           l == Leaving(Here)
           s == [l EXCEPT !.cur = n, !.fast = TRUE,
                     !.loaded[n] = TRUE, !.active[n] = TRUE, !.hooked[n] = ok,
                     !.insert = IF ok /\ ~back THEN TRUE ELSE insert \/ insertOnEnter,
                     !.program[n] = IF ok THEN "runs" ELSE "none"]
           t == OnBlur(s)
           u == [t EXCEPT !.cur = cur]
           v == OnFocus(u, n)
<1>1. opened \in Nat /\ n \in Nat /\ n \in Terms /\ n # 0 /\ insertOnEnter \in BOOLEAN
  BY ConqueTermAssumption DEF Open, Terms
<1>2. /\ SaneState(l, opened) /\ SameTerminals(l, Here)
      /\ \A i \in Terms : l.idle[i] => i <= opened
  BY <1>1, LeavingSane DEF SaneState
<1>3. opened' = n /\ closeOnEnd' = closeOnEnd /\ hasBuffer' = [hasBuffer EXCEPT ![n] = TRUE]
  BY DEF Open, optionVars
<1>4. \A i \in Terms : i = n \/ loaded[i] => hasBuffer'[i]  BY <1>1, <1>3
<1> HIDE DEF l
<1>5. /\ s \in StateType /\ s.cur = n /\ s.idle = l.idle
      /\ s.loaded[n] /\ s.active[n] /\ s.hooked[n] = ok
      /\ \A i \in Terms : i # n => /\ s.loaded[i] = loaded[i] /\ s.hooked[i] = hooked[i]
                                   /\ s.active[i] = l.active[i] /\ s.program[i] = l.program[i]
  <2>1. insert \in BOOLEAN /\ l \in StateType /\ n \in 0..MaxTerms
    BY <1>1, <1>2 DEF SaneState, StateType, Here, Terms
  <2>2. (IF ok /\ ~back THEN TRUE ELSE insert \/ insertOnEnter) \in BOOLEAN
    BY <1>1, <2>1, Zenon
  <2>3. l.loaded = loaded /\ l.hooked = hooked  BY <1>2 DEF SameTerminals, Here
  <2> HIDE DEF n
  <2>4. (IF ok THEN "runs" ELSE "none") \in Programs  BY DEF Programs
  <2>5. n \in Terms /\ ok \in BOOLEAN /\ insertOnEnter \in BOOLEAN  BY <1>1
  <2>6. /\ s \in StateType /\ s.cur = n /\ s.idle = l.idle
        /\ s.loaded = [l.loaded EXCEPT ![n] = TRUE] /\ s.active = [l.active EXCEPT ![n] = TRUE]
        /\ s.hooked = [l.hooked EXCEPT ![n] = ok]
        /\ s.program = [l.program EXCEPT ![n] = IF ok THEN "runs" ELSE "none"]
    BY <2>1, <2>2, <2>4, <2>5 DEF StateType
  <2> QED  BY <2>1, <2>3, <2>5, <2>6 DEF StateType
<1> HIDE DEF s
<1>6. SaneState(s, n) /\ CurExists(s)
  <2>1. \A i \in Terms : s.hooked[i] => s.loaded[i]
    BY <1>2, <1>5 DEF SaneState, SameTerminals, Here
  <2>2. \A i \in Terms : s.loaded[i] \/ s.idle[i] => i <= n
    <3>1. ASSUME NEW i \in Terms, s.loaded[i] \/ s.idle[i], i # n PROVE i <= n
      <4>1. l.loaded[i] \/ l.idle[i]  BY <1>2, <1>5, <3>1 DEF SameTerminals, Here
      <4>2. i <= opened  BY <1>2, <4>1 DEF SaneState
      <4> QED  BY <1>1, <4>2 DEF Terms
    <3> QED  BY <1>1, <3>1
  <2>3. \A i \in Terms : i <= n /\ ~s.active[i] => s.program[i] # "runs"
    <3>1. ASSUME NEW i \in Terms, i <= n, ~s.active[i] PROVE s.program[i] # "runs"
      <4>1. i # n  BY <1>5, <3>1
      <4>2. i <= opened  BY <1>1, <3>1, <4>1 DEF Terms
      <4>3. ~l.active[i] /\ s.program[i] = l.program[i]  BY <1>5, <3>1, <4>1
      <4> QED  BY <1>2, <4>2, <4>3 DEF SaneState
    <3> QED  BY <3>1
  <2>4. CurExists(s)  BY <1>5 DEF CurExists
  <2> QED  BY <1>5, <2>1, <2>2, <2>3, <2>4 DEF SaneState
<1>7. ~s.idle[n]  BY <1>1, <1>2, <1>5
<1>8. CASE Become(s)
  <2>1. AwakeState(s, n)  BY <1>7 DEF AwakeState
  <2>2. \A i \in Terms : s.loaded[i] => hasBuffer'[i]  BY <1>4, <1>5
  <2> HIDE DEF n
  <2> QED  BY <1>3, <1>6, <1>8, <2>1, <2>2, SaneNext
<1>9. ASSUME ok PROVE
      /\ SaneState(u, n) /\ CurExists(u) /\ u.cur = cur /\ SameTerminals(u, s)
      /\ s.hooked[n] /\ u.cur # n
  <2>1. SaneState(t, n) /\ SameTerminals(t, s)  BY <1>1, <1>6, BlurSane
  <2> HIDE DEF t
  <2>2. /\ u \in StateType /\ u.cur = cur /\ SameTerminals(u, t) /\ u.idle = t.idle
    BY <2>1, CurLoaded DEF SaneState, StateType, SameTerminals
  <2> HIDE DEF u
  <2>3. SaneState(u, n)  BY <2>1, <2>2 DEF SaneState, SameTerminals
  <2>4. cur # 0 => loaded[cur] /\ cur \in Terms /\ cur <= opened
    BY CurLoaded DEF SaneState, Here
  <2>5. cur # n  BY <1>1, <2>4 DEF Terms
  <2>6. CurExists(u)  BY <1>5, <2>1, <2>2, <2>4, <2>5 DEF CurExists, SameTerminals
  <2> QED  BY <1>5, <1>9, <2>1, <2>2, <2>3, <2>5, <2>6 DEF SameTerminals
<1> HIDE DEF n
<1>10. CASE ok /\ Become(u)
  <2>1. /\ SaneState(u, n) /\ CurExists(u) /\ u.cur # n /\ SameTerminals(u, s) /\ s.hooked[n]
    BY <1>9, <1>10
  <2> HIDE DEF u
  <2>2. AwakeState(u, n)  BY <2>1 DEF AwakeState, SameTerminals
  <2>3. \A i \in Terms : u.loaded[i] => hasBuffer'[i]
    BY <1>4, <1>5, <2>1 DEF SameTerminals
  <2> QED  BY <1>3, <1>10, <2>1, <2>2, <2>3, SaneNext
<1>11. CASE ok /\ Become(v)
  <2>1. SaneState(u, n) /\ CurExists(u) /\ SameTerminals(u, s)  BY <1>9, <1>11
  <2> HIDE DEF u
  <2>2. /\ SaneState(v, n) /\ v.cur = u.cur /\ SameTerminals(v, u)
        /\ \A i \in Terms : v.idle[i] <=> (u.idle[i] /\ i # n)
    BY <1>1, <2>1, FocusSane
  <2> HIDE DEF v
  <2>3. CurExists(v)  BY <2>1, <2>2 DEF CurExists, SameTerminals
  <2>4. AwakeState(v, n)  BY <1>1, <2>2 DEF AwakeState
  <2>5. \A i \in Terms : v.loaded[i] => hasBuffer'[i]
    BY <1>4, <1>5, <2>1, <2>2 DEF SameTerminals
  <2> QED  BY <1>3, <1>11, <2>2, <2>3, <2>4, <2>5, SaneNext
<1>12. Become(s) \/ (ok /\ Become(u)) \/ (ok /\ Become(v))
  BY DEF Open, v, u, t, s, l, n
<1> QED  BY <1>8, <1>10, <1>11, <1>12

LEMMA SubprocessSane == ASSUME IInv, NEW ok \in BOOLEAN, Subprocess(ok) PROVE Sane'
<1> USE DEF IInv, RestType, Sane
<1> DEFINE n == opened + 1
           s == [Here EXCEPT !.active[n] = TRUE,
                             !.program[n] = IF ok THEN "runs" ELSE "none"]
           t == OnBlur(s)
           u == [t EXCEPT !.idle[n] = TRUE]
<1>1. opened \in Nat /\ n \in Nat /\ n \in Terms /\ n # 0
  BY ConqueTermAssumption DEF Subprocess, Terms
<1>2. opened' = n /\ closeOnEnd' = closeOnEnd /\ hasBuffer' = hasBuffer
  BY DEF Subprocess, optionVars
<1>3. /\ s \in StateType /\ s.cur = cur /\ s.idle = idle /\ s.loaded = loaded
      /\ s.hooked = hooked /\ s.active[n]
      /\ \A i \in Terms : i # n => s.active[i] = active[i] /\ s.program[i] = program[i]
  <2>1. Here \in StateType  BY DEF SaneState
  <2> HIDE DEF n
  <2>2. (IF ok THEN "runs" ELSE "none") \in Programs  BY DEF Programs
  <2> QED  BY <1>1, <2>1, <2>2 DEF StateType, Here
<1> HIDE DEF s
<1>4. SaneState(s, n) /\ CurExists(s) /\ ~loaded[n]
  <2>1. \A i \in Terms : s.hooked[i] => s.loaded[i]  BY <1>3 DEF SaneState, Here
  <2>2. \A i \in Terms : s.loaded[i] \/ s.idle[i] => i <= opened
    BY <1>3 DEF SaneState, Here
  <2>3. \A i \in Terms : s.loaded[i] \/ s.idle[i] => i <= n  BY <1>1, <2>2 DEF Terms
  <2>4. \A i \in Terms : i <= n /\ ~s.active[i] => s.program[i] # "runs"
    <3>1. ASSUME NEW i \in Terms, i <= n, ~s.active[i] PROVE s.program[i] # "runs"
      <4>1. i # n  BY <1>3, <3>1
      <4>2. i <= opened  BY <1>1, <3>1, <4>1 DEF Terms
      <4>3. ~active[i] /\ s.program[i] = program[i]  BY <1>3, <3>1, <4>1
      <4> QED  BY <4>2, <4>3 DEF SaneState, Here
    <3> QED  BY <3>1
  <2>5. ~loaded[n]  BY <1>1, <1>3, <2>2
  <2>6. CurExists(s)  BY <1>3 DEF CurExists, Here
  <2> QED  BY <1>3, <2>1, <2>3, <2>4, <2>5, <2>6 DEF SaneState
<1>5. CASE Become(s)
  <2>1. AwakeState(s, n)  BY <1>3, <1>4 DEF AwakeState
  <2>2. \A i \in Terms : s.loaded[i] => hasBuffer'[i]  BY <1>2, <1>3
  <2> HIDE DEF n
  <2> QED  BY <1>2, <1>4, <1>5, <2>1, <2>2, SaneNext
<1>6. CASE cur = 0 /\ Become(u)
  <2>1. SaneState(t, n) /\ t.cur = 0 /\ SameTerminals(t, s)
    BY <1>1, <1>3, <1>4, <1>6, BlurSane
  <2> HIDE DEF t
  <2>2. /\ u \in StateType /\ u.cur = 0 /\ SameTerminals(u, t)
        /\ \A i \in Terms : i # n => u.idle[i] = t.idle[i]
    BY <1>1, <2>1 DEF SaneState, StateType, SameTerminals
  <2> HIDE DEF u
  <2>3. SaneState(u, n)
    <3>1. \A i \in Terms : u.loaded[i] \/ u.idle[i] => i <= n
      BY <1>1, <2>1, <2>2 DEF SaneState, SameTerminals, Terms
    <3> QED  BY <2>1, <2>2, <3>1 DEF SaneState, SameTerminals
  <2>4. AwakeState(u, n) /\ CurExists(u)
    BY <1>3, <1>4, <2>1, <2>2 DEF AwakeState, CurExists, SameTerminals
  <2>5. \A i \in Terms : u.loaded[i] => hasBuffer'[i]
    BY <1>2, <1>3, <2>1, <2>2 DEF SameTerminals
  <2> HIDE DEF n
  <2> QED  BY <1>2, <1>6, <2>3, <2>4, <2>5, SaneNext
<1>7. Become(s) \/ (cur = 0 /\ Become(u))  BY DEF Subprocess, u, t, s, n
<1> QED  BY <1>5, <1>6, <1>7

LEMMA ToggleSane == ASSUME IInv, Toggle PROVE Sane'
<1> USE DEF IInv, Sane
<1>1. cur # 0 /\ cur \in Terms /\ loaded[cur]  BY CurLoaded DEF Toggle
<1>2. /\ UNCHANGED <<opened, cur, insert, fast, hasBuffer, loaded, active, idle, program,
                     closeOnEnd>>
      /\ hooked' = [hooked EXCEPT ![cur] = ~@]
  BY DEF Toggle, optionVars
<1>3. Here \in StateType /\ Here' = [Here EXCEPT !.hooked[cur] = ~@]
  BY <1>2 DEF SaneState, Here
<1>4. /\ Here' \in StateType /\ Here'.loaded = loaded /\ Here'.idle = idle
      /\ Here'.active = active /\ Here'.program = program /\ Here'.cur = cur
      /\ \A i \in Terms : i # cur => Here'.hooked[i] = hooked[i]
  <2>1. hooked \in [Terms -> BOOLEAN]  BY <1>3 DEF StateType, Here
  <2>2. hooked' \in [Terms -> BOOLEAN]  BY <1>1, <1>2, <2>1
  <2>3. \A i \in Terms : i # cur => hooked'[i] = hooked[i]  BY <1>2, <2>1
  <2> QED  BY <1>2, <1>3, <2>2, <2>3 DEF StateType, Here
<1>5. SaneState(Here', opened)
  BY <1>1, <1>4 DEF SaneState, Here
<1>6. AwakeState(Here', opened)
  <2>1. ~closeOnEnd /\ opened # 0 /\ loaded[opened] /\ idle[opened] =>
           hooked[opened] /\ cur # opened
    BY DEF AwakeState, Here
  <2>2. opened # 0 => opened \in Terms  BY DEF RestType, Terms
  <2> QED  BY <1>4, <2>1, <2>2 DEF AwakeState
<1>7. CurExists(Here')  BY <1>1, <1>4 DEF CurExists
<1> QED  BY <1>2, <1>5, <1>6, <1>7 DEF AwakeState, SaneState, CurExists, Here

LEMMA ExitSane == ASSUME IInv, NEW i \in Terms, Exit(i) PROVE Sane'
<1> USE DEF IInv, Sane
<1>1. /\ UNCHANGED <<opened, cur, insert, fast, hasBuffer, loaded, hooked, active, idle,
                     closeOnEnd>>
      /\ program' = [program EXCEPT ![i] = "ended"]
  BY DEF Exit, optionVars
<1>2. Here \in StateType  BY DEF SaneState
<1>3. program \in [Terms -> Programs]  BY <1>2 DEF StateType, Here
<1>4. program' \in [Terms -> Programs]
      /\ \A j \in Terms : program'[j] = "runs" => program[j] = "runs"
  BY <1>1, <1>3 DEF Programs
<1>5. Here' \in StateType  BY <1>1, <1>2, <1>4 DEF StateType, Here
<1>6. SaneState(Here, opened)'
  <2>1. \A j \in Terms : j <= opened /\ ~active[j] => program'[j] # "runs"
    BY <1>4 DEF SaneState, Here
  <2>2. /\ \A j \in Terms : hooked[j] => loaded[j]
        /\ \A j \in Terms : loaded[j] \/ idle[j] => j <= opened
    BY DEF SaneState, Here
  <2> QED  BY <1>1, <1>5, <2>1, <2>2 DEF SaneState, Here
<1>7. CurExists(Here)' /\ AwakeState(Here, opened)'
  BY <1>1 DEF CurExists, AwakeState, Here
<1> QED  BY <1>1, <1>6, <1>7

\* The steps that leave the terminals alone, but for Vim's mode.
LEMMA ElseSane ==
    ASSUME IInv, insert' \in BOOLEAN,
           UNCHANGED <<opened, cur, fast, hasBuffer, loaded, hooked, active, idle, program,
                       closeOnEnd>>
    PROVE  Sane'
<1> USE DEF IInv, Sane
<1>1. Here \in StateType  BY DEF SaneState
<1>2. Here' \in StateType  BY <1>1 DEF StateType, Here
<1>3. SaneState(Here, opened)'  BY <1>2 DEF SaneState, Here
<1> QED  BY <1>3 DEF CurExists, AwakeState, Here

LEMMA RestNext == RestType /\ [Next]_vars => RestType'
<1> SUFFICES ASSUME RestType, [Next]_vars PROVE RestType'  OBVIOUS
<1> USE ConqueTermAssumption DEF RestType, optionVars, termVars
<1>1. ASSUME NEW ok \in BOOLEAN, NEW back \in BOOLEAN, Open(ok, back) PROVE RestType'
  <2>1. /\ opened < MaxTerms /\ opened' = opened + 1
        /\ hasBuffer' = [hasBuffer EXCEPT ![opened + 1] = TRUE]
        /\ UNCHANGED <<reads, unread>>
    BY <1>1, Zenon DEF Open
  <2>2. UNCHANGED <<readUnfocused, closeOnEnd, insertOnEnter>>
    BY <1>1, Zenon DEF Open
  <2>3. hasBuffer' \in [Terms -> BOOLEAN]  BY <2>1
  <2> QED  BY <2>1, <2>2, <2>3
<1>2. ASSUME NEW ok \in BOOLEAN, Subprocess(ok) PROVE RestType'
  BY <1>2 DEF Subprocess
<1>3. ASSUME NEW b \in 0..MaxTerms, Switch(b) PROVE RestType'  BY <1>3 DEF Switch
<1>4. CASE InsertMode  BY <1>4 DEF InsertMode
<1>5. CASE Toggle      BY <1>5 DEF Toggle
<1>6. CASE AutoClose   BY <1>6 DEF AutoClose
<1>7. CASE AutoRead
  <2>1. reads' \in [Terms -> 0..CheckEvery - 1]
    <3>1. cur \in Terms => (reads[cur] + 1) % CheckEvery \in 0..CheckEvery - 1
      OBVIOUS
    <3> QED  BY <1>7, <3>1 DEF AutoRead
  <2> QED  BY <1>7, <2>1 DEF AutoRead
<1>8. CASE ReadAll
  <2>1. \A i \in Terms : (unread[i] /\ ~active[i]) \in BOOLEAN  BY Zenon
  <2>2. unread' \in [Terms -> BOOLEAN]  BY <1>8, <2>1, Zenon DEF ReadAll
  <2> QED  BY <1>8, <2>2 DEF ReadAll
<1>9. ASSUME NEW i \in Terms, Read(i) \/ Close(i) \/ Delete(i) \/ Output(i) \/ Exit(i)
      PROVE  RestType'
  BY <1>9 DEF Read, Close, Delete, Output, Exit
<1>10. CASE UNCHANGED vars  BY <1>10 DEF vars
<1> QED  BY <1>1, <1>2, <1>3, <1>4, <1>5, <1>6, <1>7, <1>8, <1>9, <1>10 DEF Next

LEMMA InvNext == IInv /\ [Next]_vars => IInv'
<1> SUFFICES ASSUME IInv, [Next]_vars PROVE IInv'  OBVIOUS
<1>1. RestType'  BY RestNext DEF IInv
<1>2. insert \in BOOLEAN  BY DEF IInv, Sane, SaneState, StateType, Here
<1>3. CASE InsertMode
  <2>1. insert' \in BOOLEAN  BY <1>2, <1>3 DEF InsertMode
  <2> QED  BY <1>1, <1>3, <2>1, ElseSane DEF InsertMode, termVars, optionVars, IInv
<1>4. CASE AutoRead
  BY <1>1, <1>2, <1>4, ElseSane DEF AutoRead, optionVars, IInv
<1>5. CASE ReadAll
  BY <1>1, <1>2, <1>5, ElseSane DEF ReadAll, optionVars, IInv
<1>6. ASSUME NEW i \in Terms, Read(i) \/ Output(i) PROVE IInv'
  BY <1>1, <1>2, <1>6, ElseSane DEF Read, Output, optionVars, IInv
<1>7. CASE UNCHANGED vars
  BY <1>1, <1>2, <1>7, ElseSane DEF vars, termVars, optionVars, IInv
<1> QED
  BY <1>1, <1>3, <1>4, <1>5, <1>6, <1>7, OpenSane, SubprocessSane, SwitchSane, ToggleSane,
     AutoCloseSane, CloseSane, DeleteSane, ExitSane DEF Next, IInv

LEMMA Invariant == Spec => []IInv
BY SaneInit, InvNext, PTL DEF Spec

-----------------------------------------------------------------------------
\* The variables keep their types.
THEOREM TypeCorrect == Spec => []TypeOK
<1>1. IInv => TypeOK
  BY DEF IInv, RestType, Sane, SaneState, StateType, Here, Programs, TypeOK
<1> QED  BY Invariant, <1>1, PTL

\* The current buffer exists and only existing buffers have hooks.
THEOREM BuffersAreThere == Spec => []BuffersExist
<1>1. IInv => BuffersExist
  BY DEF IInv, Sane, SaneState, CurExists, Here, BuffersExist
<1> QED  BY Invariant, <1>1, PTL

\* With any number of terminals, the one opened last polls fast when it has the focus.
THEOREM LastAwake == Spec => []LastIsAwake
<1>1. IInv => LastIsAwake
  BY CurLoaded DEF IInv, Sane, AwakeState, Here, LastIsAwake
<1> QED  BY Invariant, <1>1, PTL

\* A closed terminal has been told to end, whatever happened to its buffer.
THEOREM ClosedAreTold == Spec => []ClosedIsTold
<1>1. IInv => ClosedIsTold  BY DEF IInv, Sane, SaneState, Here, ClosedIsTold
<1> QED  BY Invariant, <1>1, PTL

\* No step drops the buffer of a terminal that has its hooks without telling its program.
LEMMA DeletionTells ==
    ASSUME IInv, [Next]_vars, NEW i \in Terms, hooked[i], ~loaded'[i]
    PROVE  program'[i] # "runs"
<1> USE DEF IInv, Sane
<1>1. opened \in Nat /\ insertOnEnter \in BOOLEAN /\ CheckEvery \in Nat
  BY ConqueTermAssumption DEF RestType, Terms
<1>2. loaded[i] /\ loaded \in [Terms -> BOOLEAN]  BY DEF SaneState, StateType, Here
<1>3. loaded' # loaded  BY <1>2
<1>4. ASSUME NEW j \in Terms, Close(j) PROVE program'[i] # "runs"
  <2> DEFINE s == Closed(Here, j)
             g == Gone(s, j)
  <2>1. SaneState(s, opened) /\ s.loaded = loaded /\ s.program[j] # "runs"
    BY <1>1, ClosedSane DEF Here
  <2> HIDE DEF s
  <2>2. /\ SaneState(g, opened) /\ g.program = s.program
        /\ \A k \in Terms : k # j => g.loaded[k] = loaded[k]
    BY <1>1, <2>1, GoneSane
  <2>3. ~Become(s)  BY <1>3, <2>1 DEF Become
  <2> HIDE DEF g
  <2>4. ASSUME NEW t, Become(t), t.loaded = g.loaded, t.program = g.program
        PROVE  program'[i] # "runs"
    BY <1>2, <2>1, <2>2, <2>4 DEF Become
  <2>5. CASE Become([g EXCEPT !.insert = FALSE])
    <3> DEFINE t == [g EXCEPT !.insert = FALSE]
    <3>1. t.loaded = g.loaded /\ t.program = g.program
      BY <2>2 DEF SaneState, StateType
    <3>2. Become(t)  BY <2>5
    <3> HIDE DEF t
    <3> QED  BY <2>4, <3>1, <3>2
  <2>6. ASSUME j = cur, NEW b \in Buffers \ {cur}, Become(Entering(g, b))
        PROVE  program'[i] # "runs"
    <3>1. b \in 0..MaxTerms /\ (b # 0 => g.loaded[b])  BY <2>2, <2>6, OtherBuffer
    <3>2. SameTerminals(Entering(g, b), g)  BY <1>1, <2>2, <3>1, EnteringSane
    <3> QED  BY <2>4, <2>6, <3>2 DEF SameTerminals
  <2> QED  BY <1>4, <2>3, <2>5, <2>6 DEF Close, g, s
<1>5. CASE AutoClose
  <2> DEFINE s == Closed(Here, cur)
             g == Gone(s, cur)
  <2>0. cur \in Terms  BY <1>5, CurLoaded DEF AutoClose, Polls
  <2>1. SaneState(s, opened) /\ s.loaded = loaded /\ s.program[cur] # "runs"
    BY <1>1, <2>0, ClosedSane DEF Here
  <2> HIDE DEF s
  <2>2. /\ g \in StateType /\ g.program = s.program
        /\ \A k \in Terms : k # cur => g.loaded[k] = loaded[k]
    BY <1>1, <2>0, <2>1, GoneSane DEF SaneState
  <2>3. ~Become(s)  BY <1>3, <2>1 DEF Become
  <2> HIDE DEF g
  <2>4. PICK b \in Buffers \ {cur} : Become([g EXCEPT !.cur = b, !.insert = FALSE])
    BY <1>5, <2>3 DEF AutoClose, g, s
  <2>5. loaded' = g.loaded /\ program' = g.program
    BY <2>2, <2>4 DEF Become, StateType
  <2> QED  BY <1>2, <2>1, <2>2, <2>5
<1>6. ASSUME NEW j \in Terms, Delete(j) PROVE program'[i] # "runs"
  <2>1. ASSUME NEW s, SaneState(s, opened), s.loaded = loaded, s.hooked = hooked,
               NEW t, t.loaded = Gone(Unloading(s, j), j).loaded,
               t.program = Gone(Unloading(s, j), j).program, Become(t)
        PROVE  program'[i] # "runs"
    <3> DEFINE u == Unloading(s, j)
               g == Gone(u, j)
    <3>1. /\ SaneState(u, opened) /\ u.loaded = loaded
          /\ hooked[j] => u.program[j] # "runs"
      BY <1>1, <2>1, UnloadingSane
    <3> HIDE DEF u
    <3>2. g.program = u.program /\ \A k \in Terms : k # j => g.loaded[k] = loaded[k]
      BY <1>1, <3>1, GoneSane
    <3>3. loaded' = g.loaded /\ program' = g.program  BY <2>1 DEF Become, g, u
    <3> HIDE DEF g
    <3> QED  BY <1>2, <3>1, <3>2, <3>3
  <2> DEFINE l == Leaving(Here)
  <2>2. /\ SaneState(l, opened) /\ CurExists(l) /\ l.loaded = loaded /\ l.hooked = hooked
    BY <1>1, LeavingSane DEF SameTerminals, Here
  <2>3. SaneState(Here, opened) /\ Here.loaded = loaded /\ Here.hooked = hooked
    BY DEF Here
  <2>4. CASE Become(Gone(Unloading(Here, j), j))
    <3> DEFINE t == Gone(Unloading(Here, j), j)
    <3> QED  BY <2>1, <2>3, <2>4
  <2> HIDE DEF l
  <2>5. ASSUME j = cur, NEW b \in Buffers \ {cur},
               Become(Entering(Gone(Unloading(l, j), j), b))
        PROVE  program'[i] # "runs"
    <3> DEFINE u == Unloading(l, j)
               g == Gone(u, j)
    <3>1. SaneState(u, opened) /\ u.loaded = loaded  BY <1>1, <2>2, UnloadingSane
    <3> HIDE DEF u
    <3>2. SaneState(g, opened) /\ \A k \in Terms : k # j => g.loaded[k] = loaded[k]
      BY ONLY <1>1, <3>1, GoneSane, j \in Terms
    <3> HIDE DEF g
    <3>3. b \in 0..MaxTerms /\ (b # 0 => g.loaded[b])  BY <2>5, <3>2, OtherBuffer
    <3>4. SameTerminals(Entering(g, b), g)  BY <1>1, <3>2, <3>3, EnteringSane
    <3>5. Become(Entering(g, b))  BY <2>5 DEF g, u
    <3> QED  BY <2>1, <2>2, <3>4, <3>5 DEF SameTerminals, g, u
  <2>6. ASSUME j = cur, NEW b \in Buffers \ {cur},
               Become(Gone(Unloading(Entering(l, b), j), j))
        PROVE  program'[i] # "runs"
    <3>1. b \in 0..MaxTerms /\ (b # 0 => l.loaded[b])  BY <2>2, OtherBuffer
    <3>2. /\ SaneState(Entering(l, b), opened) /\ SameTerminals(Entering(l, b), l)
      BY <1>1, <2>2, <3>1, EnteringSane
    <3> QED  BY <2>1, <2>2, <2>6, <3>2 DEF SameTerminals
  <2> QED  BY <1>6, <2>4, <2>5, <2>6 DEF Delete, l
<1>7. ASSUME NEW b \in 0..MaxTerms, Switch(b) PROVE FALSE
  <2>1. SaneState(Leaving(Here), opened) /\ SameTerminals(Leaving(Here), Here)
    BY <1>1, LeavingSane
  <2>2. b # 0 => Leaving(Here).loaded[b]
    BY <1>7, <2>1 DEF Switch, Buffers, SameTerminals, Here
  <2>3. SameTerminals(Entering(Leaving(Here), b), Leaving(Here))
    BY <1>1, <2>1, <2>2, EnteringSane
  <2> QED  BY <1>3, <1>7, <2>1, <2>3 DEF Switch, Become, SameTerminals, Here
<1>8. ASSUME NEW ok \in BOOLEAN, Subprocess(ok) PROVE FALSE
  <2>1. Sane' /\ opened' = opened + 1  BY <1>8, SubprocessSane DEF Subprocess
  <2>2. loaded' = loaded
    BY <1>8 DEF Subprocess, Become, OnBlur, Here
  <2> QED  BY <1>3, <2>2
<1>9. ASSUME NEW ok \in BOOLEAN, NEW back \in BOOLEAN, Open(ok, back) PROVE FALSE
  <2>1. Leaving(Here) \in StateType /\ Leaving(Here).loaded = loaded
    BY <1>1, LeavingSane DEF SaneState, SameTerminals, Here
  <2>2. loaded' = [loaded EXCEPT ![opened + 1] = TRUE]
    BY <1>9, <2>1 DEF Open, Become, OnBlur, OnFocus, StateType
  <2> QED  BY <1>2, <2>2
<1> QED
  BY <1>3, <1>4, <1>5, <1>6, <1>7, <1>8, <1>9
  DEF Next, InsertMode, Toggle, AutoRead, ReadAll, Read, Output, Exit, vars, termVars

\* Whatever the number of terminals, the program of a terminal whose buffer is deleted
\* while it has its autocommands has been told to end.
THEOREM DeletedAreTold == Spec => DeletedIsTold
<1>1. IInv /\ [Next]_vars =>
        \A i \in Terms : hooked[i] /\ ~loaded'[i] => program'[i] # "runs"
  BY DeletionTells
<1> QED  BY Invariant, <1>1, PTL DEF Spec, DeletedIsTold

\* Going to another buffer, or opening a terminal, takes the hooks of none.
LEMMA HooksStay ==
    ASSUME IInv, NEW i \in Terms, hooked[i],
           \/ \E b \in 0..MaxTerms : Switch(b)
           \/ \E ok \in BOOLEAN : Subprocess(ok)
           \/ \E ok, back \in BOOLEAN : Open(ok, back)
    PROVE  hooked'[i]
<1> USE DEF IInv, Sane
<1>1. opened \in Nat /\ insertOnEnter \in BOOLEAN  BY DEF RestType
<1>2. hooked \in [Terms -> BOOLEAN] /\ i <= opened /\ i \in Nat
  BY ConqueTermAssumption DEF SaneState, StateType, Here, Terms
<1>3. SaneState(Leaving(Here), opened) /\ SameTerminals(Leaving(Here), Here)
  BY <1>1, LeavingSane
<1>4. ASSUME NEW b \in 0..MaxTerms, Switch(b) PROVE hooked'[i]
  <2>1. b # 0 => Leaving(Here).loaded[b]
    BY <1>3, <1>4 DEF Switch, Buffers, SameTerminals, Here
  <2>2. SameTerminals(Entering(Leaving(Here), b), Leaving(Here))
    BY <1>1, <1>3, <2>1, EnteringSane
  <2> QED  BY <1>3, <1>4, <2>2 DEF Switch, Become, SameTerminals, Here
<1>5. ASSUME NEW ok \in BOOLEAN, Subprocess(ok) PROVE hooked'[i]
  BY <1>5 DEF Subprocess, Become, OnBlur, Here
<1>6. ASSUME NEW ok \in BOOLEAN, NEW back \in BOOLEAN, Open(ok, back) PROVE hooked'[i]
  <2>1. Leaving(Here) \in StateType /\ Leaving(Here).hooked = hooked
    BY <1>3 DEF SaneState, SameTerminals, Here
  <2>2. hooked' = [hooked EXCEPT ![opened + 1] = ok]
    BY <1>6, <2>1 DEF Open, Become, OnBlur, OnFocus, StateType
  <2> QED  BY <1>1, <1>2, <2>2
<1> QED  BY <1>4, <1>5, <1>6

\* No step takes the hooks of a terminal that is alone, but for a pause, the deletion of
\* its buffer, or an end of its program.
LEMMA AloneUnhooked ==
    ASSUME IInv, [Next]_vars, opened = 1, hooked[1], ~hooked'[1], loaded'[1]
    PROVE  Toggle \/ program'[1] # "runs"
<1> USE DEF IInv, Sane
<1>1. opened \in Nat /\ insertOnEnter \in BOOLEAN  BY DEF RestType
<1>2. /\ 1 \in Terms /\ hooked \in [Terms -> BOOLEAN]
      /\ \A j \in Terms : loaded[j] => j = 1
  <2>1. opened \in 0..MaxTerms  BY DEF RestType
  <2>2. 1 \in Terms  BY <2>1, ConqueTermAssumption DEF Terms
  <2>3. \A j \in Terms : loaded[j] => j <= 1  BY DEF SaneState, Here
  <2> QED  BY <2>2, <2>3 DEF SaneState, StateType, Here, Terms
<1>3. hooked' # hooked  OBVIOUS
<1> DEFINE s == Closed(Here, 1)
           g == Gone(s, 1)
<1>4. SaneState(s, opened) /\ s.loaded = loaded /\ s.program[1] # "runs"
  BY <1>1, <1>2, ClosedSane DEF Here
<1> HIDE DEF s
<1>5. /\ SaneState(g, opened) /\ g.program = s.program /\ ~g.loaded[1]
      /\ \A k \in Terms : k # 1 => g.loaded[k] = loaded[k]
  BY <1>1, <1>2, <1>4, GoneSane
<1> HIDE DEF g
<1>6. ASSUME Become(s) PROVE program'[1] # "runs"  BY <1>4, <1>6 DEF Become
<1>7. ASSUME Close(1) PROVE program'[1] # "runs"
  <2>1. CASE Become([g EXCEPT !.insert = FALSE])
    <3>1. program' = g.program  BY <1>5, <2>1 DEF Become, SaneState, StateType
    <3> QED  BY <1>4, <1>5, <3>1
  <2>2. ASSUME 1 = cur, NEW b \in Buffers \ {cur}, Become(Entering(g, b))
        PROVE  program'[1] # "runs"
    <3>1. b \in 0..MaxTerms /\ (b # 0 => g.loaded[b])  BY <1>5, <2>2, OtherBuffer
    <3>2. SameTerminals(Entering(g, b), g)  BY <1>1, <1>5, <3>1, EnteringSane
    <3> QED  BY <1>4, <1>5, <2>2, <3>2 DEF SameTerminals, Become
  <2> QED  BY <1>6, <1>7, <2>1, <2>2 DEF Close, g, s
<1>8. ASSUME NEW j \in Terms, Close(j) PROVE program'[1] # "runs"
  <2>1. j = 1  BY <1>8 DEF Close
  <2> QED  BY <1>7, <1>8, <2>1
<1>9. CASE AutoClose
  <2>1. cur = 1  BY <1>2, <1>9, CurLoaded DEF AutoClose, Polls
  <2>2. ASSUME NEW b \in Buffers \ {cur},
               Become([g EXCEPT !.cur = b, !.insert = FALSE])
        PROVE  program'[1] # "runs"
    <3>1. program' = g.program  BY <1>5, <2>2 DEF Become, SaneState, StateType
    <3> QED  BY <1>4, <1>5, <3>1
  <2> QED  BY <1>6, <1>9, <2>1, <2>2 DEF AutoClose, g, s
<1>10. ASSUME NEW j \in Terms, Delete(j) PROVE FALSE
  <2>1. j = 1  BY <1>2, <1>10 DEF Delete
  <2>2. ASSUME NEW t, SaneState(t, opened), t.loaded = loaded
        PROVE  /\ ~Become(Gone(Unloading(t, 1), 1))
               /\ \A b \in Buffers \ {1} :
                     ~(cur = 1 /\ Become(Entering(Gone(Unloading(t, 1), 1), b)))
    <3> DEFINE u == Unloading(t, 1)
               w == Gone(u, 1)
    <3>1. SaneState(u, opened) /\ u.loaded = loaded  BY <1>1, <1>2, <2>2, UnloadingSane
    <3> HIDE DEF u
    <3>2. /\ SaneState(w, opened) /\ ~w.loaded[1]
          /\ \A k \in Terms : k # 1 => w.loaded[k] = u.loaded[k]
      BY ONLY <1>1, <1>2, <3>1, GoneSane
    <3> HIDE DEF w
    <3>3. ~Become(w)  BY <3>2 DEF Become
    <3>4. ASSUME NEW b \in Buffers \ {1}, cur = 1, Become(Entering(w, b)) PROVE FALSE
      <4>1. b \in 0..MaxTerms /\ (b # 0 => w.loaded[b])  BY <3>1, <3>2, <3>4, OtherBuffer
      <4>2. SameTerminals(Entering(w, b), w)  BY <1>1, <3>2, <4>1, EnteringSane
      <4> QED  BY <3>2, <3>4, <4>2 DEF SameTerminals, Become
    <3> QED  BY <3>3, <3>4 DEF w, u
  <2> DEFINE l == Leaving(Here)
  <2>3. SaneState(l, opened) /\ l.loaded = loaded
    BY <1>1, LeavingSane DEF SameTerminals, Here
  <2>4. SaneState(Here, opened) /\ Here.loaded = loaded  BY DEF Here
  <2> HIDE DEF l
  <2>5. ASSUME NEW b \in Buffers \ {cur}
        PROVE  SaneState(Entering(l, b), opened) /\ Entering(l, b).loaded = loaded
    <3>1. b \in 0..MaxTerms /\ (b # 0 => l.loaded[b])  BY <2>3, <2>5, OtherBuffer
    <3> QED  BY <1>1, <2>3, <3>1, EnteringSane DEF SameTerminals
  <2>6. ~Become(Gone(Unloading(Here, 1), 1))  BY <2>2, <2>4
  <2>7. ASSUME cur = 1, NEW b \in Buffers \ {cur}
        PROVE  /\ ~Become(Entering(Gone(Unloading(l, 1), 1), b))
               /\ ~Become(Gone(Unloading(Entering(l, b), 1), 1))
    BY <2>2, <2>3, <2>5, <2>7
  <2> QED  BY <1>10, <2>1, <2>6, <2>7 DEF Delete, l
<1>11. ASSUME \/ \E b \in 0..MaxTerms : Switch(b)
              \/ \E ok \in BOOLEAN : Subprocess(ok)
              \/ \E ok, back \in BOOLEAN : Open(ok, back)
       PROVE  FALSE
  BY <1>2, <1>11, HooksStay
<1> QED
  BY <1>3, <1>8, <1>9, <1>10, <1>11
  DEF Next, InsertMode, AutoRead, ReadAll, Read, Output, Exit, vars, termVars

\* As long as it is the only one, a terminal whose program runs stays a terminal until
\* the user pauses it or deletes it, whatever the options.
THEOREM AloneStays == Spec => AloneStaysTerminal
<1>1. IInv /\ [Next]_vars =>
        (opened = 1 /\ hooked[1] /\ ~hooked'[1] /\ loaded'[1] =>
           Toggle \/ program'[1] # "runs")
  BY AloneUnhooked
<1> QED  BY Invariant, <1>1, PTL DEF Spec, AloneStaysTerminal

\* Of the terminals whose buffers remain, a command unhooks none that was hidden when it
\* began and when it ended.
LEMMA HiddenHooked ==
    ASSUME IInv, [Next]_vars, NEW i \in Terms, hooked[i], loaded'[i], i # cur, i # cur'
    PROVE  hooked'[i]
<1> USE DEF IInv, Sane
<1>1. opened \in Nat /\ insertOnEnter \in BOOLEAN  BY DEF RestType
<1>2. hooked \in [Terms -> BOOLEAN]  BY DEF SaneState, StateType, Here
<1>3. ASSUME NEW j \in Terms,
             \/ Become(Closed(Here, j))
             \/ Become([Gone(Closed(Here, j), j) EXCEPT !.insert = FALSE])
             \/ \E b \in Buffers \ {cur} :
                   \/ Become([Gone(Closed(Here, j), j) EXCEPT !.cur = b, !.insert = FALSE])
                   \/ j = cur /\ Become(Entering(Gone(Closed(Here, j), j), b))
      PROVE  hooked'[i]
  <2> DEFINE s == Closed(Here, j)
             g == Gone(s, j)
  <2>1. SaneState(s, opened) /\ s.loaded = loaded /\ s.hooked[i]
    BY <1>1, ClosedSane DEF Here
  <2> HIDE DEF s
  <2>2. /\ SaneState(g, opened) /\ ~g.loaded[j]
        /\ \A k \in Terms : k # j => g.loaded[k] = loaded[k] /\ g.hooked[k] = s.hooked[k]
    BY <1>1, <2>1, GoneSane
  <2> HIDE DEF g
  <2>3. ASSUME loaded' = g.loaded, hooked' = g.hooked PROVE hooked'[i]
    BY <2>1, <2>2, <2>3
  <2>4. CASE Become(s)  BY <2>1, <2>4 DEF Become
  <2>5. CASE Become([g EXCEPT !.insert = FALSE])
    BY <2>2, <2>3, <2>5 DEF Become, SaneState, StateType
  <2>6. ASSUME NEW b \in Buffers \ {cur}, Become([g EXCEPT !.cur = b, !.insert = FALSE])
        PROVE  hooked'[i]
    BY <2>2, <2>3, <2>6 DEF Become, SaneState, StateType
  <2>7. ASSUME NEW b \in Buffers \ {cur}, j = cur, Become(Entering(g, b))
        PROVE  hooked'[i]
    <3>1. b \in 0..MaxTerms /\ (b # 0 => g.loaded[b])  BY <2>2, <2>7, OtherBuffer
    <3>2. SameTerminals(Entering(g, b), g)  BY <1>1, <2>2, <3>1, EnteringSane
    <3> QED  BY <2>3, <2>7, <3>2 DEF SameTerminals, Become
  <2> QED  BY <1>3, <2>4, <2>5, <2>6, <2>7 DEF g, s
<1>4. ASSUME NEW j \in Terms, Close(j) PROVE hooked'[i]
  BY <1>3, <1>4, Zenon DEF Close
<1>5. CASE AutoClose
  <2>1. cur \in Terms  BY <1>5, CurLoaded DEF AutoClose, Polls
  <2> QED  BY <1>3, <1>5, <2>1, Zenon DEF AutoClose
<1>6. ASSUME NEW j \in Terms, Delete(j) PROVE hooked'[i]
  \* Deleting in a state t in which i is not current
  <2>1. ASSUME NEW t, SaneState(t, opened), t.loaded = loaded, t.hooked = hooked, t.cur # i
        PROVE  LET g == Gone(Unloading(t, j), j)
               IN  /\ SaneState(g, opened) /\ (i # j => g.hooked[i]) /\ ~g.loaded[j]
                   /\ \A k \in Terms : k # j => g.loaded[k] = loaded[k]
    <3> DEFINE u == Unloading(t, j)
    <3>1. SaneState(u, opened) /\ u.loaded = loaded /\ u.hooked[i]
      BY <1>1, <2>1, UnloadingSane
    <3> HIDE DEF u
    <3>2. /\ SaneState(Gone(u, j), opened) /\ (i # j => Gone(u, j).hooked[i])
          /\ ~Gone(u, j).loaded[j]
          /\ \A k \in Terms : k # j => Gone(u, j).loaded[k] = u.loaded[k]
      BY ONLY <1>1, <3>1, GoneSane, j \in Terms, i \in Terms
    <3> QED  BY <3>1, <3>2 DEF u
  <2>2. ASSUME NEW t, SaneState(t, opened), t.loaded = loaded, t.hooked = hooked, t.cur # i,
               Become(Gone(Unloading(t, j), j))
        PROVE  hooked'[i]
    <3> DEFINE g == Gone(Unloading(t, j), j)
    <3>1. (i # j => g.hooked[i]) /\ ~g.loaded[j]  BY <2>1, <2>2
    <3>2. loaded' = g.loaded /\ hooked' = g.hooked  BY <2>2 DEF Become
    <3> HIDE DEF g
    <3> QED  BY <3>1, <3>2
  <2> DEFINE l == Leaving(Here)
  <2>3. SaneState(l, opened) /\ l.loaded = loaded /\ l.hooked = hooked /\ l.cur = cur
    BY <1>1, LeavingSane DEF SameTerminals, Here
  <2> HIDE DEF l
  <2>4. CASE Become(Gone(Unloading(Here, j), j))
    <3>1. Here.loaded = loaded /\ Here.hooked = hooked /\ Here.cur # i  BY DEF Here
    <3> QED  BY <2>2, <2>4, <3>1
  <2>5. ASSUME j = cur, NEW b \in Buffers \ {cur},
               Become(Entering(Gone(Unloading(l, j), j), b))
        PROVE  hooked'[i]
    <3> DEFINE g == Gone(Unloading(l, j), j)
    <3>1. /\ SaneState(g, opened) /\ g.hooked[i]
          /\ \A k \in Terms : k # j => g.loaded[k] = loaded[k]
      BY <2>1, <2>3, <2>5
    <3>2. Become(Entering(g, b))  BY <2>5
    <3> HIDE DEF g
    <3>3. b \in 0..MaxTerms /\ (b # 0 => g.loaded[b])  BY <2>5, <3>1, OtherBuffer
    <3>4. SameTerminals(Entering(g, b), g)  BY <1>1, <3>1, <3>3, EnteringSane
    <3> QED  BY <3>1, <3>2, <3>4 DEF SameTerminals, Become
  <2>6. ASSUME j = cur, NEW b \in Buffers \ {cur},
               Become(Gone(Unloading(Entering(l, b), j), j))
        PROVE  hooked'[i]
    <3> DEFINE t == Entering(l, b)
               u == Unloading(t, j)
    <3>1. b \in 0..MaxTerms /\ (b # 0 => l.loaded[b])  BY <2>3, OtherBuffer
    <3>2. SaneState(t, opened) /\ t.loaded = loaded /\ t.hooked = hooked /\ t.cur = b
      BY <1>1, <2>3, <3>1, EnteringSane DEF SameTerminals
    <3>3. Become(Gone(Unloading(t, j), j))  BY <2>6
    <3> HIDE DEF t
    <3>4. SaneState(u, opened) /\ u.cur = b  BY <1>1, <3>2, UnloadingSane
    <3>5. Become(Gone(u, j))  BY <3>3
    <3> HIDE DEF u
    <3>6. cur' = b  BY <1>1, <3>4, <3>5, GoneSane DEF Become
    <3> QED  BY <2>2, <3>2, <3>3, <3>6
  <2> QED  BY <1>6, <2>4, <2>5, <2>6 DEF Delete, l
<1>7. CASE Toggle  BY <1>2, <1>7 DEF Toggle
<1> QED
  BY <1>4, <1>5, <1>6, <1>7, HooksStay
  DEF Next, InsertMode, AutoRead, ReadAll, Read, Output, Exit, vars, termVars

\* With any number of terminals, closing or deleting one unhooks no other that is hidden.
THEOREM HiddenStays == Spec => HiddenStaysTerminal
<1>1. IInv /\ [Next]_vars =>
        \A i \in Terms : hooked[i] /\ ~hooked'[i] /\ loaded'[i] => i \in {cur, cur'}
  BY HiddenHooked
<1> QED  BY Invariant, <1>1, PTL DEF Spec, HiddenStaysTerminal
=============================================================================
