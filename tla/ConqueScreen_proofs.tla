------------------------- MODULE ConqueScreen_proofs -------------------------
(***************************************************************************)
(* Proofs about the rows of the Unix terminal, for every set of heights    *)
(* and every buffer.  First what each access of ConqueScreen returns, for  *)
(* any row (Grows) and for a row of a screen at the end of the buffer      *)
(* (OnScreen); from them the types, the cursor and its region, where the   *)
(* screen is in the buffer (ScreenInv), and what a step of a read may      *)
(* never do (PlaysWell).                                                   *)
(***************************************************************************)
EXTENDS ConqueScreen, IntervalInduction, SequenceTheorems, TLAPS

\* bound() returns a value between its bounds, if there is one.
LEMMA BoundBetween ==
    ASSUME NEW val \in Int, NEW min \in Int, NEW max \in Int, min <= max
    PROVE  Bound(val, min, max) \in min..max
BY DEF Bound

\* Heights of the window are positive.
LEMMA HeightsAreRows == Heights \subseteq Nat \ {0} /\ InitHeight \in Heights
BY ConqueScreenAssumption

-----------------------------------------------------------------------------
(* Screens: what each access returns, for any row.                           *)

Screens == [buf : Seq(BOOLEAN), top : Nat \ {0}, ok : BOOLEAN]

\* Lines of sequences that the accesses put together.
LEMMA ReplaceLine ==
    ASSUME NEW s \in Screens, NEW n \in 1..Len(s.buf), NEW text \in BOOLEAN
    PROVE  LET t == [s EXCEPT !.buf[n] = text]
           IN  /\ t \in Screens /\ t.top = s.top /\ t.ok = s.ok /\ Len(t.buf) = Len(s.buf)
               /\ \A i \in 1..Len(s.buf) : t.buf[i] = IF i = n THEN text ELSE s.buf[i]
<1> DEFINE b == [s.buf EXCEPT ![n] = text]
<1>1. s.buf \in Seq(BOOLEAN)  BY DEF Screens
<1>2. /\ b \in Seq(BOOLEAN) /\ Len(b) = Len(s.buf)
      /\ \A i \in 1..Len(s.buf) : b[i] = IF i = n THEN text ELSE s.buf[i]
  BY <1>1, ExceptSeq
<1>3. [s EXCEPT !.buf[n] = text] = [s EXCEPT !.buf = b]  OBVIOUS
<1> HIDE DEF b
<1> QED  BY <1>2, <1>3 DEF Screens

LEMMA AppendOne ==
    ASSUME NEW s \in Screens, NEW text \in BOOLEAN
    PROVE  LET t == [s EXCEPT !.buf = Append(s.buf, text)]
           IN  /\ t \in Screens /\ t.top = s.top /\ t.ok = s.ok
               /\ Len(t.buf) = Len(s.buf) + 1
               /\ \A i \in 1..Len(s.buf) : t.buf[i] = s.buf[i]
<1>1. s.buf \in Seq(BOOLEAN)  BY DEF Screens
<1> DEFINE b == Append(s.buf, text)
<1>2. /\ b \in Seq(BOOLEAN) /\ Len(b) = Len(s.buf) + 1
      /\ \A i \in 1..Len(s.buf) : b[i] = s.buf[i]
  BY <1>1, AppendProperties
<1> HIDE DEF b
<1> QED  BY <1>2 DEF Screens, b

LEMMA LengthOfScreen == \A s \in Screens : Len(s.buf) \in Nat
BY LenProperties DEF Screens

\* append either replaces the line below the screen and scrolls, or adds a line and
\* scrolls if the screen was full.
LEMMA AppendLineFacts ==
    ASSUME NEW s \in Screens, screenHeight \in Nat \ {0}
    PROVE  LET t == AppendLine(s)
           IN  /\ t \in Screens /\ t.ok = s.ok
               /\ Full(s) => /\ Len(t.buf) = Len(s.buf) /\ t.top = s.top + 1
                             /\ \A i \in 1..Len(s.buf) - 1 : t.buf[i] = s.buf[i]
               /\ ~Full(s) => /\ Len(t.buf) = Len(s.buf) + 1
                              /\ t.top = IF Len(s.buf) = s.top + screenHeight - 1
                                         THEN s.top + 1 ELSE s.top
                              /\ \A i \in 1..Len(s.buf) : t.buf[i] = s.buf[i]
<1>1. Len(s.buf) \in Nat /\ s.top \in Nat \ {0} /\ s.buf \in Seq(BOOLEAN)
  BY LengthOfScreen DEF Screens
<1>no. PICK no \in BOOLEAN : no = FALSE  OBVIOUS
<1>2. CASE Full(s)
  <2> DEFINE b == [s.buf EXCEPT ![Len(s.buf)] = no]
  <2>1. Len(s.buf) \in 1..Len(s.buf)  BY <1>1, <1>2 DEF Full
  <2>4. /\ b \in Seq(BOOLEAN) /\ Len(b) = Len(s.buf)
        /\ \A i \in 1..Len(s.buf) : b[i] = IF i = Len(s.buf) THEN no ELSE s.buf[i]
    BY <1>1, <2>1, ExceptSeq
  <2>2. \A i \in 1..Len(s.buf) - 1 : b[i] = s.buf[i]
    <3> HIDE DEF b
    <3> QED  BY <1>1, <2>4
  <2>3. AppendLine(s) = [s EXCEPT !.buf = b, !.top = IF Len(b) > s.top + screenHeight - 1
                                                     THEN s.top + 1 ELSE s.top]
    BY <1>2, <1>no DEF AppendLine
  <2> HIDE DEF b
  <2>5. /\ AppendLine(s) \in Screens /\ AppendLine(s).buf = b /\ AppendLine(s).ok = s.ok
        /\ AppendLine(s).top = s.top + 1
    <3>1. Len(b) > s.top + screenHeight - 1  BY <1>2, <2>4 DEF Full
    <3> DEFINE n == s.top + 1
    <3>2. n \in Nat \ {0}  BY <1>1
    <3>3. AppendLine(s) = [s EXCEPT !.buf = b, !.top = n]  BY <2>3, <3>1
    <3> HIDE DEF n
    <3>4. /\ AppendLine(s) \in Screens /\ AppendLine(s).buf = b /\ AppendLine(s).ok = s.ok
          /\ AppendLine(s).top = n
      BY <1>1, <2>4, <3>2, <3>3 DEF Screens
    <3> QED  BY <3>4 DEF n
  <2> QED  BY <1>1, <1>2, <2>2, <2>4, <2>5
<1>3. CASE ~Full(s)
  <2> DEFINE b == Append(s.buf, no)
  <2>1. /\ b \in Seq(BOOLEAN) /\ Len(b) = Len(s.buf) + 1
        /\ \A i \in 1..Len(s.buf) : b[i] = s.buf[i]
    BY <1>1, AppendProperties
  <2>2. AppendLine(s) = [s EXCEPT !.buf = b, !.top = IF Len(b) > s.top + screenHeight - 1
                                                     THEN s.top + 1 ELSE s.top]
    BY <1>3, <1>no DEF AppendLine
  <2> HIDE DEF b
  <2> DEFINE n == IF Len(s.buf) = s.top + screenHeight - 1 THEN s.top + 1 ELSE s.top
  <2>3. /\ AppendLine(s) \in Screens /\ AppendLine(s).buf = b /\ AppendLine(s).ok = s.ok
        /\ AppendLine(s).top = n
    <3>1. n = IF Len(b) > s.top + screenHeight - 1 THEN s.top + 1 ELSE s.top
      BY <1>1, <1>3, <2>1 DEF Full
    <3>2. n \in Nat \ {0}  BY <1>1
    <3> HIDE DEF n
    <3>3. AppendLine(s) = [s EXCEPT !.buf = b, !.top = n]  BY <2>2, <3>1
    <3> QED  BY <1>1, <2>1, <3>2, <3>3 DEF Screens
  <2> QED  BY <1>1, <1>3, <2>1, <2>3
<1> QED  BY <1>2, <1>3

\* The loop of __getitem__ has a state after each of its rounds.
LEMMA AppendLinesRounds ==
    ASSUME NEW s, NEW k \in Nat
    PROVE  \E f : /\ f[0] = s /\ \A i \in 1..k : f[i] = AppendLine(f[i - 1])
                  /\ AppendLines(s, k) = f[k]
<1> DEFINE Rounds(g, n) == g = [i \in 0..n |-> IF i = 0 THEN s ELSE AppendLine(g[i - 1])]
           S == {n \in 0..k : \E g : Rounds(g, n)}
<1>1. 0 \in S
  <2>1. Rounds([i \in 0..0 |-> s], 0)  OBVIOUS
  <2> HIDE DEF Rounds
  <2> QED  BY <2>1
<1>2. ASSUME NEW n \in 0..k - 1, n \in S PROVE n + 1 \in S
  <2>1. PICK g : Rounds(g, n)  BY <1>2
  <2> DEFINE h == [i \in 0..n + 1 |-> IF i <= n THEN g[i] ELSE AppendLine(g[n])]
  <2>2. /\ \A i \in 0..n : h[i] = g[i]
        /\ g[0] = s /\ \A i \in 1..n : g[i] = AppendLine(g[i - 1])
    BY <2>1
  <2>3. h[n + 1] = AppendLine(h[n])  BY <2>2
  <2>4. \A i \in 0..n + 1 : h[i] = IF i = 0 THEN s ELSE AppendLine(h[i - 1])
    <3> SUFFICES ASSUME NEW i \in 0..n + 1
                 PROVE  h[i] = IF i = 0 THEN s ELSE AppendLine(h[i - 1])
      OBVIOUS
    <3>1. CASE i = n + 1  BY <2>3, <3>1
    <3>2. CASE i = 0      BY <2>2, <3>2
    <3>3. CASE i \in 1..n
      <4>1. h[i] = g[i] /\ h[i - 1] = g[i - 1]  BY <2>2, <3>3
      <4> QED  BY <2>2, <3>3, <4>1
    <3> QED  BY <3>1, <3>2, <3>3
  <2>5. Rounds(h, n + 1)
    <3>1. h = [i \in 0..n + 1 |-> h[i]]  OBVIOUS
    <3> HIDE DEF h
    <3> QED  BY <2>4, <3>1
  <2> HIDE DEF Rounds
  <2> QED  BY <2>5
<1>3. k \in S
  <2> HIDE DEF S
  <2>1. \A n \in 0..k : n \in S  BY <1>1, <1>2, IntervalInduction
  <2> QED  BY <2>1
<1> DEFINE f == CHOOSE g : Rounds(g, k)
<1>4. Rounds(f, k)  BY <1>3
<1>5. AppendLines(s, k) = f[k]  BY DEF AppendLines
<1> HIDE DEF f
<1>6. f[0] = s /\ \A i \in 1..k : f[i] = AppendLine(f[i - 1])  BY <1>4
<1> QED  BY <1>5, <1>6

-----------------------------------------------------------------------------
(* Screens that lie at the end of the buffer.                                *)

Rightly(s) == s \in Screens /\ Len(s.buf) \in s.top..s.top + screenHeight

\* t is s after accesses to rows of the screen: the screen did not move, what is above it
\* stays, lines are not lost, no text comes to the line below it, and on a filled screen
\* nothing is raised.
OnScreen(s, t) ==
    /\ Rightly(t) /\ t.top = s.top /\ Len(t.buf) >= Len(s.buf)
    /\ \A i \in 1..s.top - 1 : t.buf[i] = s.buf[i]
    /\ Len(t.buf) = s.top + screenHeight /\ t.buf[Len(t.buf)] =>
          Len(s.buf) = Len(t.buf) /\ s.buf[Len(t.buf)]
    /\ s.ok /\ Len(s.buf) >= s.top + screenHeight - 1 => t.ok

\* Rows of the screen
ScreenRows == 1..screenHeight

LEMMA OnScreenReflexive == ASSUME NEW s, Rightly(s) PROVE OnScreen(s, s)
BY LengthOfScreen DEF OnScreen, Rightly, Screens

LEMMA OnScreenTransitive ==
    ASSUME NEW s, NEW t, NEW u, screenHeight \in Nat \ {0}, Rightly(s), OnScreen(s, t),
           OnScreen(t, u)
    PROVE  OnScreen(s, u)
<1>1. /\ Len(s.buf) \in Nat /\ Len(t.buf) \in Nat /\ Len(u.buf) \in Nat
      /\ s.top \in Nat \ {0} /\ t.top = s.top /\ u.top = s.top
  BY LengthOfScreen DEF OnScreen, Rightly, Screens
<1> QED  BY <1>1 DEF OnScreen, Rightly

\* The numbers below one of an interval are in the interval.
LEMMA LowerPart == ASSUME NEW a \in Nat, NEW b \in Nat, a <= b PROVE 1..a - 1 \subseteq 1..b
OBVIOUS

\* Up to the end of the screen the loop of __getitem__ adds lines and does not scroll.
LEMMA AppendLinesOnScreen ==
    ASSUME screenHeight \in Nat \ {0}, NEW s, Rightly(s), NEW k \in Nat,
           k = 0 \/ Len(s.buf) + k <= s.top + screenHeight - 1
    PROVE  LET t == AppendLines(s, k)
           IN  OnScreen(s, t) /\ t.ok = s.ok /\ Len(t.buf) = Len(s.buf) + k
<1>1. PICK f : /\ f[0] = s /\ \A i \in 1..k : f[i] = AppendLine(f[i - 1])
               /\ AppendLines(s, k) = f[k]
  BY AppendLinesRounds
<1> DEFINE P(t, i) == OnScreen(s, t) /\ t.ok = s.ok /\ Len(t.buf) = Len(s.buf) + i
           S == {i \in 0..k : P(f[i], i)}
<1>2. Len(s.buf) \in Nat /\ s.top \in Nat \ {0}  BY LengthOfScreen DEF Rightly, Screens
<1>3. 0 \in S  BY <1>1, <1>2, OnScreenReflexive
<1>4. ASSUME NEW i \in 0..k - 1, i \in S PROVE i + 1 \in S
  <2>0. i \in Nat  BY <1>4
  <2>1. P(f[i], i)  BY <1>4
  <2>2. f[i + 1] = AppendLine(f[i])  BY <1>1
  <2> DEFINE t == f[i]
             u == AppendLine(t)
  <2>3. t \in Screens /\ t.top = s.top /\ Len(t.buf) = Len(s.buf) + i /\ Rightly(t)
        /\ Len(t.buf) >= t.top
    BY <1>2, <2>1 DEF OnScreen, Rightly
  <2>4. ~Full(t) /\ Len(t.buf) # t.top + screenHeight - 1  BY <1>2, <2>3 DEF Full
  <2> HIDE DEF t
  <2>5. /\ u \in Screens /\ u.ok = t.ok /\ Len(u.buf) = Len(t.buf) + 1 /\ u.top = t.top
        /\ \A j \in 1..Len(t.buf) : u.buf[j] = t.buf[j]
    BY <2>3, <2>4, AppendLineFacts
  <2> HIDE DEF u
  <2>6. OnScreen(t, u)
    <3>1. \A j \in 1..t.top - 1 : u.buf[j] = t.buf[j]
      <4>1. t.top \in Nat /\ Len(t.buf) \in Nat  BY <2>3, LengthOfScreen DEF Screens
      <4>2. 1..t.top - 1 \subseteq 1..Len(t.buf)  BY <2>3, <4>1, LowerPart
      <4> QED  BY <2>5, <4>2
    <3>2. Rightly(u) /\ Len(u.buf) # u.top + screenHeight /\ Len(u.buf) >= Len(t.buf)
      BY <1>2, <2>3, <2>4, <2>5 DEF Rightly
    <3> QED  BY <2>5, <3>1, <3>2 DEF OnScreen
  <2>7. P(u, i + 1)
    <3>1. OnScreen(s, t) /\ t.ok = s.ok  BY <2>1 DEF t
    <3>2. OnScreen(s, u)  BY <2>6, <3>1, OnScreenTransitive
    <3>3. Len(u.buf) = Len(t.buf) + 1 /\ Len(t.buf) = Len(s.buf) + i  BY <2>3, <2>5
    <3>4. Len(u.buf) = Len(s.buf) + (i + 1)
      <4> DEFINE a == Len(s.buf)
                 b == Len(t.buf)
                 c == Len(u.buf)
      <4>1. a \in Nat /\ i \in Nat /\ c = b + 1 /\ b = a + i  BY <1>2, <2>0, <3>3
      <4> HIDE DEF a, b, c
      <4>2. c = a + (i + 1)  BY <4>1
      <4> QED  BY <4>2 DEF a, b, c
    <3> QED  BY <2>5, <3>1, <3>2, <3>4
  <2>8. f[i + 1] = u  BY <2>2 DEF t, u
  <2> HIDE DEF P
  <2> QED  BY <2>7, <2>8
<1>5. k \in S
  <2> HIDE DEF S
  <2>1. \A i \in 0..k : i \in S  BY <1>3, <1>4, IntervalInduction
  <2> QED  BY <2>1
<1> QED  BY <1>1, <1>5
-----------------------------------------------------------------------------
(* The accesses: what they return for any row (a screen), and for a row of a *)
(* screen at the end of the buffer (OnScreen).                               *)

\* t is a screen that has at least the lines of s: no access takes lines away.
Grows(s, t) == t \in Screens /\ Len(t.buf) >= Len(s.buf)

LEMMA GrowsReflexive == ASSUME NEW s \in Screens PROVE Grows(s, s)
BY LengthOfScreen DEF Grows

LEMMA GrowsTransitive ==
    ASSUME NEW s \in Screens, NEW t, NEW u, Grows(s, t), Grows(t, u)
    PROVE  Grows(s, u)
<1>1. Len(s.buf) \in Nat /\ Len(t.buf) \in Nat /\ Len(u.buf) \in Nat
  BY LengthOfScreen DEF Grows
<1> QED  BY <1>1 DEF Grows

LEMMA AppendLinesType ==
    ASSUME screenHeight \in Nat \ {0}, NEW s \in Screens, NEW k \in Nat
    PROVE  Grows(s, AppendLines(s, k))
<1>1. PICK f : /\ f[0] = s /\ \A i \in 1..k : f[i] = AppendLine(f[i - 1])
               /\ AppendLines(s, k) = f[k]
  BY AppendLinesRounds
<1> DEFINE S == {i \in 0..k : Grows(s, f[i])}
<1>2. 0 \in S  BY <1>1, GrowsReflexive
<1>3. ASSUME NEW i \in 0..k - 1, i \in S PROVE i + 1 \in S
  <2>1. Grows(s, f[i]) /\ f[i] \in Screens /\ f[i + 1] = AppendLine(f[i])
    BY <1>1, <1>3 DEF Grows
  <2>2. Grows(f[i], AppendLine(f[i]))
    <3> DEFINE t == f[i]
               u == AppendLine(t)
    <3>1. t \in Screens  BY <2>1
    <3> HIDE DEF t
    <3>2. Len(t.buf) \in Nat  BY <3>1, LengthOfScreen
    <3>3. u \in Screens /\ (Len(u.buf) = Len(t.buf) \/ Len(u.buf) = Len(t.buf) + 1)
      BY <3>1, AppendLineFacts
    <3> HIDE DEF u
    <3>4. Grows(t, u)  BY <3>2, <3>3 DEF Grows
    <3> QED  BY <3>4 DEF t, u
  <2>3. Grows(s, f[i + 1])  BY <2>1, <2>2, GrowsTransitive
  <2> QED  BY <2>3
<1>4. k \in S
  <2> HIDE DEF S
  <2>1. \A i \in 0..k : i \in S  BY <1>2, <1>3, IntervalInduction
  <2> QED  BY <2>1
<1> QED  BY <1>1, <1>4

LEMMA LargerThanZero ==
    ASSUME NEW a \in Int
    PROVE  /\ Larger(a, 0) \in Nat /\ Larger(a, 0) >= a
           /\ Larger(a, 0) = 0 \/ Larger(a, 0) = a
BY DEF Larger

LEMMA LineInt == ASSUME NEW s \in Screens, NEW row \in Int PROVE Line(s, row) \in Int
BY DEF Line, Screens

\* A line that is there is named by its number.
LEMMA PlaceOfLine == ASSUME NEW n \in Nat \ {0}, NEW len \in Nat PROVE Place(n, len) = n
BY DEF Place

LEMMA GetType ==
    ASSUME screenHeight \in Nat \ {0}, NEW s \in Screens, NEW row \in Int
    PROVE  Grows(s, Get(s, row))
<1> DEFINE k == Larger(Line(s, row) - Len(s.buf), 0)
           t == AppendLines(s, k)
           yes == Place(Line(s, row), Len(t.buf)) \in 1..Len(t.buf)
<1>0. Line(s, row) \in Int /\ Len(s.buf) \in Nat  BY LineInt, LengthOfScreen
<1>a. Line(s, row) - Len(s.buf) \in Int  BY <1>0
<1>1. k \in Nat  BY <1>a, LargerThanZero
<1>2. Grows(s, t) /\ t \in Screens  BY <1>1, AppendLinesType DEF Grows
<1>3. Get(s, row) = IF s.ok THEN [t EXCEPT !.ok = yes] ELSE s  BY DEF Get
<1>4. yes \in BOOLEAN  OBVIOUS
<1> HIDE DEF t, yes
<1>5. [t EXCEPT !.ok = yes] \in Screens /\ [t EXCEPT !.ok = yes].buf = t.buf
  BY <1>2, <1>4 DEF Screens
<1>6. Grows(s, [t EXCEPT !.ok = yes])  BY <1>2, <1>5 DEF Grows
<1> QED  BY <1>3, <1>6, GrowsReflexive

\* A row of the screen can be read; its line then exists.
LEMMA GetOnScreen ==
    ASSUME screenHeight \in Nat \ {0}, NEW s, Rightly(s), NEW row \in ScreenRows
    PROVE  LET t == Get(s, row)
           IN  OnScreen(s, t) /\ t.ok = s.ok /\ (s.ok => Len(t.buf) >= Line(s, row))
<1> DEFINE n == Line(s, row)
           k == Larger(n - Len(s.buf), 0)
           t == AppendLines(s, k)
           yes == Place(n, Len(t.buf)) \in 1..Len(t.buf)
<1>1. s \in Screens /\ Len(s.buf) \in Nat /\ s.top \in Nat \ {0}
      /\ Len(s.buf) \in s.top..s.top + screenHeight
  BY LengthOfScreen DEF Rightly, Screens
<1>2. n \in Nat \ {0} /\ n <= s.top + screenHeight - 1  BY <1>1 DEF Line, ScreenRows
<1> HIDE DEF n
<1>3. k \in Nat /\ Len(s.buf) + k >= n /\ (k = 0 \/ Len(s.buf) + k <= s.top + screenHeight - 1)
  <2> DEFINE a == Len(s.buf)
  <2>1. a \in Nat /\ n - a \in Int  BY <1>1, <1>2
  <2> HIDE DEF a
  <2>2. k \in Nat /\ k >= n - a /\ (k = 0 \/ k = n - a)  BY <2>1, LargerThanZero DEF a
  <2> HIDE DEF k
  <2>3. k \in Nat /\ a + k >= n /\ (k = 0 \/ a + k <= s.top + screenHeight - 1)
    BY <1>1, <1>2, <2>1, <2>2
  <2> QED  BY <2>3 DEF a
<1> HIDE DEF k
<1>4. OnScreen(s, t) /\ t.ok = s.ok /\ Len(t.buf) = Len(s.buf) + k
  BY <1>3, AppendLinesOnScreen
<1>5. yes
  <2>1. Len(t.buf) \in Nat  BY <1>1, <1>3, <1>4
  <2>2. Place(n, Len(t.buf)) = n  BY <1>2, <2>1, PlaceOfLine
  <2> QED  BY <1>1, <1>2, <1>3, <1>4, <2>2
<1>6. Get(s, row) = IF s.ok THEN [t EXCEPT !.ok = yes] ELSE s  BY DEF Get, n, k
<1>7. t \in Screens  BY <1>4 DEF OnScreen, Rightly
<1> HIDE DEF t, yes
<1>8. Get(s, row) = IF s.ok THEN t ELSE s
  <2>1. CASE s.ok
    <3>1. t.ok = TRUE  BY <1>4, <2>1
    <3>2. [t EXCEPT !.ok = TRUE] = t  BY <1>7, <3>1 DEF Screens
    <3>3. yes = TRUE  BY <1>5 DEF yes
    <3> QED  BY <1>6, <2>1, <3>2, <3>3
  <2>2. CASE ~s.ok  BY <1>6, <2>2
  <2> QED  BY <2>1, <2>2
<1>9. OnScreen(s, s)  BY OnScreenReflexive
<1>10. Len(t.buf) >= n  BY <1>3, <1>4
<1> QED  BY <1>4, <1>8, <1>9, <1>10 DEF n

\* What the cases of __setitem__ return.
LEMMA SetCases ==
    ASSUME NEW s, NEW row, NEW text
    PROVE  /\ ~s.ok => Set(s, row, text) = s
           /\ LET n == Place(Line(s, row), Len(s.buf))
              IN  /\ s.ok /\ n \in 1..Len(s.buf) => Set(s, row, text) = [s EXCEPT !.buf[n] = text]
                  /\ s.ok /\ n \notin 1..Len(s.buf) /\ n = Len(s.buf) + 1 =>
                        Set(s, row, text) = [s EXCEPT !.buf = Append(s.buf, text)]
                  /\ s.ok /\ n \notin 1..Len(s.buf) /\ n # Len(s.buf) + 1 =>
                        Set(s, row, text) = [s EXCEPT !.ok = FALSE]
BY DEF Set

LEMMA SetType ==
    ASSUME NEW s \in Screens, NEW row \in Int, NEW text \in BOOLEAN
    PROVE  Grows(s, Set(s, row, text))
<1> DEFINE n == Place(Line(s, row), Len(s.buf))
<1>0. Len(s.buf) \in Nat  BY LengthOfScreen
<1>1. [s EXCEPT !.ok = FALSE] \in Screens /\ [s EXCEPT !.ok = FALSE].buf = s.buf
  BY DEF Screens
<1>2. CASE ~s.ok  BY <1>2, SetCases, GrowsReflexive
<1>3. CASE s.ok /\ n \in 1..Len(s.buf)
  <2> DEFINE t == [s EXCEPT !.buf[n] = text]
  <2>1. Set(s, row, text) = t  BY <1>3, SetCases
  <2>2. n \in 1..Len(s.buf)  BY <1>3
  <2> HIDE DEF n
  <2>3. t \in Screens /\ Len(t.buf) = Len(s.buf)  BY <2>2, ReplaceLine
  <2> HIDE DEF t
  <2> QED  BY <1>0, <2>1, <2>3 DEF Grows
<1>4. CASE s.ok /\ n \notin 1..Len(s.buf) /\ n = Len(s.buf) + 1
  <2> DEFINE t == [s EXCEPT !.buf = Append(s.buf, text)]
  <2>1. Set(s, row, text) = t  BY <1>4, SetCases
  <2>2. t \in Screens /\ Len(t.buf) = Len(s.buf) + 1  BY AppendOne
  <2> HIDE DEF t
  <2> QED  BY <1>0, <2>1, <2>2 DEF Grows
<1>5. CASE s.ok /\ n \notin 1..Len(s.buf) /\ n # Len(s.buf) + 1
  <2>1. Set(s, row, text) = [s EXCEPT !.ok = FALSE]  BY <1>5, SetCases
  <2> QED  BY <1>0, <1>1, <2>1 DEF Grows
<1> QED  BY <1>2, <1>3, <1>4, <1>5

\* A row of the screen is written where it is, or added at the end of the buffer.
LEMMA SetOnScreen ==
    ASSUME screenHeight \in Nat \ {0}, NEW s, Rightly(s), NEW row \in ScreenRows,
           NEW text \in BOOLEAN
    PROVE  LET t == Set(s, row, text)
           IN  OnScreen(s, t) /\ (s.ok /\ Len(s.buf) >= Line(s, row) - 1 => t.ok)
<1> DEFINE n == Line(s, row)
           t == Set(s, row, text)
<1>1. s \in Screens /\ Len(s.buf) \in Nat /\ s.top \in Nat \ {0}
      /\ Len(s.buf) >= s.top /\ Len(s.buf) <= s.top + screenHeight
  BY LengthOfScreen DEF Rightly, Screens
<1>2. n \in Nat \ {0} /\ n >= s.top /\ n <= s.top + screenHeight - 1
  BY <1>1 DEF Line, ScreenRows
<1>place. Place(Line(s, row), Len(s.buf)) = n  BY <1>1, <1>2, PlaceOfLine
<1>3. CASE ~s.ok
  <2>1. t = s  BY <1>3, <1>place, SetCases
  <2> QED  BY <1>3, <2>1, OnScreenReflexive
<1>4. CASE s.ok /\ n \in 1..Len(s.buf)
  <2>1. t = [s EXCEPT !.buf[n] = text]  BY <1>4, <1>place, SetCases
  <2> HIDE DEF t, n
  <2>2. /\ t \in Screens /\ t.top = s.top /\ t.ok = s.ok /\ Len(t.buf) = Len(s.buf)
        /\ \A i \in 1..Len(s.buf) : t.buf[i] = IF i = n THEN text ELSE s.buf[i]
    <3>1. n \in 1..Len(s.buf)  BY <1>4
    <3> QED  BY <1>1, <2>1, <3>1, ReplaceLine
  <2>3. \A i \in 1..s.top - 1 : t.buf[i] = s.buf[i]
    <3>1. n \in Nat /\ s.top \in Nat /\ s.top <= n /\ s.top <= Len(s.buf) /\ Len(s.buf) \in Nat
      BY <1>1, <1>2
    <3>2. 1..s.top - 1 \subseteq 1..Len(s.buf)  BY <3>1, LowerPart
    <3>3. \A i \in 1..s.top - 1 : i # n  BY <3>1
    <3> QED  BY <2>2, <3>2, <3>3
  <2>4. Len(t.buf) = s.top + screenHeight => t.buf[Len(t.buf)] = s.buf[Len(t.buf)]
    BY <1>1, <1>2, <2>2
  <2>5. Rightly(t)  BY <1>1, <2>2 DEF Rightly
  <2>6. Len(t.buf) >= Len(s.buf)  BY <1>1, <2>2
  <2>7. OnScreen(s, t)  BY <1>4, <2>2, <2>3, <2>4, <2>5, <2>6 DEF OnScreen
  <2> QED  BY <1>4, <2>2, <2>7 DEF t
<1>5. CASE s.ok /\ n \notin 1..Len(s.buf) /\ n = Len(s.buf) + 1
  <2>1. t = [s EXCEPT !.buf = Append(s.buf, text)]  BY <1>5, <1>place, SetCases
  <2> HIDE DEF t, n
  <2>2. /\ t \in Screens /\ t.top = s.top /\ t.ok = s.ok /\ Len(t.buf) = Len(s.buf) + 1
        /\ \A i \in 1..Len(s.buf) : t.buf[i] = s.buf[i]
    BY <1>1, <2>1, AppendOne
  <2>3. \A i \in 1..s.top - 1 : t.buf[i] = s.buf[i]  BY <1>1, <2>2
  <2>4. Len(t.buf) # s.top + screenHeight  BY <1>1, <1>2, <1>5, <2>2
  <2>5. Rightly(t)  BY <1>1, <1>2, <1>5, <2>2 DEF Rightly
  <2>6. Len(t.buf) >= Len(s.buf)  BY <1>1, <2>2
  <2>7. OnScreen(s, t)  BY <1>5, <2>2, <2>3, <2>4, <2>5, <2>6 DEF OnScreen
  <2> QED  BY <1>5, <2>2, <2>7 DEF t
<1>6. CASE s.ok /\ n \notin 1..Len(s.buf) /\ n # Len(s.buf) + 1
  <2>1. t = [s EXCEPT !.ok = FALSE]  BY <1>6, <1>place, SetCases
  <2>2. ~(Len(s.buf) >= n - 1)  BY <1>1, <1>2, <1>6
  <2>3. ~(Len(s.buf) >= s.top + screenHeight - 1)  BY <1>1, <1>2, <2>2
  <2> HIDE DEF t, n
  <2>4. t \in Screens /\ t.top = s.top /\ t.buf = s.buf  BY <1>1, <2>1 DEF Screens
  <2>5. OnScreen(s, t)  BY <1>1, <2>3, <2>4 DEF OnScreen, Rightly
  <2> QED  BY <2>2, <2>5 DEF t, n
<1> QED  BY <1>3, <1>4, <1>5, <1>6

LEMMA RewriteIsSet ==
    ASSUME NEW s, NEW row, NEW keep \in BOOLEAN
    PROVE  \E text \in BOOLEAN : Rewrite(s, row, keep) = Set(Get(s, row), row, text)
BY DEF Rewrite

LEMMA RewriteType ==
    ASSUME screenHeight \in Nat \ {0}, NEW s \in Screens, NEW row \in Int, NEW keep \in BOOLEAN
    PROVE  Grows(s, Rewrite(s, row, keep))
<1>1. PICK text \in BOOLEAN : Rewrite(s, row, keep) = Set(Get(s, row), row, text)
  BY RewriteIsSet
<1>2. Grows(s, Get(s, row)) /\ Get(s, row) \in Screens  BY GetType DEF Grows
<1>3. Grows(Get(s, row), Set(Get(s, row), row, text))  BY <1>2, SetType
<1> QED  BY <1>1, <1>2, <1>3, GrowsTransitive

\* A row of the screen can be read and written again.
LEMMA RewriteOnScreen ==
    ASSUME screenHeight \in Nat \ {0}, NEW s, Rightly(s), NEW row \in ScreenRows,
           NEW keep \in BOOLEAN
    PROVE  OnScreen(s, Rewrite(s, row, keep)) /\ (s.ok => Rewrite(s, row, keep).ok)
<1> DEFINE g == Get(s, row)
<1>1. PICK text \in BOOLEAN : Rewrite(s, row, keep) = Set(g, row, text)  BY RewriteIsSet
<1>2. OnScreen(s, g) /\ g.ok = s.ok /\ (s.ok => Len(g.buf) >= Line(s, row))
  BY GetOnScreen
<1>3. Rightly(g) /\ g.top = s.top  BY <1>2 DEF OnScreen
<1> HIDE DEF g
<1>4. OnScreen(g, Set(g, row, text))
      /\ (g.ok /\ Len(g.buf) >= Line(g, row) - 1 => Set(g, row, text).ok)
  BY <1>3, SetOnScreen
<1>5. OnScreen(s, Set(g, row, text))  BY <1>2, <1>4, OnScreenTransitive
<1>6. s.ok => Len(g.buf) >= Line(g, row) - 1
  <2>1. Line(g, row) = Line(s, row)  BY <1>3 DEF Line
  <2>2. Line(g, row) \in Int /\ Len(g.buf) \in Nat
    BY <1>3, LineInt, LengthOfScreen DEF Rightly, ScreenRows
  <2> QED  BY <1>2, <2>1, <2>2
<1> QED  BY <1>1, <1>2, <1>4, <1>5, <1>6

\* f is the states after each row in a loop of csi_clear_screen.
Blanking(f, s, first, last) ==
    /\ f[first - 1] = s /\ Blank(s, first, last) = f[last]
    /\ \A row \in first..last : f[row] = Set(f[row - 1], row, FALSE)

LEMMA BlankRounds ==
    ASSUME NEW s, NEW first \in Int, NEW last \in Int, last >= first - 1
    PROVE  \E f : Blanking(f, s, first, last)
<1> DEFINE start == first - 1
           Rounds(g, n) ==
               g = [row \in start..n |-> IF row = start THEN s ELSE Set(g[row - 1], row, FALSE)]
           S == {n \in start..last : \E g : Rounds(g, n)}
<1>0. start \in Int /\ start <= last /\ first = start + 1  OBVIOUS
<1>blank. Blank(s, first, last) = (CHOOSE g : Rounds(g, last))[last]  BY DEF Blank
<1> HIDE DEF start
<1>1. start \in S
  <2>1. Rounds([row \in start..start |-> s], start)  BY <1>0
  <2> HIDE DEF Rounds
  <2> QED  BY <1>0, <2>1
<1>2. ASSUME NEW n \in start..last - 1, n \in S PROVE n + 1 \in S
  <2>1. PICK g : Rounds(g, n)  BY <1>2
  <2>0. n \in Int /\ n >= start /\ n + 1 <= last /\ start \in Int  BY <1>0
  <2> DEFINE h == [row \in start..n + 1 |-> IF row <= n THEN g[row] ELSE Set(g[n], n + 1, FALSE)]
  <2>2. /\ \A row \in start..n : h[row] = g[row]
        /\ g[start] = s
        /\ \A row \in start + 1..n : g[row] = Set(g[row - 1], row, FALSE)
    <3>1. \A row \in start..n : row \in start..n + 1 /\ row <= n  BY <2>0
    <3>2. \A row \in start..n : h[row] = g[row]  BY <3>1
    <3> HIDE DEF h
    <3>3. start \in start..n /\ \A row \in start + 1..n : row \in start..n /\ row # start
      BY <2>0
    <3>4. g[start] = s  BY <2>1, <3>3
    <3>5. \A row \in start + 1..n : g[row] = Set(g[row - 1], row, FALSE)  BY <2>1, <3>3
    <3> QED  BY <3>2, <3>4, <3>5
  <2>3. h[n + 1] = Set(h[n], n + 1, FALSE)
    <3>1. n \in start..n + 1 /\ n + 1 \in start..n + 1 /\ ~(n + 1 <= n) /\ n <= n  BY <2>0
    <3> QED  BY <3>1
  <2>4. \A row \in start..n + 1 :
           h[row] = IF row = start THEN s ELSE Set(h[row - 1], row, FALSE)
    <3> SUFFICES ASSUME NEW row \in start..n + 1
                 PROVE  h[row] = IF row = start THEN s ELSE Set(h[row - 1], row, FALSE)
      OBVIOUS
    <3>1. CASE row = n + 1
      <4>1. row # start /\ row - 1 = n  BY <2>0, <3>1
      <4> HIDE DEF h
      <4> QED  BY <2>3, <3>1, <4>1
    <3>2. CASE row = start  BY <2>0, <2>2, <3>2
    <3>3. CASE row \in start + 1..n
      <4>1. h[row] = g[row] /\ h[row - 1] = g[row - 1]  BY <2>0, <2>2, <3>3
      <4> QED  BY <2>0, <2>2, <3>3, <4>1
    <3>4. row = n + 1 \/ row = start \/ row \in start + 1..n  BY <2>0
    <3> QED  BY <3>1, <3>2, <3>3, <3>4
  <2>5. Rounds(h, n + 1)
    <3>1. h = [row \in start..n + 1 |-> h[row]]  OBVIOUS
    <3> HIDE DEF h
    <3> QED  BY <2>4, <3>1
  <2> HIDE DEF Rounds
  <2> QED  BY <2>0, <2>5
<1>3. last \in S
  <2>1. start \in Int /\ last \in start..last  BY <1>0
  <2> HIDE DEF S
  <2>2. \A n \in start..last : n \in S  BY <1>1, <1>2, <2>1, IntervalInduction
  <2> QED  BY <2>1, <2>2
<1> DEFINE f == CHOOSE g : Rounds(g, last)
<1>4. Rounds(f, last)  BY <1>3
<1>5. Blank(s, first, last) = f[last]  BY <1>blank
<1> HIDE DEF f
<1>6. f[start] = s  BY <1>0, <1>4
<1>7. \A row \in first..last : f[row] = Set(f[row - 1], row, FALSE)
  <2>1. \A row \in first..last : row \in start..last /\ row # start  BY <1>0
  <2> QED  BY <1>4, <2>1
<1> QED  BY <1>5, <1>6, <1>7 DEF start, Blanking

LEMMA BlankType ==
    ASSUME NEW s \in Screens, NEW first \in Int, NEW last \in Int, last >= first - 1
    PROVE  Grows(s, Blank(s, first, last))
<1>0. PICK f : Blanking(f, s, first, last)  BY BlankRounds
<1>1. /\ f[first - 1] = s /\ Blank(s, first, last) = f[last]
      /\ \A row \in first..last : f[row] = Set(f[row - 1], row, FALSE)
  BY <1>0 DEF Blanking
<1> DEFINE S == {row \in first - 1..last : Grows(s, f[row])}
<1>2. first - 1 \in S  BY <1>1, GrowsReflexive
<1>3. ASSUME NEW n \in first - 1..last - 1, n \in S PROVE n + 1 \in S
  <2>1. Grows(s, f[n]) /\ f[n] \in Screens  BY <1>3 DEF Grows
  <2>2. n + 1 \in first..last /\ (n + 1) - 1 = n  BY <1>3
  <2>3. f[n + 1] = Set(f[n], n + 1, FALSE)  BY <1>1, <2>2
  <2>4. FALSE \in BOOLEAN /\ n + 1 \in Int  BY <2>2
  <2>5. Grows(f[n], Set(f[n], n + 1, FALSE))  BY <2>1, <2>4, SetType
  <2>6. n + 1 \in first - 1..last  BY <2>2
  <2>7. Grows(s, Set(f[n], n + 1, FALSE))  BY <2>1, <2>5, GrowsTransitive
  <2> QED  BY <2>3, <2>6, <2>7
<1>4. last \in S
  <2>1. first - 1 \in Int /\ last \in first - 1..last  OBVIOUS
  <2> HIDE DEF S
  <2>2. \A n \in first - 1..last : n \in S  BY <1>2, <1>3, <2>1, IntervalInduction
  <2> QED  BY <2>1, <2>2
<1> QED  BY <1>1, <1>4

\* Rows of the screen can be set to ''.
LEMMA BlankOnScreen ==
    ASSUME screenHeight \in Nat \ {0}, NEW s, Rightly(s), NEW first \in ScreenRows,
           NEW last \in 0..screenHeight, last >= first - 1
    PROVE  OnScreen(s, Blank(s, first, last))
<1>0. first \in Int /\ last \in Int  BY DEF ScreenRows
<1>f. PICK f : Blanking(f, s, first, last)  BY <1>0, BlankRounds
<1>1. /\ f[first - 1] = s /\ Blank(s, first, last) = f[last]
      /\ \A row \in first..last : f[row] = Set(f[row - 1], row, FALSE)
  BY <1>f DEF Blanking
<1> DEFINE S == {row \in first - 1..last : OnScreen(s, f[row])}
<1>2. first - 1 \in S  BY <1>0, <1>1, OnScreenReflexive
<1>3. ASSUME NEW n \in first - 1..last - 1, n \in S PROVE n + 1 \in S
  <2>1. OnScreen(s, f[n]) /\ Rightly(f[n])  BY <1>3 DEF OnScreen
  <2>2. n + 1 \in first..last /\ (n + 1) - 1 = n /\ n + 1 \in ScreenRows
    BY <1>0, <1>3 DEF ScreenRows
  <2>3. f[n + 1] = Set(f[n], n + 1, FALSE)  BY <1>1, <2>2
  <2>4. FALSE \in BOOLEAN  OBVIOUS
  <2>5. OnScreen(f[n], Set(f[n], n + 1, FALSE))  BY <2>1, <2>2, <2>4, SetOnScreen
  <2>6. OnScreen(s, Set(f[n], n + 1, FALSE))  BY <2>1, <2>5, OnScreenTransitive
  <2>7. n + 1 \in first - 1..last  BY <1>0, <2>2
  <2> QED  BY <2>3, <2>6, <2>7
<1>4. last \in S
  <2>1. first - 1 \in Int /\ last \in first - 1..last  BY <1>0
  <2> HIDE DEF S
  <2>2. \A n \in first - 1..last : n \in S  BY <1>0, <1>2, <1>3, <2>1, IntervalInduction
  <2> QED  BY <2>1, <2>2
<1> QED  BY <1>1, <1>4
-----------------------------------------------------------------------------
(* Deleting a line and inserting an empty one.                               *)

LEMMA RemoveLine ==
    ASSUME NEW b \in Seq(BOOLEAN), NEW n \in 1..Len(b)
    PROVE  /\ RemoveAt(b, n) \in Seq(BOOLEAN) /\ Len(RemoveAt(b, n)) = Len(b) - 1
           /\ \A i \in 1..n - 1 : RemoveAt(b, n)[i] = b[i]
           /\ \A i \in n..Len(b) - 1 : RemoveAt(b, n)[i] = b[i + 1]
<1> DEFINE p == SubSeq(b, 1, n - 1)
           q == SubSeq(b, n + 1, Len(b))
<1>1. Len(b) \in Nat /\ n \in Nat /\ n >= 1 /\ n <= Len(b)  BY LenProperties
<1>2. \A i \in 1..Len(b) : b[i] \in BOOLEAN  BY ElementOfSeq
<1>3. /\ p \in Seq(BOOLEAN) /\ Len(p) = n - 1
      /\ \A i \in 1..n - 1 : p[i] = b[i]
  <2>1. \A i \in 1..n - 1 : b[i] \in BOOLEAN  BY <1>1, <1>2
  <2>2. /\ p \in Seq(BOOLEAN) /\ Len(p) = (IF 1 <= n - 1 THEN n - 1 - 1 + 1 ELSE 0)
        /\ \A i \in 1..n - 1 - 1 + 1 : p[i] = b[1 + i - 1]
    BY <1>1, <2>1, SubSeqProperties
  <2> HIDE DEF p
  <2> QED  BY <1>1, <2>2
<1>4. /\ q \in Seq(BOOLEAN) /\ Len(q) = Len(b) - n
      /\ \A i \in 1..Len(b) - n : q[i] = b[n + i]
  <2>1. \A i \in n + 1..Len(b) : b[i] \in BOOLEAN  BY <1>1, <1>2
  <2>2. /\ q \in Seq(BOOLEAN)
        /\ Len(q) = (IF n + 1 <= Len(b) THEN Len(b) - (n + 1) + 1 ELSE 0)
        /\ \A i \in 1..Len(b) - (n + 1) + 1 : q[i] = b[(n + 1) + i - 1]
    BY <1>1, <2>1, SubSeqProperties
  <2> HIDE DEF q
  <2> QED  BY <1>1, <2>2
<1>5. RemoveAt(b, n) = p \o q  BY DEF RemoveAt
<1> HIDE DEF p, q
<1>6. /\ p \o q \in Seq(BOOLEAN) /\ Len(p \o q) = Len(p) + Len(q)
      /\ \A i \in 1..Len(p) + Len(q) : (p \o q)[i] = IF i <= Len(p) THEN p[i] ELSE q[i - Len(p)]
  BY <1>3, <1>4, ConcatProperties
<1>7. ASSUME NEW i \in 1..n - 1 PROVE (p \o q)[i] = b[i]
  BY <1>1, <1>3, <1>4, <1>6
<1>8. ASSUME NEW i \in n..Len(b) - 1 PROVE (p \o q)[i] = b[i + 1]
  <2>1. i \in 1..Len(p) + Len(q) /\ ~(i <= Len(p)) /\ i - Len(p) \in 1..Len(b) - n
        /\ n + (i - Len(p)) = i + 1
    BY <1>1, <1>3, <1>4
  <2>2. (p \o q)[i] = q[i - Len(p)]  BY <1>6, <2>1
  <2>3. q[i - Len(p)] = b[n + (i - Len(p))]  BY <1>4, <2>1
  <2> QED  BY <2>1, <2>2, <2>3
<1>9. Len(p \o q) = Len(b) - 1  BY <1>1, <1>3, <1>4, <1>6
<1> QED  BY <1>5, <1>6, <1>7, <1>8, <1>9

LEMMA InsertLine ==
    ASSUME NEW b \in Seq(BOOLEAN), NEW n \in 1..Len(b) + 1, NEW text \in BOOLEAN
    PROVE  /\ InsertAt(b, n, text) \in Seq(BOOLEAN) /\ Len(InsertAt(b, n, text)) = Len(b) + 1
           /\ \A i \in 1..n - 1 : InsertAt(b, n, text)[i] = b[i]
           /\ InsertAt(b, n, text)[n] = text
           /\ \A i \in n + 1..Len(b) + 1 : InsertAt(b, n, text)[i] = b[i - 1]
<1> DEFINE p == SubSeq(b, 1, n - 1)
           a == p \o <<text>>
           q == SubSeq(b, n, Len(b))
<1>1. Len(b) \in Nat /\ n \in Nat /\ n >= 1 /\ n <= Len(b) + 1  BY LenProperties
<1>2. \A i \in 1..Len(b) : b[i] \in BOOLEAN  BY ElementOfSeq
<1>3. /\ p \in Seq(BOOLEAN) /\ Len(p) = n - 1
      /\ \A i \in 1..n - 1 : p[i] = b[i]
  <2>1. \A i \in 1..n - 1 : b[i] \in BOOLEAN  BY <1>1, <1>2
  <2>2. /\ p \in Seq(BOOLEAN) /\ Len(p) = (IF 1 <= n - 1 THEN n - 1 - 1 + 1 ELSE 0)
        /\ \A i \in 1..n - 1 - 1 + 1 : p[i] = b[1 + i - 1]
    BY <1>1, <2>1, SubSeqProperties
  <2> HIDE DEF p
  <2> QED  BY <1>1, <2>2
<1>4. /\ q \in Seq(BOOLEAN) /\ Len(q) = Len(b) - n + 1
      /\ \A i \in 1..Len(b) - n + 1 : q[i] = b[n + i - 1]
  <2>1. \A i \in n..Len(b) : b[i] \in BOOLEAN  BY <1>1, <1>2
  <2>2. /\ q \in Seq(BOOLEAN)
        /\ Len(q) = (IF n <= Len(b) THEN Len(b) - n + 1 ELSE 0)
        /\ \A i \in 1..Len(b) - n + 1 : q[i] = b[n + i - 1]
    BY <1>1, <2>1, SubSeqProperties
  <2> HIDE DEF q
  <2> QED  BY <1>1, <2>2
<1>5. InsertAt(b, n, text) = a \o q  BY DEF InsertAt
<1>6. /\ a \in Seq(BOOLEAN) /\ Len(a) = n /\ a[n] = text
      /\ \A i \in 1..n - 1 : a[i] = b[i]
  <2> HIDE DEF p
  <2>1. a = Append(p, text)  BY <1>3, AppendIsConcat
  <2>2. /\ Append(p, text) \in Seq(BOOLEAN) /\ Len(Append(p, text)) = Len(p) + 1
        /\ \A i \in 1..Len(p) : Append(p, text)[i] = p[i]
        /\ Append(p, text)[Len(p) + 1] = text
    BY <1>3, AppendProperties
  <2>3. Len(p) + 1 = n  BY <1>1, <1>3
  <2> HIDE DEF a
  <2>4. a \in Seq(BOOLEAN) /\ Len(a) = n /\ a[n] = text  BY <2>1, <2>2, <2>3
  <2>5. \A i \in 1..n - 1 : a[i] = b[i]  BY <1>1, <1>3, <2>1, <2>2
  <2> QED  BY <2>4, <2>5
<1> HIDE DEF a, q
<1>7. /\ a \o q \in Seq(BOOLEAN) /\ Len(a \o q) = Len(a) + Len(q)
      /\ \A i \in 1..Len(a) + Len(q) : (a \o q)[i] = IF i <= Len(a) THEN a[i] ELSE q[i - Len(a)]
  BY <1>4, <1>6, ConcatProperties
<1>8. ASSUME NEW i \in 1..n - 1 PROVE (a \o q)[i] = b[i]
  BY <1>1, <1>4, <1>6, <1>7
<1>9. ASSUME NEW i \in n + 1..Len(b) + 1 PROVE (a \o q)[i] = b[i - 1]
  <2>1. i \in 1..Len(a) + Len(q) /\ ~(i <= Len(a)) /\ i - Len(a) \in 1..Len(b) - n + 1
        /\ n + (i - Len(a)) - 1 = i - 1
    BY <1>1, <1>4, <1>6
  <2>2. (a \o q)[i] = q[i - Len(a)]  BY <1>7, <2>1
  <2>3. q[i - Len(a)] = b[n + (i - Len(a)) - 1]  BY <1>4, <2>1
  <2> QED  BY <2>1, <2>2, <2>3
<1>10. Len(a \o q) = Len(b) + 1  BY <1>1, <1>4, <1>6, <1>7
<1>11. (a \o q)[n] = text  BY <1>1, <1>4, <1>6, <1>7
<1> QED  BY <1>5, <1>7, <1>8, <1>9, <1>10, <1>11

\* What deleting the line of one row and inserting one at another does to the buffer; the
\* only line of a buffer is not deleted but emptied.
LEMMA DelInsert ==
    ASSUME NEW s \in Screens, s.ok, NEW from \in Int, NEW to \in Int
    PROVE  LET t == Insert(Del(s, from), to)
               n == Place(Line(s, from), Len(s.buf))
               p == Bound(Place(Line(s, to), Len(s.buf) - 1), 1, Len(s.buf))
           IN  /\ t \in Screens /\ t.top = s.top
               /\ n \notin 1..Len(s.buf) => t.buf = s.buf
               /\ n \in 1..Len(s.buf) /\ Len(s.buf) = 1 =>
                     t.ok /\ Len(t.buf) = 2 /\ ~t.buf[2]
               /\ n \in 1..Len(s.buf) /\ Len(s.buf) # 1 =>
                     /\ t.ok /\ Len(t.buf) = Len(s.buf)
                     /\ \A i \in 1..Len(s.buf) : /\ i < n /\ i < p => t.buf[i] = s.buf[i]
                                                 /\ i > n /\ i > p => t.buf[i] = s.buf[i]
<1> DEFINE d == Del(s, from)
           t == Insert(d, to)
           n == Place(Line(s, from), Len(s.buf))
           p == Bound(Place(Line(s, to), Len(s.buf) - 1), 1, Len(s.buf))
<1>1. s.buf \in Seq(BOOLEAN) /\ Len(s.buf) \in Nat /\ Line(s, from) \in Int /\ Line(s, to) \in Int
  BY LengthOfScreen, LineInt DEF Screens
<1>no. PICK no \in BOOLEAN : no = FALSE  OBVIOUS
<1>ins. ASSUME NEW b \in Seq(BOOLEAN), d = [s EXCEPT !.buf = b]
        PROVE  LET q == Bound(Place(Line(s, to), Len(b)), 1, Len(b) + 1)
               IN  /\ t \in Screens /\ t.top = s.top /\ t.ok
                   /\ q \in 1..Len(b) + 1
                   /\ t.buf = InsertAt(b, q, no)
  <2> DEFINE m == Place(Line(s, to), Len(b))
             q == Bound(m, 1, Len(b) + 1)
             c == InsertAt(b, q, no)
  <2>1. d \in Screens /\ d.buf = b /\ d.top = s.top /\ d.ok
    BY <1>ins DEF Screens
  <2>2. Line(d, to) = Line(s, to)  BY <2>1 DEF Line
  <2>3. t = [d EXCEPT !.buf = c]
    <3> HIDE DEF d
    <3> QED  BY <2>1, <2>2, <1>no DEF Insert
  <2>4. Len(b) \in Nat /\ m \in Int  BY <1>1, LenProperties DEF Place
  <2> HIDE DEF m
  <2>5. q \in 1..Len(b) + 1  BY <2>4 DEF Bound
  <2> HIDE DEF q, d
  <2>6. c \in Seq(BOOLEAN)  BY <2>5, InsertLine
  <2> HIDE DEF c, t
  <2>7. t \in Screens /\ t.top = s.top /\ t.ok /\ t.buf = c  BY <2>1, <2>3, <2>6 DEF Screens
  <2> QED  BY <2>5, <2>7 DEF c, q, m
<1>2. CASE n \notin 1..Len(s.buf)
  <2>1. d = [s EXCEPT !.ok = FALSE]  BY <1>2 DEF Del
  <2>2. t = d  BY <2>1 DEF Insert, Screens
  <2>3. t \in Screens /\ t.top = s.top /\ t.buf = s.buf  BY <2>1, <2>2 DEF Screens
  <2> QED  BY <1>2, <2>3
<1>3. CASE n \in 1..Len(s.buf) /\ Len(s.buf) = 1
  <2> DEFINE b == <<no>>
             q == Bound(Place(Line(s, to), Len(b)), 1, Len(b) + 1)
  <2>1. d = [s EXCEPT !.buf = b]  BY <1>3, <1>no DEF Del
  <2>2. b \in Seq(BOOLEAN) /\ Len(b) = 1 /\ b[1] = no  OBVIOUS
  <2> HIDE DEF b, d, n
  <2>3. t \in Screens /\ t.top = s.top /\ t.ok /\ q \in 1..Len(b) + 1 /\ t.buf = InsertAt(b, q, no)
    BY <2>1, <2>2, <1>ins
  <2> HIDE DEF q, t
  <2>4. /\ Len(InsertAt(b, q, no)) = 2
        /\ InsertAt(b, q, no)[q] = no
        /\ \A i \in q + 1..2 : InsertAt(b, q, no)[i] = b[i - 1]
    <3>1. /\ Len(InsertAt(b, q, no)) = Len(b) + 1
          /\ InsertAt(b, q, no)[q] = no
          /\ \A i \in q + 1..Len(b) + 1 : InsertAt(b, q, no)[i] = b[i - 1]
      <4>1. b \in Seq(BOOLEAN) /\ q \in 1..Len(b) + 1  BY <2>2, <2>3
      <4> QED  BY <4>1, InsertLine
    <3>2. Len(b) + 1 = 2  BY <2>2
    <3> QED  BY <3>1, <3>2
  <2>5. InsertAt(b, q, no)[2] = no
    <3>1. CASE q = 2  BY <2>4, <3>1
    <3>2. CASE q = 1
      <4>1. 2 \in q + 1..2 /\ 2 - 1 = 1  BY <3>2
      <4>2. InsertAt(b, q, no)[2] = b[2 - 1]  BY <2>4, <4>1
      <4> QED  BY <2>2, <4>1, <4>2
    <3> QED  BY <2>2, <2>3, <3>1, <3>2
  <2> QED  BY <1>3, <1>no, <2>3, <2>4, <2>5 DEF t, n, d
<1>4. CASE n \in 1..Len(s.buf) /\ Len(s.buf) # 1
  <2> DEFINE b == RemoveAt(s.buf, n)
             c == InsertAt(b, p, no)
  <2>1. d = [s EXCEPT !.buf = b]  BY <1>4 DEF Del
  <2>2. /\ b \in Seq(BOOLEAN) /\ Len(b) = Len(s.buf) - 1
        /\ \A i \in 1..n - 1 : b[i] = s.buf[i]
        /\ \A i \in n..Len(s.buf) - 1 : b[i] = s.buf[i + 1]
    <3> HIDE DEF n
    <3> QED  BY <1>1, <1>4, RemoveLine
  <2> HIDE DEF b, d
  <2>3. Len(b) + 1 = Len(s.buf)  BY <1>1, <2>2
  <2>4. t \in Screens /\ t.top = s.top /\ t.ok /\ p \in 1..Len(b) + 1 /\ t.buf = c
    BY <2>1, <2>2, <2>3, <1>ins
  <2> HIDE DEF p, t
  <2>5. /\ c \in Seq(BOOLEAN) /\ Len(c) = Len(b) + 1
        /\ \A i \in 1..p - 1 : c[i] = b[i]
        /\ \A i \in p + 1..Len(b) + 1 : c[i] = b[i - 1]
    BY <2>2, <2>4, InsertLine
  <2> HIDE DEF c, n
  <2>6. Len(c) = Len(s.buf)  BY <2>3, <2>5
  <2>7. ASSUME NEW i \in 1..Len(s.buf), i < n, i < p PROVE c[i] = s.buf[i]
    <3>1. i \in 1..p - 1 /\ i \in 1..n - 1  BY <1>1, <1>4, <2>3, <2>4, <2>7
    <3> QED  BY <2>2, <2>5, <3>1
  <2>8. ASSUME NEW i \in 1..Len(s.buf), i > n, i > p PROVE c[i] = s.buf[i]
    <3>1. /\ i \in p + 1..Len(b) + 1 /\ i - 1 \in n..Len(s.buf) - 1 /\ (i - 1) + 1 = i
      BY <1>1, <1>4, <2>3, <2>4, <2>8
    <3>2. c[i] = b[i - 1]  BY <2>5, <3>1
    <3>3. b[i - 1] = s.buf[(i - 1) + 1]  BY <2>2, <3>1
    <3> QED  BY <3>1, <3>2, <3>3
  <2> QED  BY <1>4, <2>4, <2>6, <2>7, <2>8 DEF t, d, n, p
<1> QED  BY <1>2, <1>3, <1>4

\* Both rows in the screen
LEMMA DelInsertOnScreen ==
    ASSUME screenHeight \in Nat \ {0}, NEW s, Rightly(s), s.ok,
           NEW from \in ScreenRows, NEW to \in ScreenRows
    PROVE  OnScreen(s, Insert(Del(s, from), to))
<1> DEFINE t == Insert(Del(s, from), to)
           n == Place(Line(s, from), Len(s.buf))
           p == Bound(Place(Line(s, to), Len(s.buf) - 1), 1, Len(s.buf))
           a == Len(s.buf)
<1>1. s \in Screens /\ a \in Nat /\ s.top \in Nat \ {0} /\ a >= s.top /\ a <= s.top + screenHeight
  BY LengthOfScreen DEF Rightly, Screens
<1>2. /\ Line(s, from) \in Nat \ {0} /\ Line(s, from) >= s.top
      /\ Line(s, from) <= s.top + screenHeight - 1
      /\ Line(s, to) \in Nat \ {0} /\ Line(s, to) >= s.top
      /\ Line(s, to) <= s.top + screenHeight - 1
      /\ from \in Int /\ to \in Int
  BY <1>1 DEF Line, ScreenRows
<1>3. n \in Nat /\ n >= s.top /\ n <= s.top + screenHeight - 1
  <2>1. n = Line(s, from)  BY <1>1, <1>2, PlaceOfLine
  <2> QED  BY <1>2, <2>1
<1>4. p \in Nat /\ p >= s.top /\ p <= s.top + screenHeight - 1
  <2>1. a - 1 \in Nat  BY <1>1
  <2>2. Place(Line(s, to), a - 1) = Line(s, to)  BY <1>2, <2>1, PlaceOfLine
  <2>3. p = Bound(Line(s, to), 1, a)  BY <2>2
  <2> HIDE DEF p, a
  <2> QED  BY <1>1, <1>2, <2>3 DEF Bound
<1>5. /\ t \in Screens /\ t.top = s.top
      /\ n \notin 1..a => t.buf = s.buf
      /\ n \in 1..a /\ a = 1 => t.ok /\ Len(t.buf) = 2 /\ ~t.buf[2]
      /\ n \in 1..a /\ a # 1 =>
            /\ t.ok /\ Len(t.buf) = a
            /\ \A i \in 1..a : /\ i < n /\ i < p => t.buf[i] = s.buf[i]
                               /\ i > n /\ i > p => t.buf[i] = s.buf[i]
  BY <1>1, <1>2, DelInsert
<1> HIDE DEF t, n, p
<1>6. CASE n \notin 1..a
  <2>1. ~(a >= s.top + screenHeight - 1)  BY <1>1, <1>3, <1>6
  <2>2. OnScreen(s, t)  BY <1>1, <1>5, <1>6, <2>1 DEF OnScreen, Rightly
  <2> QED  BY <2>2 DEF t
<1>7. CASE n \in 1..a /\ a = 1
  <2>1. s.top = 1 /\ Len(t.buf) = 2 /\ ~t.buf[2] /\ t.ok /\ t.top = s.top /\ t \in Screens
    BY <1>1, <1>5, <1>7
  <2>2. Rightly(t)  BY <2>1 DEF Rightly
  <2>3. Len(t.buf) >= Len(s.buf)  BY <1>7, <2>1
  <2>4. OnScreen(s, t)  BY <2>1, <2>2, <2>3 DEF OnScreen
  <2> QED  BY <2>4 DEF t
<1>8. CASE n \in 1..a /\ a # 1
  <2>0. /\ Len(t.buf) = a /\ t.ok /\ t.top = s.top /\ t \in Screens
        /\ \A i \in 1..a : i < n /\ i < p => t.buf[i] = s.buf[i]
        /\ \A i \in 1..a : i > n /\ i > p => t.buf[i] = s.buf[i]
    BY <1>5, <1>8
  <2>1. \A i \in 1..s.top - 1 : i \in 1..a /\ i < n /\ i < p  BY <1>1, <1>3, <1>4
  <2>2. \A i \in 1..s.top - 1 : t.buf[i] = s.buf[i]  BY <2>0, <2>1
  <2>3. ASSUME Len(t.buf) = s.top + screenHeight
        PROVE  t.buf[Len(t.buf)] = s.buf[Len(t.buf)]
    <3>1. a \in 1..a /\ a > n /\ a > p
      <4> HIDE DEF a
      <4> QED  BY <1>1, <1>3, <1>4, <2>0, <2>3
    <3> HIDE DEF a
    <3> QED  BY <2>0, <3>1
  <2>4. Rightly(t)
    <3> HIDE DEF a
    <3> QED  BY <1>1, <2>0 DEF Rightly
  <2>5. Len(t.buf) >= Len(s.buf) /\ Len(t.buf) = Len(s.buf)  BY <1>1, <2>0
  <2>6. OnScreen(s, t)  BY <2>0, <2>2, <2>3, <2>4, <2>5 DEF OnScreen
  <2> QED  BY <2>6 DEF t
<1> QED  BY <1>6, <1>7, <1>8
-----------------------------------------------------------------------------
(* Types: every chunk leaves a buffer with at least one line.                *)

\* What every step keeps, whatever the program sends.
TypeInv ==
    /\ TypeOK
    /\ lines = screenHeight
    /\ Len(buffer) >= 1
    /\ reading => lost = "none"

\* The screens a chunk may leave
Left == {s \in Screens : Len(s.buf) >= 1}

LEMMA HereIsLeft ==
    ASSUME TypeInv
    PROVE  Here \in Left /\ screenHeight \in Nat \ {0} /\ l \in Int /\ lines \in Nat \ {0}
<1>1. /\ buffer \in Seq(BOOLEAN) /\ screenTop \in Nat \ {0} /\ Len(buffer) >= 1
      /\ screenHeight \in Heights /\ lines \in Heights /\ l \in Int
  BY DEF TypeInv, TypeOK
<1>2. TRUE \in BOOLEAN  OBVIOUS
<1>3. Here.buf = buffer  BY DEF Here
<1> QED  BY <1>1, <1>2, <1>3, HeightsAreRows DEF Here, Screens, Left

LEMMA GrowsIsLeft == ASSUME NEW s \in Left, NEW t, Grows(s, t) PROVE t \in Left
<1>1. Len(s.buf) \in Nat /\ Len(t.buf) \in Nat  BY LengthOfScreen DEF Left, Grows
<1> QED  BY <1>1 DEF Left, Grows

\* The buffer, the screen and the read after a step
ScreenType ==
    /\ buffer \in Seq(BOOLEAN) /\ Len(buffer) >= 1
    /\ screenTop \in Nat \ {0} /\ screenHeight \in Heights
    /\ reading \in BOOLEAN /\ lost \in {"none", "clear", "index"}
    /\ reading => lost = "none"

\* The cursor, the region, the window and the history
TermType ==
    /\ l \in Int /\ workingLines \in Int /\ top \in Nat /\ bottom \in Nat
    /\ absolute \in BOOLEAN /\ winHeight \in Heights /\ changed \in BOOLEAN
    /\ resizes \in 0..MaxResizes /\ strayed \in BOOLEAN /\ misset \in BOOLEAN

LEMMA TypeParts ==
    TypeInv <=> ScreenType /\ TermType /\ lines = screenHeight
BY DEF TypeInv, TypeOK, ScreenType, TermType

LEMMA LeaveType ==
    ASSUME TypeInv, reading, NEW s \in Left, Leave(s)
    PROVE  ScreenType' /\ UNCHANGED screenHeight
<1>1. /\ s.buf \in Seq(BOOLEAN) /\ s.top \in Nat \ {0} /\ s.ok \in BOOLEAN
      /\ Len(s.buf) >= 1
  BY DEF Left, Screens
<1>2. /\ buffer' = s.buf /\ screenTop' = s.top /\ screenHeight' = screenHeight
      /\ reading' = s.ok /\ lost' = IF s.ok THEN lost ELSE "index"
  BY DEF Leave
<1>3. lost = "none" /\ screenHeight \in Heights  BY DEF TypeInv, TypeOK
<1> QED  BY <1>1, <1>2, <1>3 DEF ScreenType

\* The rows to blank go up to a row of the terminal.
LEMMA BlankIsLeft ==
    ASSUME TypeInv, NEW keep \in BOOLEAN
    PROVE  /\ Rewrite(Blank(Here, Bound(l + 1, 1, lines), lines), l, keep) \in Left
           /\ Rewrite(Blank(Here, 1, Bound(l, 1, lines + 1) - 1), l, keep) \in Left
<1>1. Here \in Left /\ Here \in Screens /\ screenHeight \in Nat \ {0} /\ l \in Int
      /\ lines \in Nat \ {0}
  BY HereIsLeft DEF Left
<1>2. ASSUME NEW first \in Int, NEW last \in Int, last >= first - 1
      PROVE  Rewrite(Blank(Here, first, last), l, keep) \in Left
  <2> DEFINE b == Blank(Here, first, last)
  <2>1. Grows(Here, b) /\ b \in Screens  BY <1>1, <1>2, BlankType DEF Grows
  <2> HIDE DEF b
  <2>2. Grows(b, Rewrite(b, l, keep))  BY <1>1, <2>1, RewriteType
  <2>3. Grows(Here, Rewrite(b, l, keep))  BY <1>1, <2>1, <2>2, GrowsTransitive
  <2> QED  BY <1>1, <2>3, GrowsIsLeft DEF b
<1>3. /\ Bound(l + 1, 1, lines) \in Int /\ lines \in Int
      /\ lines >= Bound(l + 1, 1, lines) - 1
  BY <1>1 DEF Bound
<1>4. /\ Bound(l, 1, lines + 1) - 1 \in Int /\ 1 \in Int
      /\ Bound(l, 1, lines + 1) - 1 >= 1 - 1
  BY <1>1 DEF Bound
<1> QED  BY <1>2, <1>3, <1>4

LEMMA DelInsertIsLeft ==
    ASSUME TypeInv, NEW from \in Int, NEW to \in Int
    PROVE  Insert(Del(Here, from), to) \in Left
<1> DEFINE t == Insert(Del(Here, from), to)
<1>1. Here \in Left /\ Here \in Screens /\ Here.ok  BY HereIsLeft DEF Left, Here
<1>2. /\ t \in Screens
      /\ \/ t.buf = Here.buf
         \/ Len(t.buf) = 2
         \/ Len(t.buf) = Len(Here.buf)
  BY <1>1, DelInsert
<1> HIDE DEF t
<1>3. Len(Here.buf) >= 1  BY <1>1 DEF Left
<1>4. Len(t.buf) >= 1
  <2>1. CASE Len(t.buf) = 2  BY <2>1
  <2>2. CASE t.buf = Here.buf \/ Len(t.buf) = Len(Here.buf)
    <3>1. Len(t.buf) = Len(Here.buf)  BY <2>2
    <3> QED  BY <1>3, <3>1
  <2> QED  BY <1>2, <2>1, <2>2
<1>5. t \in Left  BY <1>2, <1>4 DEF Left
<1> QED  BY <1>5 DEF t

\* The lines set_cursor adds
LEMMA CursorLineFacts ==
    ASSUME TypeInv
    PROVE  LET n == screenTop + l - 1
           IN  /\ CursorLine \in Seq(BOOLEAN)
               /\ n <= Len(buffer) => CursorLine = buffer
               /\ n > Len(buffer) =>
                     /\ Len(CursorLine) = n + 1 /\ ~CursorLine[n + 1]
                     /\ \A i \in 1..Len(buffer) : CursorLine[i] = buffer[i]
<1> DEFINE n == screenTop + l - 1
           k == n - Len(buffer) + 1
           e == [i \in 1..k |-> FALSE]
<1>1. /\ buffer \in Seq(BOOLEAN) /\ Len(buffer) \in Nat /\ n \in Int /\ k \in Int
  BY LenProperties DEF TypeInv, TypeOK
<1>2. CursorLine = IF n > Len(buffer) THEN buffer \o e ELSE buffer
  BY DEF CursorLine, Line, Here
<1>3. CASE n <= Len(buffer)
  <2>1. CursorLine = buffer
    <3> HIDE DEF e, k
    <3> QED  BY <1>1, <1>2, <1>3
  <2> QED  BY <1>1, <1>3, <2>1
<1>4. CASE n > Len(buffer)
  <2>1. k \in Nat /\ Len(buffer) + k = n + 1 /\ k >= 1  BY <1>1, <1>4
  <2>2. e \in Seq(BOOLEAN) /\ Len(e) = k /\ \A i \in 1..k : e[i] = FALSE
    <3>1. \A i \in 1..k : FALSE \in BOOLEAN  OBVIOUS
    <3> HIDE DEF k
    <3> QED  BY <2>1, <3>1, IsASeq
  <2> HIDE DEF e, k
  <2>3. /\ buffer \o e \in Seq(BOOLEAN) /\ Len(buffer \o e) = Len(buffer) + Len(e)
        /\ \A i \in 1..Len(buffer) + Len(e) :
              (buffer \o e)[i] = IF i <= Len(buffer) THEN buffer[i] ELSE e[i - Len(buffer)]
    BY <1>1, <2>2, ConcatProperties
  <2>4. Len(buffer \o e) = n + 1  BY <2>1, <2>2, <2>3
  <2>5. \A i \in 1..Len(buffer) : (buffer \o e)[i] = buffer[i]
    BY <1>1, <2>1, <2>2, <2>3
  <2>6. (buffer \o e)[n + 1] = FALSE
    <3>1. n + 1 \in 1..Len(buffer) + Len(e) /\ ~(n + 1 <= Len(buffer))
          /\ (n + 1) - Len(buffer) \in 1..k
      BY <1>1, <1>4, <2>1, <2>2
    <3>2. (buffer \o e)[n + 1] = e[(n + 1) - Len(buffer)]  BY <2>3, <3>1
    <3> QED  BY <2>2, <3>1, <3>2
  <2> QED  BY <1>1, <1>2, <1>4, <2>3, <2>4, <2>5, <2>6
<1> QED  BY <1>1, <1>3, <1>4

LEMMA TypeInit == Init => TypeInv
<1> SUFFICES ASSUME Init PROVE TypeInv  OBVIOUS
<1>no. PICK no \in BOOLEAN : no = FALSE  OBVIOUS
<1>1. buffer \in Seq(BOOLEAN) /\ Len(buffer) = 1
  <2>1. buffer = <<no>>  BY <1>no DEF Init
  <2> QED  BY <2>1
<1>2. 0 \in 0..MaxResizes  BY ConqueScreenAssumption
<1>3. strayed \in BOOLEAN /\ misset \in BOOLEAN /\ reading \in BOOLEAN /\ changed \in BOOLEAN
      /\ absolute \in BOOLEAN
  BY Zenon DEF Init
<1>4. TypeOK  BY <1>1, <1>2, <1>3, HeightsAreRows DEF Init, TypeOK
<1>5. lines = screenHeight /\ lost = "none"  BY DEF Init
<1> QED  BY <1>1, <1>4, <1>5 DEF TypeInv

\* Every step keeps the types, one case per action.
LEMMA TypeNext == TypeInv /\ [Next]_vars => TypeInv'
<1> SUFFICES ASSUME TypeInv, [Next]_vars PROVE TypeInv'  OBVIOUS
<1> USE DEF scrVars, termVars, winVars, readVars, histVars
<1>t. /\ ScreenType /\ TermType /\ lines = screenHeight
      /\ Here \in Left /\ Here \in Screens /\ screenHeight \in Nat \ {0} /\ l \in Int
      /\ lines \in Nat \ {0}
  BY TypeParts, HereIsLeft DEF Left
<1>keep. TRUE \in BOOLEAN /\ FALSE \in BOOLEAN  OBVIOUS
<1>rows. Rows \subseteq Nat  BY DEF Rows
<1>win. winHeight \in Nat \ {0}  BY <1>t, HeightsAreRows DEF TermType
\* The three kinds of steps: a chunk that leaves a screen, a chunk that does not, and
\* what is not a chunk.
<1>leave. ASSUME NEW s \in Left, reading, Leave(s), TermType', lines' = lines PROVE TypeInv'
  <2>1. ScreenType' /\ screenHeight' = screenHeight  BY <1>leave, LeaveType
  <2>2. (lines = screenHeight)'  BY <1>t, <1>leave, <2>1
  <2> QED  BY <1>leave, <2>1, <2>2, TypeParts, PTL
<1>stay. ASSUME UNCHANGED <<scrVars, lines, readVars>>, TermType' PROVE TypeInv'
  <2>1. ScreenType' /\ (lines = screenHeight)'  BY <1>t, <1>stay DEF ScreenType
  <2> QED  BY <1>stay, <2>1, TypeParts, PTL
<1>other. ASSUME ScreenType', TermType', lines' = screenHeight' PROVE TypeInv'
  <2>1. (lines = screenHeight)'  BY <1>other
  <2> QED  BY <1>other, <2>1, TypeParts, PTL
<1>get. ASSUME NEW row \in Int
        PROVE  /\ Get(Here, row) \in Left /\ Get(Here, row) \in Screens
               /\ \A s \in Left, keep \in BOOLEAN : Rewrite(s, row, keep) \in Left
               /\ \A s \in Left, text \in BOOLEAN : Set(s, row, text) \in Left
  <2>1. Get(Here, row) \in Left  BY <1>t, GetType, GrowsIsLeft
  <2>2. ASSUME NEW s \in Left, NEW keep \in BOOLEAN PROVE Rewrite(s, row, keep) \in Left
    <3>1. s \in Screens  BY DEF Left
    <3>2. Grows(s, Rewrite(s, row, keep))  BY <1>t, <3>1, RewriteType
    <3> QED  BY <3>2, GrowsIsLeft
  <2>3. ASSUME NEW s \in Left, NEW text \in BOOLEAN PROVE Set(s, row, text) \in Left
    <3>1. s \in Screens  BY DEF Left
    <3>2. Grows(s, Set(s, row, text))  BY <3>1, SetType
    <3> QED  BY <3>2, GrowsIsLeft
  <2> QED  BY <2>1, <2>2, <2>3 DEF Left
<1>1. CASE ReadStart
  <2>1. TermType' /\ ScreenType' /\ lines' = screenHeight'
    BY <1>t, <1>1 DEF ReadStart, TermType, ScreenType
  <2> QED  BY <2>1, <1>other
<1>2. CASE ReadEnd
  <2>1. TermType' /\ lines' = screenHeight'  BY <1>t, <1>2 DEF ReadEnd, TermType
  <2>2. /\ buffer' = buffer \/ buffer' = CursorLine
        /\ reading' = FALSE /\ UNCHANGED <<screenTop, screenHeight, lost>>
    BY <1>2 DEF ReadEnd
  <2>3. CursorLine \in Seq(BOOLEAN) /\ Len(CursorLine) >= 1
    <3> DEFINE n == screenTop + l - 1
    <3>1. n \in Int /\ Len(buffer) \in Nat /\ Len(buffer) >= 1
      BY <1>t, LenProperties DEF ScreenType
    <3>2. /\ CursorLine \in Seq(BOOLEAN)
          /\ n <= Len(buffer) => CursorLine = buffer
          /\ n > Len(buffer) => Len(CursorLine) = n + 1
      BY CursorLineFacts
    <3> HIDE DEF n
    <3>3. CASE n <= Len(buffer)  BY <3>1, <3>2, <3>3
    <3>4. CASE n > Len(buffer)   BY <3>1, <3>2, <3>4
    <3> QED  BY <3>1, <3>3, <3>4
  <2>4. buffer' \in Seq(BOOLEAN) /\ Len(buffer') >= 1  BY <1>t, <2>2, <2>3 DEF ScreenType
  <2>5. ScreenType'  BY <1>t, <2>2, <2>4 DEF ScreenType
  <2> QED  BY <2>1, <2>5, <1>other
<1>3. CASE PlainText
  <2>1. TermType' /\ lines' = lines  BY <1>t, <1>3 DEF PlainText, TermType
  <2>2. Leave(Set(Get(Here, l), l, TRUE)) /\ reading  BY <1>3 DEF PlainText, Chunk
  <2>3. Set(Get(Here, l), l, TRUE) \in Left  BY <1>t, <1>keep, <1>get
  <2> QED  BY <2>1, <2>2, <2>3, <1>leave
<1>4. CASE ClearLine
  <2>1. TermType' /\ lines' = lines /\ reading  BY <1>t, <1>4 DEF ClearLine, TermType, Chunk
  <2>2. PICK s \in Left : Leave(s)
    <3>1. CASE \E keep \in BOOLEAN : Leave(Rewrite(Here, l, keep))  BY <1>t, <1>get, <3>1
    <3>2. CASE Leave(Set(Here, l, FALSE))  BY <1>t, <1>keep, <1>get, <3>2
    <3> QED  BY <1>4, <3>1, <3>2 DEF ClearLine
  <2> QED  BY <2>1, <2>2, <1>leave
<1>5. CASE CtlNl
  <2>1. /\ UNCHANGED <<lines, workingLines, top, bottom, absolute, winVars, histVars>> /\ reading
        /\ \/ Leave(Insert(Del(Here, top), bottom)) /\ UNCHANGED l
           \/ Leave(AppendLine(Here)) /\ UNCHANGED l
           \/ l' = l + 1 /\ UNCHANGED <<scrVars, readVars>>
    BY <1>5 DEF CtlNl, Chunk
  <2>0. l' \in Int
    <3>1. l' = l \/ l' = l + 1  BY <2>1
    <3> QED  BY <1>t, <3>1
  <2>2. TermType'  BY <1>t, <2>0, <2>1 DEF TermType
  <2>3. CASE Leave(Insert(Del(Here, top), bottom))
    <3>1. top \in Int /\ bottom \in Int  BY <1>t DEF TermType
    <3>2. Insert(Del(Here, top), bottom) \in Left  BY <3>1, DelInsertIsLeft
    <3> QED  BY <2>1, <2>2, <2>3, <3>2, <1>leave
  <2>4. CASE Leave(AppendLine(Here))
    <3> DEFINE t == AppendLine(Here)
    <3>1. t \in Screens /\ (Len(t.buf) = Len(Here.buf) \/ Len(t.buf) = Len(Here.buf) + 1)
      BY <1>t, AppendLineFacts
    <3>2. Len(Here.buf) \in Nat /\ Len(Here.buf) >= 1  BY <1>t, LengthOfScreen DEF Left
    <3> HIDE DEF t
    <3>3. Len(t.buf) >= 1  BY <3>1, <3>2
    <3>4. t \in Left  BY <3>1, <3>3 DEF Left
    <3> QED  BY <2>1, <2>2, <2>4, <3>4, <1>leave DEF t
  <2>5. CASE UNCHANGED <<scrVars, readVars>>  BY <2>1, <2>2, <2>5, <1>stay
  <2> QED  BY <2>1, <2>3, <2>4, <2>5
<1>6. ASSUME NEW n \in -MaxRow..MaxRow, CursorUpDown(n) PROVE TypeInv'
  <2>1. /\ l' = Bound(l + n, top, bottom)
        /\ UNCHANGED <<scrVars, readVars, lines, workingLines, top, bottom, absolute, winVars,
                       histVars>>
    BY <1>6 DEF CursorUpDown
  <2>2. l' \in Int  BY <1>t, <2>1, ConqueScreenAssumption DEF TermType, Bound
  <2>3. TermType'  BY <1>t, <2>1, <2>2 DEF TermType
  <2> QED  BY <2>1, <2>3, <1>stay
<1>7. ASSUME NEW row \in Rows, Cursor(row) PROVE TypeInv'
  <2>1. /\ l' = IF absolute THEN Bound(row, 1, lines) ELSE Bound(top + row - 1, top, bottom)
        /\ UNCHANGED <<lines, workingLines, top, bottom, absolute, winVars, misset>> /\ reading
    BY <1>7 DEF Cursor, Chunk
  <2>2. row \in Int  BY <1>rows
  <2>3. l' \in Int  BY <1>t, <2>1, <2>2 DEF TermType, Bound
  <2>4. strayed' \in BOOLEAN
    <3>1. strayed' = (strayed \/ ~InRegion(l'))  BY <1>7, Zenon DEF Cursor
    <3> QED  BY <3>1, Zenon
  <2>5. TermType'  BY <1>t, <2>1, <2>3, <2>4 DEF TermType
  <2>6. PICK s \in Left : Leave(s)
    <3>1. /\ Get(Here, l') \in Left
          /\ \A s \in Left, keep \in BOOLEAN : Rewrite(s, l', keep) \in Left
      BY <2>3, <1>get
    <3>2. Rewrite(Get(Here, l'), l', TRUE) \in Left  BY <1>keep, <3>1
    <3>3. Leave(Get(Here, l')) \/ Leave(Rewrite(Get(Here, l'), l', TRUE))  BY <1>7 DEF Cursor
    <3> QED  BY <3>1, <3>2, <3>3
  <2> QED  BY <2>1, <2>5, <2>6, <1>leave
<1>8. ASSUME NEW first \in Nat, NEW last \in Nat, SetCoords(first, last) PROVE TypeInv'
  <2>1. /\ top' = first /\ bottom' = last /\ workingLines' = last - first + 1
        /\ l' = IF l < first THEN first ELSE IF l > last THEN last ELSE l
        /\ UNCHANGED <<scrVars, readVars, lines, absolute, winVars, strayed>>
    BY <1>8 DEF SetCoords
  <2>2. l' \in Int /\ workingLines' \in Int  BY <1>t, <2>1
  <2>3. misset' \in BOOLEAN
    <3> DEFINE within == 1 <= first /\ first <= last /\ last <= screenHeight
    <3>1. misset' = (misset \/ ~within)  BY <1>8, Zenon DEF SetCoords
    <3> HIDE DEF within
    <3> QED  BY <3>1, Zenon
  <2>4. TermType'  BY <1>t, <2>1, <2>2, <2>3 DEF TermType
  <2> QED  BY <2>1, <2>4, <1>stay
<1>9. CASE SetRegion     BY <1>9, <1>8, <1>rows DEF SetRegion
<1>10. CASE ResetRegion  BY <1>10, <1>8, <1>win DEF ResetRegion
<1>11. CASE SetOrigin
  <2>1. TermType' /\ UNCHANGED <<scrVars, lines, readVars>>
    BY <1>t, <1>11 DEF SetOrigin, TermType
  <2> QED  BY <2>1, <1>stay
<1>12. CASE ScrollDown
  <2>1. /\ UNCHANGED <<lines, workingLines, top, bottom, absolute, winVars, histVars>> /\ reading
        /\ \/ Leave(Insert(Del(Here, bottom), top)) /\ UNCHANGED l
           \/ l' = l - 1 /\ UNCHANGED <<scrVars, readVars>>
    BY <1>12 DEF ScrollDown, Chunk
  <2>0. l' \in Int
    <3>1. l' = l \/ l' = l - 1  BY <2>1
    <3> QED  BY <1>t, <3>1
  <2>2. TermType'  BY <1>t, <2>0, <2>1 DEF TermType
  <2>3. CASE Leave(Insert(Del(Here, bottom), top))
    <3>1. top \in Int /\ bottom \in Int  BY <1>t DEF TermType
    <3>2. Insert(Del(Here, bottom), top) \in Left  BY <3>1, DelInsertIsLeft
    <3> QED  BY <2>1, <2>2, <2>3, <3>2, <1>leave
  <2>4. CASE UNCHANGED <<scrVars, readVars>>  BY <2>1, <2>2, <2>4, <1>stay
  <2> QED  BY <2>1, <2>3, <2>4
<1>13. CASE ClearDown
  <2>1. TermType' /\ lines' = lines /\ reading  BY <1>t, <1>13 DEF ClearDown, TermType, Chunk
  <2>2. PICK s \in Left : Leave(s)  BY <1>13, BlankIsLeft DEF ClearDown
  <2> QED  BY <2>1, <2>2, <1>leave
<1>14. CASE ClearUp
  <2>1. TermType' /\ lines' = lines /\ reading  BY <1>t, <1>14 DEF ClearUp, TermType, Chunk
  <2>2. PICK s \in Left : Leave(s)  BY <1>14, BlankIsLeft DEF ClearUp
  <2> QED  BY <2>1, <2>2, <1>leave
<1>15. CASE ClearScreen
  <2>1. /\ l' = 1 /\ reading' = FALSE /\ lost' = "clear"
        /\ UNCHANGED <<scrVars, lines, workingLines, top, bottom, absolute, winVars, misset>>
    BY <1>15 DEF ClearScreen
  <2>2. strayed' \in BOOLEAN
    <3>1. strayed' = (strayed \/ ~InRegion(1))  BY <1>15, Zenon DEF ClearScreen
    <3> QED  BY <3>1, Zenon
  <2>3. TermType'  BY <1>t, <2>1, <2>2 DEF TermType
  <2>4. ScreenType'  BY <1>t, <1>keep, <2>1 DEF ScreenType
  <2>5. lines' = screenHeight'  BY <1>t, <2>1
  <2> QED  BY <2>3, <2>4, <2>5, <1>other
<1>16. ASSUME NEW h \in Heights, WindowChanges(h) PROVE TypeInv'
  <2>1. /\ winHeight' = h /\ resizes < MaxResizes /\ resizes' = resizes + 1
        /\ UNCHANGED <<scrVars, termVars, readVars, histVars>>
    BY <1>16 DEF WindowChanges
  <2>2. changed' \in BOOLEAN
    <3>1. PICK wider \in BOOLEAN : changed' = (wider \/ h # lines)
      BY <1>16, Zenon DEF WindowChanges
    <3> QED  BY <3>1, Zenon
  <2>3. resizes' \in 0..MaxResizes  BY <1>t, <2>1, ConqueScreenAssumption DEF TermType
  <2>4. TermType'  BY <1>t, <2>1, <2>2, <2>3 DEF TermType
  <2> QED  BY <2>1, <2>4, <1>stay
<1>17. CASE UpdateSize
  <2>1. /\ changed' = FALSE /\ lines' = winHeight /\ workingLines' = winHeight
        /\ bottom' = winHeight /\ screenHeight' = winHeight
        /\ screenTop' = Aligned(Len(buffer), winHeight)
        /\ l' = screenTop + l - screenTop' /\ misset' = (top \notin 1..winHeight)
        /\ UNCHANGED <<buffer, top, absolute, winHeight, resizes, readVars>>
    BY <1>17 DEF UpdateSize
  <2>2. strayed' \in BOOLEAN
    <3>1. strayed' = (strayed \/ l' \notin top..winHeight)  BY <1>17, Zenon DEF UpdateSize
    <3> QED  BY <3>1, Zenon
  <2>3. screenTop' \in Nat \ {0}
    <3>1. Len(buffer) - winHeight + 1 \in Int  BY <1>t, <1>win, LenProperties DEF ScreenType
    <3> QED  BY <2>1, <3>1 DEF Aligned, Larger
  <2>4. l' \in Int  BY <1>t, <2>1, <2>3 DEF ScreenType
  <2>5. TermType'
    <3>1. changed' \in BOOLEAN /\ misset' \in BOOLEAN  BY <2>1, Zenon
    <3>2. workingLines' \in Int /\ bottom' \in Nat  BY <1>win, <2>1
    <3> QED  BY <1>t, <2>1, <2>2, <2>4, <3>1, <3>2 DEF TermType
  <2>6. ScreenType'  BY <1>t, <2>1, <2>3 DEF ScreenType, TermType
  <2> QED  BY <2>1, <2>5, <2>6, <1>other
<1>18. CASE UNCHANGED vars
  <2>1. TermType' /\ UNCHANGED <<scrVars, lines, readVars>>  BY <1>t, <1>18 DEF vars, TermType
  <2> QED  BY <2>1, <1>stay
<1> QED
  BY <1>1, <1>2, <1>3, <1>4, <1>5, <1>6, <1>7, <1>9, <1>10, <1>11, <1>12, <1>13, <1>14,
     <1>15, <1>16, <1>17, <1>18 DEF Next

\* Whatever the program sends, rows and regions off the screen among it, and whatever the
\* window does, the buffer is a sequence of lines and the screen has a first line.
THEOREM TypeCorrect == Spec => []TypeOK
<1>1. TypeInv => TypeOK  BY DEF TypeInv
<1> QED  BY TypeInit, TypeNext, <1>1, PTL DEF Spec
-----------------------------------------------------------------------------
(* The cursor and its region, whatever region the program sets.              *)

\* No step takes an unstrayed cursor out of a region that has rows, one case per action.
LEMMA RowNext == TypeInv /\ InRegionUnlessStrayed /\ [Next]_vars => InRegionUnlessStrayed'
<1> SUFFICES ASSUME TypeInv, InRegionUnlessStrayed, [Next]_vars
             PROVE  InRegionUnlessStrayed'
  OBVIOUS
<1> USE DEF InRegionUnlessStrayed, InRegion, scrVars, winVars, readVars, histVars
<1>t. l \in Int /\ top \in Nat /\ bottom \in Nat /\ strayed \in BOOLEAN /\ winHeight \in Nat
  BY HeightsAreRows DEF TypeInv, TypeOK
<1>same. ASSUME UNCHANGED <<l, top, bottom, strayed>> PROVE InRegionUnlessStrayed'
  BY <1>same
<1>step. ASSUME UNCHANGED <<top, bottom, strayed>>, l \in top..bottom => l' \in top..bottom
         PROVE  InRegionUnlessStrayed'
  BY <1>step
<1>1. CASE ReadStart  BY <1>1, <1>same DEF ReadStart, termVars
<1>2. CASE ReadEnd    BY <1>2, <1>same DEF ReadEnd, termVars
<1>3. CASE PlainText  BY <1>3, <1>same DEF PlainText, termVars
<1>4. CASE ClearLine  BY <1>4, <1>same DEF ClearLine, termVars
<1>5. CASE CtlNl
  <2>1. UNCHANGED <<top, bottom, strayed>>  BY <1>5 DEF CtlNl
  <2>2. l' = l \/ (l # bottom /\ l' = l + 1)  BY <1>5 DEF CtlNl
  <2> QED  BY <1>t, <2>1, <2>2, <1>step
<1>6. ASSUME NEW n \in -MaxRow..MaxRow, CursorUpDown(n) PROVE InRegionUnlessStrayed'
  <2>1. UNCHANGED <<top, bottom, strayed>> /\ l' = Bound(l + n, top, bottom)
    BY <1>6 DEF CursorUpDown
  <2>2. top <= bottom => l' \in top..bottom
    <3>1. l + n \in Int  BY <1>t, ConqueScreenAssumption
    <3> QED  BY <1>t, <2>1, <3>1, BoundBetween
  <2> QED  BY <1>t, <2>1, <2>2
<1>7. ASSUME NEW row \in Rows, Cursor(row) PROVE InRegionUnlessStrayed'
  <2>1. UNCHANGED <<top, bottom>>  BY <1>7 DEF Cursor
  <2>2. strayed' = (strayed \/ l' \notin top..bottom)  BY <1>7, Zenon DEF Cursor, InRegion
  <2>3. ~strayed' => l' \in top..bottom  BY <2>2, Zenon
  <2> QED  BY <2>1, <2>3
<1>8. ASSUME NEW first \in Nat, NEW last \in Nat, SetCoords(first, last)
      PROVE InRegionUnlessStrayed'
  <2>1. /\ top' = first /\ bottom' = last
        /\ l' = IF l < first THEN first ELSE IF l > last THEN last ELSE l
    BY <1>8 DEF SetCoords
  <2> QED  BY <1>t, <2>1
<1>9. CASE SetRegion    BY <1>9, <1>8 DEF SetRegion, Rows
<1>10. CASE ResetRegion  BY <1>10, <1>8, <1>t DEF ResetRegion
<1>11. CASE SetOrigin  BY <1>11, <1>same DEF SetOrigin
<1>12. CASE ScrollDown
  <2>1. UNCHANGED <<top, bottom, strayed>>  BY <1>12 DEF ScrollDown
  <2>2. l' = l \/ (l # top /\ l' = l - 1)  BY <1>12 DEF ScrollDown
  <2> QED  BY <1>t, <2>1, <2>2, <1>step
<1>13. CASE ClearDown  BY <1>13, <1>same DEF ClearDown, termVars
<1>14. CASE ClearUp    BY <1>14, <1>same DEF ClearUp, termVars
<1>15. CASE ClearScreen
  <2>1. UNCHANGED <<top, bottom>> /\ l' = 1  BY <1>15 DEF ClearScreen
  <2>2. strayed' = (strayed \/ 1 \notin top..bottom)  BY <1>15, Zenon DEF ClearScreen, InRegion
  <2>3. ~strayed' => 1 \in top..bottom  BY <2>2, Zenon
  <2> QED  BY <2>1, <2>3
<1>16. ASSUME NEW h \in Heights, WindowChanges(h) PROVE InRegionUnlessStrayed'
  BY <1>16, <1>same DEF WindowChanges, termVars
<1>17. CASE UpdateSize
  <2>1. UNCHANGED top /\ bottom' = winHeight  BY <1>17 DEF UpdateSize
  <2>2. strayed' = (strayed \/ l' \notin top..winHeight)  BY <1>17, Zenon DEF UpdateSize
  <2>3. ~strayed' => l' \in top..winHeight  BY <2>2, Zenon
  <2> QED  BY <2>1, <2>3
<1>18. CASE UNCHANGED vars  BY <1>18, <1>same DEF vars, termVars
<1> QED
  BY <1>1, <1>2, <1>3, <1>4, <1>5, <1>6, <1>7, <1>9, <1>10, <1>11, <1>12, <1>13, <1>14,
     <1>15, <1>16, <1>17, <1>18 DEF Next

\* For every set of heights and every region csi_set_coords accepts, empty or off the screen,
\* the cursor is in the scroll region when that has a row, unless csi_cursor, a full clear or
\* update_window_size put it elsewhere.
THEOREM CursorInRegion == Spec => []InRegionUnlessStrayed
<1>1. Init => InRegionUnlessStrayed
  BY HeightsAreRows DEF Init, InRegionUnlessStrayed, InRegion
<1> QED  BY TypeInit, TypeNext, RowNext, <1>1, PTL DEF Spec
-----------------------------------------------------------------------------
(* Where the screen is in the buffer, as long as the cursor and the region   *)
(* are on the screen.                                                        *)

\* The region has rows, all on the screen.
Within == 1 <= top /\ top <= bottom /\ bottom <= screenHeight

\* The screen, its terminal and its region have the same rows; the line below the
\* screen, which set_cursor may add, is empty.
ScreenInv ==
    /\ TypeInv
    /\ InRegionUnlessStrayed
    /\ ~misset => Within
    /\ BufferFits
    /\ Usual /\ Len(buffer) = screenTop + screenHeight => ~buffer[Len(buffer)]

\* What a step of a read leaves: a screen that lies rightly, what has scrolled off it as
\* it was, and no error if the screen was filled.
PlaysWell ==
    /\ UNCHANGED screenHeight
    /\ Len(buffer') \in screenTop'..screenTop' + screenHeight'
    /\ Len(buffer') = screenTop' + screenHeight' => ~buffer'[Len(buffer')]
    /\ Len(buffer') >= screenTop - 1
    /\ \A i \in 1..screenTop - 1 : buffer'[i] = buffer[i]
    /\ FilledScreen => lost' # "index"

\* In the usual case the cursor and the region have rows of the screen.
LEMMA UsualRows ==
    ASSUME ScreenInv, Usual
    PROVE  /\ Here \in Screens /\ Rightly(Here) /\ Here.ok
           /\ screenHeight \in Nat \ {0} /\ lines = screenHeight
           /\ l \in ScreenRows /\ top \in ScreenRows /\ bottom \in ScreenRows
           /\ top <= bottom
<1>1. /\ Here \in Screens /\ screenHeight \in Nat \ {0} /\ l \in Int
  BY HereIsLeft DEF ScreenInv, Left
<1>2. Len(buffer) \in screenTop..screenTop + screenHeight /\ ~strayed /\ ~misset
  BY DEF ScreenInv, BufferFits, Usual
<1>3. /\ 1 <= top /\ top <= bottom /\ bottom <= screenHeight /\ top \in Nat /\ bottom \in Nat
      /\ l \in top..bottom /\ lines = screenHeight
  BY <1>2 DEF ScreenInv, Within, InRegionUnlessStrayed, InRegion, TypeInv, TypeOK
<1>4. Rightly(Here) /\ Here.ok  BY <1>1, <1>2 DEF Rightly, Here
<1> QED  BY <1>1, <1>3, <1>4 DEF ScreenRows

\* A chunk that keeps to the screen plays well.
LEMMA OnScreenPlays ==
    ASSUME ScreenInv, Usual, reading, NEW s, OnScreen(Here, s), Leave(s)
    PROVE  PlaysWell
<1>1. /\ buffer' = s.buf /\ screenTop' = s.top /\ screenHeight' = screenHeight
      /\ lost' = IF s.ok THEN lost ELSE "index"
  BY DEF Leave
<1>2. /\ Here.buf = buffer /\ Here.top = screenTop /\ Here.ok
      /\ lost = "none" /\ screenHeight \in Nat \ {0} /\ screenTop \in Nat \ {0}
      /\ Len(buffer) \in Nat /\ Len(buffer) >= screenTop
      /\ Len(buffer) = screenTop + screenHeight => ~buffer[Len(buffer)]
  <2>1. lost = "none" /\ screenTop \in Nat \ {0} /\ Len(buffer) \in Nat
    BY LenProperties DEF ScreenInv, TypeInv, TypeOK
  <2>2. screenHeight \in Nat \ {0}  BY UsualRows
  <2>3. Len(buffer) >= screenTop  BY <2>1, <2>2 DEF ScreenInv, BufferFits
  <2> QED  BY <2>1, <2>2, <2>3 DEF Here, ScreenInv
<1>3. /\ Len(s.buf) \in s.top..s.top + screenHeight /\ s.top = screenTop
      /\ Len(s.buf) >= Len(buffer)
      /\ \A i \in 1..screenTop - 1 : s.buf[i] = buffer[i]
      /\ Len(s.buf) = screenTop + screenHeight /\ s.buf[Len(s.buf)] =>
            Len(buffer) = Len(s.buf) /\ buffer[Len(s.buf)]
      /\ Len(buffer) >= screenTop + screenHeight - 1 => s.ok
  BY <1>2 DEF OnScreen, Rightly
<1>4. Len(buffer') >= screenTop - 1  BY <1>1, <1>2, <1>3
<1>5. Len(buffer') = screenTop' + screenHeight' => ~buffer'[Len(buffer')]
  BY <1>1, <1>2, <1>3
<1>6. FilledScreen => lost' # "index"  BY <1>1, <1>2, <1>3 DEF FilledScreen
<1> QED  BY <1>1, <1>3, <1>4, <1>5, <1>6 DEF PlaysWell

\* A newline at the end of the region scrolls the whole screen.
LEMMA AppendPlays ==
    ASSUME ScreenInv, Usual, reading, Leave(AppendLine(Here))
    PROVE  /\ PlaysWell
           /\ \A i \in 1..Len(buffer) : buffer[i] => buffer'[i]
           /\ FilledScreen => screenTop' = screenTop + 1
<1> DEFINE t == AppendLine(Here)
           a == Len(buffer)
<1>0. Here \in Screens /\ screenHeight \in Nat \ {0}  BY UsualRows
<1>1. /\ buffer' = t.buf /\ screenTop' = t.top /\ screenHeight' = screenHeight
      /\ lost' = IF t.ok THEN lost ELSE "index"
  BY DEF Leave
<1>2. /\ t.ok = Here.ok
      /\ Full(Here) => /\ Len(t.buf) = Len(Here.buf) /\ t.top = Here.top + 1
                       /\ \A i \in 1..Len(Here.buf) - 1 : t.buf[i] = Here.buf[i]
      /\ ~Full(Here) => /\ Len(t.buf) = Len(Here.buf) + 1
                        /\ t.top = IF Len(Here.buf) = Here.top + screenHeight - 1
                                   THEN Here.top + 1 ELSE Here.top
                        /\ \A i \in 1..Len(Here.buf) : t.buf[i] = Here.buf[i]
  BY <1>0, AppendLineFacts
<1> HIDE DEF t
<1>3. /\ Here.buf = buffer /\ Here.top = screenTop /\ Here.ok
      /\ lost = "none" /\ screenTop \in Nat \ {0}
      /\ a \in Nat /\ a >= screenTop /\ a <= screenTop + screenHeight
      /\ a = screenTop + screenHeight => ~buffer[a]
  <2>1. lost = "none" /\ screenTop \in Nat \ {0} /\ Len(buffer) \in Nat
    BY LenProperties DEF ScreenInv, TypeInv, TypeOK
  <2>3. Len(buffer) >= screenTop /\ Len(buffer) <= screenTop + screenHeight
    BY <1>0, <2>1 DEF ScreenInv, BufferFits
  <2> QED  BY <2>1, <2>3 DEF Here, ScreenInv
<1>4. lost' # "index"  BY <1>1, <1>2, <1>3
<1> DEFINE n == IF a >= screenTop + screenHeight - 1 THEN screenTop + 1 ELSE screenTop
           b == Len(buffer')
<1>5. /\ screenTop' = n
      /\ b = IF a = screenTop + screenHeight THEN a ELSE a + 1
      /\ \A i \in 1..a : i < screenTop + screenHeight => buffer'[i] = buffer[i]
  <2>1. Full(Here) <=> a = screenTop + screenHeight  BY <1>0, <1>3 DEF Full
  <2>2. CASE a = screenTop + screenHeight
    <3>1. /\ Len(t.buf) = a /\ t.top = screenTop + 1
          /\ \A i \in 1..a - 1 : t.buf[i] = buffer[i]
      BY <1>2, <1>3, <2>1, <2>2
    <3>2. a >= screenTop + screenHeight - 1  BY <1>0, <1>3, <2>2
    <3>3. \A i \in 1..a : i < screenTop + screenHeight => i \in 1..a - 1  BY <1>3, <2>2
    <3> HIDE DEF a
    <3> QED  BY <1>1, <2>2, <3>1, <3>2, <3>3
  <2>3. CASE a # screenTop + screenHeight
    <3>1. /\ Len(t.buf) = a + 1
          /\ t.top = IF a = screenTop + screenHeight - 1 THEN screenTop + 1 ELSE screenTop
          /\ \A i \in 1..a : t.buf[i] = buffer[i]
      BY <1>2, <1>3, <2>1, <2>3
    <3>2. a >= screenTop + screenHeight - 1 <=> a = screenTop + screenHeight - 1
      BY <1>0, <1>3, <2>3
    <3> HIDE DEF a
    <3> QED  BY <1>1, <2>3, <3>1, <3>2
  <2> QED  BY <2>2, <2>3
<1>6. \A i \in 1..a : buffer[i] => buffer'[i]
  <2> SUFFICES ASSUME NEW i \in 1..a, buffer[i] PROVE buffer'[i]  OBVIOUS
  <2>1. i # screenTop + screenHeight  BY <1>0, <1>3
  <2>2. i < screenTop + screenHeight  BY <1>0, <1>3, <2>1
  <2> QED  BY <1>5, <2>2
<1>7. \A i \in 1..screenTop - 1 : buffer'[i] = buffer[i]
  <2>1. \A i \in 1..screenTop - 1 : i \in 1..a /\ i < screenTop + screenHeight
    BY <1>0, <1>3
  <2> QED  BY <1>5, <2>1
<1>8. FilledScreen => screenTop' = screenTop + 1  BY <1>5 DEF FilledScreen
<1>9. b \in screenTop'..screenTop' + screenHeight' /\ b # screenTop' + screenHeight'
      /\ b >= screenTop - 1
  <2> HIDE DEF a, b
  <2> QED  BY <1>0, <1>1, <1>3, <1>5
<1> QED  BY <1>1, <1>4, <1>6, <1>7, <1>8, <1>9 DEF PlaysWell

\* set_cursor adds lines up to the one below the cursor's.
LEMMA ReadEndPlays ==
    ASSUME ScreenInv, Usual, ReadEnd
    PROVE  PlaysWell
<1> DEFINE a == Len(buffer)
           n == screenTop + l - 1
<1>1. /\ buffer' = buffer \/ buffer' = CursorLine
      /\ screenTop' = screenTop /\ screenHeight' = screenHeight /\ lost' = lost /\ reading
  BY DEF ReadEnd
<1>2. /\ lost = "none" /\ screenTop \in Nat \ {0} /\ a \in Nat /\ a >= screenTop
      /\ a <= screenTop + screenHeight /\ screenHeight \in Nat \ {0}
      /\ a = screenTop + screenHeight => ~buffer[a]
  <2>1. lost = "none" /\ screenTop \in Nat \ {0} /\ Len(buffer) \in Nat
    BY <1>1, LenProperties DEF ScreenInv, TypeInv, TypeOK
  <2>2. screenHeight \in Nat \ {0}  BY UsualRows
  <2>3. Len(buffer) >= screenTop /\ Len(buffer) <= screenTop + screenHeight
    BY <2>1, <2>2 DEF ScreenInv, BufferFits
  <2> QED  BY <2>1, <2>2, <2>3 DEF ScreenInv
<1>3. l \in Nat /\ l <= screenHeight  BY UsualRows DEF ScreenRows
<1>4. CASE buffer' = buffer  BY <1>1, <1>2, <1>4 DEF PlaysWell
<1>5. CASE buffer' = CursorLine /\ buffer' # buffer
  <2>1. /\ n <= a => CursorLine = buffer
        /\ n > a => /\ Len(CursorLine) = n + 1 /\ ~CursorLine[n + 1]
                    /\ \A i \in 1..a : CursorLine[i] = buffer[i]
    BY CursorLineFacts DEF ScreenInv
  <2>2. n \in Nat /\ n <= screenTop + screenHeight - 1  BY <1>2, <1>3
  <2>3. n > a  BY <1>2, <1>5, <2>1, <2>2
  <2>4. /\ Len(buffer') = n + 1 /\ ~buffer'[n + 1] /\ \A i \in 1..a : buffer'[i] = buffer[i]
    BY <1>5, <2>1, <2>3
  <2>5. \A i \in 1..screenTop - 1 : i \in 1..a  BY <1>2
  <2> HIDE DEF n, a
  <2> QED  BY <1>1, <1>2, <2>2, <2>3, <2>4, <2>5 DEF PlaysWell
<1> QED  BY <1>1, <1>4, <1>5

\* A step that only moves the cursor or the region
LEMMA StayPlays ==
    ASSUME ScreenInv, Usual, reading, UNCHANGED scrVars, lost' # "index"
    PROVE  PlaysWell
<1>1. buffer' = buffer /\ screenTop' = screenTop /\ screenHeight' = screenHeight  BY DEF scrVars
<1>2. screenTop \in Nat \ {0} /\ Len(buffer) \in Nat
  BY LenProperties DEF ScreenInv, TypeInv, TypeOK
<1>3. screenHeight \in Nat \ {0}  BY UsualRows
<1>4. Len(buffer) >= screenTop /\ Len(buffer) <= screenTop + screenHeight
  BY <1>2, <1>3 DEF ScreenInv, BufferFits
<1> QED  BY <1>1, <1>2, <1>3, <1>4 DEF PlaysWell, ScreenInv

\* Every step of a read plays well, one case per action.
LEMMA StepPlays ==
    ASSUME ScreenInv, Usual, reading, Next
    PROVE  PlaysWell
<1>u. /\ Here \in Screens /\ Rightly(Here) /\ Here.ok
      /\ screenHeight \in Nat \ {0} /\ lines = screenHeight
      /\ l \in ScreenRows /\ top \in ScreenRows /\ bottom \in ScreenRows /\ top <= bottom
  BY UsualRows
<1>keep. TRUE \in BOOLEAN /\ FALSE \in BOOLEAN  OBVIOUS
<1>none. lost = "none"  BY DEF ScreenInv, TypeInv
<1>rows. Rows \subseteq Nat  BY DEF Rows
<1>still. ASSUME UNCHANGED <<scrVars, readVars>> PROVE PlaysWell
  <2>1. UNCHANGED scrVars /\ lost' # "index"  BY <1>none, <1>still DEF readVars
  <2> QED  BY <2>1, StayPlays
<1>set. ASSUME NEW s, OnScreen(Here, s), NEW row \in ScreenRows, NEW text \in BOOLEAN
        PROVE  OnScreen(Here, Set(s, row, text))
  <2>1. Rightly(s)  BY <1>set DEF OnScreen
  <2>2. OnScreen(s, Set(s, row, text))  BY <1>u, <2>1, SetOnScreen
  <2> QED  BY <1>u, <1>set, <2>2, OnScreenTransitive
<1>rewrite. ASSUME NEW s, OnScreen(Here, s), NEW row \in ScreenRows, NEW keep \in BOOLEAN
            PROVE  OnScreen(Here, Rewrite(s, row, keep))
  <2>1. Rightly(s)  BY <1>rewrite DEF OnScreen
  <2>2. OnScreen(s, Rewrite(s, row, keep))  BY <1>u, <2>1, RewriteOnScreen
  <2> QED  BY <1>u, <1>rewrite, <2>2, OnScreenTransitive
<1>here. OnScreen(Here, Here)  BY <1>u, OnScreenReflexive
<1>blank. ASSUME NEW first \in ScreenRows, NEW last \in 0..screenHeight, last >= first - 1,
                 NEW keep \in BOOLEAN
          PROVE  OnScreen(Here, Rewrite(Blank(Here, first, last), l, keep))
  <2>1. OnScreen(Here, Blank(Here, first, last))  BY <1>u, <1>blank, BlankOnScreen
  <2> QED  BY <1>u, <2>1, <1>rewrite
<1>1. CASE ReadStart  BY <1>1 DEF ReadStart
<1>2. CASE ReadEnd  BY <1>2, ReadEndPlays
<1>3. CASE PlainText
  <2>1. OnScreen(Here, Get(Here, l))  BY <1>u, GetOnScreen
  <2>2. OnScreen(Here, Set(Get(Here, l), l, TRUE))  BY <1>u, <1>keep, <2>1, <1>set
  <2> QED  BY <1>3, <2>2, OnScreenPlays DEF PlainText
<1>4. CASE ClearLine
  <2>1. CASE \E keep \in BOOLEAN : Leave(Rewrite(Here, l, keep))
    BY <1>u, <1>here, <1>rewrite, <2>1, OnScreenPlays
  <2>2. CASE Leave(Set(Here, l, FALSE))
    <3>1. OnScreen(Here, Set(Here, l, FALSE))  BY <1>u, <1>keep, <1>here, <1>set
    <3> QED  BY <2>2, <3>1, OnScreenPlays
  <2> QED  BY <1>4, <2>1, <2>2 DEF ClearLine
<1>5. CASE CtlNl
  <2>1. CASE Leave(Insert(Del(Here, top), bottom))
    <3>1. OnScreen(Here, Insert(Del(Here, top), bottom))  BY <1>u, DelInsertOnScreen
    <3> QED  BY <2>1, <3>1, OnScreenPlays
  <2>2. CASE Leave(AppendLine(Here))  BY <2>2, AppendPlays
  <2>3. CASE UNCHANGED <<scrVars, readVars>>  BY <2>3, <1>still
  <2> QED  BY <1>5, <2>1, <2>2, <2>3 DEF CtlNl
<1>6. ASSUME NEW n \in -MaxRow..MaxRow, CursorUpDown(n) PROVE PlaysWell
  BY <1>6, <1>still DEF CursorUpDown
<1>7. ASSUME NEW row \in Rows, Cursor(row) PROVE PlaysWell
  <2>1. l' = IF absolute THEN Bound(row, 1, lines) ELSE Bound(top + row - 1, top, bottom)
    BY <1>7 DEF Cursor
  <2>2. row \in Int  BY <1>rows
  <2>3. l' \in ScreenRows  BY <1>u, <2>1, <2>2 DEF ScreenRows, Bound
  <2>4. OnScreen(Here, Get(Here, l'))  BY <1>u, <2>3, GetOnScreen
  <2>5. OnScreen(Here, Rewrite(Get(Here, l'), l', TRUE))  BY <1>keep, <2>3, <2>4, <1>rewrite
  <2>6. Leave(Get(Here, l')) \/ Leave(Rewrite(Get(Here, l'), l', TRUE))  BY <1>7 DEF Cursor
  <2> QED  BY <2>4, <2>5, <2>6, OnScreenPlays
<1>8. CASE SetRegion \/ ResetRegion  BY <1>8, <1>still DEF SetRegion, ResetRegion, SetCoords
<1>9. CASE SetOrigin  BY <1>9, <1>still DEF SetOrigin
<1>10. CASE ScrollDown
  <2>1. CASE Leave(Insert(Del(Here, bottom), top))
    <3>1. OnScreen(Here, Insert(Del(Here, bottom), top))  BY <1>u, DelInsertOnScreen
    <3> QED  BY <2>1, <3>1, OnScreenPlays
  <2>2. CASE UNCHANGED <<scrVars, readVars>>  BY <2>2, <1>still
  <2> QED  BY <1>10, <2>1, <2>2 DEF ScrollDown
<1>11. CASE ClearDown
  <2>1. /\ Bound(l + 1, 1, lines) \in ScreenRows /\ lines \in 0..screenHeight
        /\ lines >= Bound(l + 1, 1, lines) - 1
    BY <1>u DEF ScreenRows, Bound
  <2> QED  BY <1>11, <2>1, <1>blank, OnScreenPlays DEF ClearDown
<1>12. CASE ClearUp
  <2>1. /\ 1 \in ScreenRows /\ Bound(l, 1, lines + 1) - 1 \in 0..screenHeight
        /\ Bound(l, 1, lines + 1) - 1 >= 1 - 1
    BY <1>u DEF ScreenRows, Bound
  <2> QED  BY <1>12, <2>1, <1>blank, OnScreenPlays DEF ClearUp
<1>13. CASE ClearScreen
  <2>1. UNCHANGED scrVars /\ lost' # "index"  BY <1>13 DEF ClearScreen
  <2> QED  BY <2>1, StayPlays
<1>14. ASSUME NEW h \in Heights, WindowChanges(h) PROVE PlaysWell
  BY <1>14 DEF WindowChanges
<1>15. CASE UpdateSize  BY <1>15 DEF UpdateSize
<1> QED
  BY <1>1, <1>2, <1>3, <1>4, <1>5, <1>6, <1>7, <1>8, <1>9, <1>10, <1>11, <1>12, <1>13,
     <1>14, <1>15 DEF Next

\* What a chunk does not undo: a cursor or a region that has left the screen.
LEMMA UsualBefore ==
    ASSUME TypeInv, reading, Next
    PROVE  (strayed => strayed') /\ (misset => misset')
<1>1. strayed \in BOOLEAN /\ misset \in BOOLEAN  BY DEF TypeInv, TypeOK
<1>2. CASE \E row \in Rows : Cursor(row)
  <2>1. strayed' = (strayed \/ ~InRegion(l')) /\ misset' = misset  BY <1>2 DEF Cursor
  <2> QED  BY <2>1
<1>3. CASE SetRegion \/ ResetRegion
  <2>1. PICK first, last : SetCoords(first, last)  BY <1>3 DEF SetRegion, ResetRegion
  <2>2. /\ strayed' = strayed
        /\ misset' = (misset \/ ~(1 <= first /\ first <= last /\ last <= screenHeight))
    BY <2>1 DEF SetCoords
  <2> QED  BY <2>2
<1>4. CASE ClearScreen
  <2>1. strayed' = (strayed \/ ~InRegion(1)) /\ misset' = misset  BY <1>4 DEF ClearScreen
  <2> QED  BY <2>1
<1>5. CASE \/ ReadEnd \/ PlainText \/ ClearLine \/ CtlNl
           \/ \E n \in -MaxRow..MaxRow : CursorUpDown(n)
           \/ SetOrigin \/ ScrollDown \/ ClearDown \/ ClearUp
  <2>1. UNCHANGED histVars
    BY <1>5 DEF ReadEnd, PlainText, ClearLine, CtlNl, CursorUpDown, SetOrigin, ScrollDown,
                ClearDown, ClearUp
  <2> QED  BY <2>1 DEF histVars
<1> QED
  BY <1>2, <1>3, <1>4, <1>5 DEF Next, ReadStart, WindowChanges, UpdateSize

\* No step of a read takes the region off the screen unnoticed.
LEMMA WithinNext ==
    ASSUME ~misset => Within, reading, Next
    PROVE  ~misset' => Within'
<1> USE DEF Within
<1>0. screenHeight' = screenHeight
  BY DEF Next, ReadStart, ReadEnd, PlainText, ClearLine, CtlNl, CursorUpDown, Cursor, SetRegion,
         ResetRegion, SetCoords, SetOrigin, ScrollDown, ClearDown, ClearUp, ClearScreen,
         WindowChanges, UpdateSize, scrVars, Leave
<1>1. CASE SetRegion \/ ResetRegion
  <2>1. PICK first, last : SetCoords(first, last)  BY <1>1 DEF SetRegion, ResetRegion
  <2> DEFINE within == 1 <= first /\ first <= last /\ last <= screenHeight
  <2>2. top' = first /\ bottom' = last /\ misset' = (misset \/ ~within)
    BY <2>1, Zenon DEF SetCoords
  <2>3. ~misset' => within
    <3> HIDE DEF within
    <3> QED  BY <2>2, Zenon
  <2> QED  BY <1>0, <2>2, <2>3
<1>2. CASE ~(SetRegion \/ ResetRegion)
  <2>1. top' = top /\ bottom' = bottom /\ misset' = misset
    BY <1>2 DEF Next, ReadStart, ReadEnd, PlainText, ClearLine, CtlNl, CursorUpDown, Cursor,
                SetOrigin, ScrollDown, ClearDown, ClearUp, ClearScreen, WindowChanges,
                UpdateSize, termVars, histVars
  <2> QED  BY <1>0, <2>1
<1> QED  BY <1>1, <1>2

LEMMA ScreenInit == Init => ScreenInv
<1> SUFFICES ASSUME Init PROVE ScreenInv  OBVIOUS
<1>no. PICK no \in BOOLEAN : no = FALSE  OBVIOUS
<1>1. buffer = <<no>>  BY <1>no DEF Init
<1>2. Len(buffer) = 1 /\ ~buffer[1]  BY <1>no, <1>1
<1>3. /\ screenTop = 1 /\ screenHeight = InitHeight /\ top = 1 /\ bottom = InitHeight
      /\ l = 1
  BY DEF Init
<1>4. InitHeight \in Nat \ {0}  BY HeightsAreRows
<1>5. TypeInv /\ InRegionUnlessStrayed
  BY <1>3, <1>4, TypeInit DEF InRegionUnlessStrayed, InRegion
<1>6. Within  BY <1>3, <1>4 DEF Within
<1> QED  BY <1>2, <1>3, <1>4, <1>5, <1>6 DEF ScreenInv, BufferFits

\* update_window_size aligns the screen with the end of the buffer.
LEMMA AlignedScreen ==
    ASSUME NEW a \in Nat, a >= 1, NEW h \in Nat \ {0}
    PROVE  LET t == Aligned(a, h)
           IN  t \in Nat \ {0} /\ a \in t..t + h /\ a # t + h
BY DEF Aligned, Larger

LEMMA ScreenNext == ScreenInv /\ [Next]_vars => ScreenInv'
<1> SUFFICES ASSUME ScreenInv, [Next]_vars PROVE ScreenInv'  OBVIOUS
<1>1. TypeInv /\ TypeInv' /\ InRegionUnlessStrayed'
  BY TypeNext, RowNext DEF ScreenInv
<1>2. /\ Len(buffer) \in Nat /\ Len(buffer) >= 1 /\ screenTop \in Nat \ {0}
      /\ winHeight \in Nat \ {0} /\ top \in Nat
  BY <1>1, HeightsAreRows, LenProperties DEF TypeInv, TypeOK
<1>3. ~misset => Within  BY DEF ScreenInv
<1>same. ASSUME UNCHANGED <<scrVars, top, bottom, strayed, misset>> PROVE ScreenInv'
  <2>1. /\ buffer' = buffer /\ screenTop' = screenTop /\ screenHeight' = screenHeight
        /\ top' = top /\ bottom' = bottom /\ strayed' = strayed /\ misset' = misset
    BY <1>same DEF scrVars
  <2>2. BufferFits' /\ (Usual' <=> Usual)  BY <2>1 DEF ScreenInv, BufferFits, Usual
  <2> QED  BY <1>1, <2>1, <2>2 DEF ScreenInv, Within
<1>4. CASE Next /\ reading
  <2>1. (strayed => strayed') /\ (misset => misset')  BY <1>1, <1>4, UsualBefore
  <2>2. ~misset' => Within'  BY <1>3, <1>4, WithinNext
  <2>3. CASE ~Usual
    <3>1. ~Usual'  BY <2>1, <2>3 DEF Usual
    <3> QED  BY <1>1, <2>2, <3>1 DEF ScreenInv, BufferFits
  <2>4. CASE Usual
    <3>1. PlaysWell  BY <1>4, <2>4, StepPlays
    <3> QED  BY <1>1, <2>2, <3>1 DEF ScreenInv, BufferFits, PlaysWell
  <2> QED  BY <2>3, <2>4
<1>5. CASE Next /\ ~reading
  <2>1. CASE UpdateSize
    <3>1. /\ screenHeight' = winHeight /\ top' = top /\ bottom' = winHeight /\ buffer' = buffer
          /\ screenTop' = Aligned(Len(buffer), winHeight)
      BY <2>1 DEF UpdateSize
    <3>6. Len(buffer') \in screenTop'..screenTop' + screenHeight'
          /\ Len(buffer') # screenTop' + screenHeight'
      BY <1>2, <3>1, AlignedScreen
    <3>7. ~misset' => Within'
      <4>1. misset' = (top \notin 1..winHeight)  BY <2>1, Zenon DEF UpdateSize
      <4>2. ~misset' => top \in 1..winHeight  BY <4>1, Zenon
      <4> QED  BY <1>2, <3>1, <4>2 DEF Within
    <3> QED  BY <1>1, <3>6, <3>7 DEF ScreenInv, BufferFits
  <2>2. CASE ReadStart \/ \E h \in Heights : WindowChanges(h)
    BY <2>2, <1>same DEF ReadStart, WindowChanges, termVars, histVars
  <2>3. ~(UpdateSize \/ ReadStart \/ \E h \in Heights : WindowChanges(h)) => reading
    BY <1>5
    DEF Next, ReadEnd, PlainText, ClearLine, CtlNl, CursorUpDown, Cursor, SetRegion,
        ResetRegion, SetCoords, SetOrigin, ScrollDown, ClearDown, ClearUp, ClearScreen, Chunk
  <2> QED  BY <1>5, <2>1, <2>2, <2>3
<1>6. CASE UNCHANGED vars  BY <1>6, <1>same DEF vars, termVars, histVars
<1> QED  BY <1>4, <1>5, <1>6

LEMMA Invariant == Spec => []ScreenInv
BY ScreenInit, ScreenNext, PTL DEF Spec

\* For every set of heights, every output and every change of the window, the buffer ends
\* with the screen or one line below it, as long as the cursor did not stray and no region
\* was set that is empty or off the screen.
THEOREM BufferAlwaysFits == Spec => []BufferFits
<1>1. ScreenInv => BufferFits  BY DEF ScreenInv
<1> QED  BY Invariant, <1>1, PTL

-----------------------------------------------------------------------------
(* What a step of a read may never do.                                       *)

\* Beginnings of buffers with the same lines are the same.
LEMMA SameBeginning ==
    ASSUME NEW b \in Seq(BOOLEAN), NEW c \in Seq(BOOLEAN), NEW n \in Nat,
           n <= Len(b), n <= Len(c), \A i \in 1..n : b[i] = c[i]
    PROVE  SubSeq(b, 1, n) = SubSeq(c, 1, n)
<1>1. ASSUME NEW d \in Seq(BOOLEAN), n <= Len(d)
      PROVE  /\ SubSeq(d, 1, n) \in Seq(BOOLEAN) /\ Len(SubSeq(d, 1, n)) = n
             /\ \A i \in 1..n : SubSeq(d, 1, n)[i] = d[i]
  <2> DEFINE p == SubSeq(d, 1, n)
  <2>1. \A i \in 1..n : d[i] \in BOOLEAN
    <3>1. Len(d) \in Nat  BY LenProperties
    <3>2. \A i \in 1..n : i \in 1..Len(d)  BY <1>1, <3>1
    <3> QED  BY <3>2, ElementOfSeq
  <2>2. /\ p \in Seq(BOOLEAN) /\ Len(p) = (IF 1 <= n THEN n - 1 + 1 ELSE 0)
        /\ \A i \in 1..n - 1 + 1 : p[i] = d[1 + i - 1]
    BY <2>1, SubSeqProperties
  <2> HIDE DEF p
  <2>3. p \in Seq(BOOLEAN) /\ Len(p) = n /\ \A i \in 1..n : p[i] = d[i]  BY <2>2
  <2> QED  BY <2>3 DEF p
<1> DEFINE p == SubSeq(b, 1, n)
           q == SubSeq(c, 1, n)
<1>2. /\ p \in Seq(BOOLEAN) /\ q \in Seq(BOOLEAN) /\ Len(p) = Len(q)
      /\ \A i \in 1..Len(p) : p[i] = q[i]
  BY <1>1
<1> HIDE DEF p, q
<1>3. p = q  BY <1>2, SeqEqual
<1> QED  BY <1>3 DEF p, q

\* For every set of heights, nothing the program sends writes into the scrollback, as long
\* as the cursor did not stray and no region was set that is empty or off the screen.
THEOREM ScrollbackStays == Spec => ScrollbackKept
<1>1. ASSUME ScreenInv, ScreenInv', [Next]_vars, Usual /\ reading
      PROVE  SubSeq(buffer', 1, screenTop - 1) = SubSeq(buffer, 1, screenTop - 1)
  <2>1. /\ buffer \in Seq(BOOLEAN) /\ buffer' \in Seq(BOOLEAN) /\ Len(buffer) \in Nat
        /\ screenTop \in Nat \ {0} /\ Len(buffer) >= screenTop
    <3>1. /\ buffer \in Seq(BOOLEAN) /\ buffer' \in Seq(BOOLEAN) /\ Len(buffer) \in Nat
          /\ screenTop \in Nat \ {0} /\ screenHeight \in Nat
      BY <1>1, HeightsAreRows, LenProperties DEF ScreenInv, TypeInv, TypeOK
    <3>2. Len(buffer) \in screenTop..screenTop + screenHeight
      BY <1>1 DEF ScreenInv, BufferFits
    <3> QED  BY <3>1, <3>2
  <2>2. CASE Next
    <3>1. PlaysWell  BY <1>1, <2>2, StepPlays
    <3>2. screenTop - 1 \in Nat /\ screenTop - 1 <= Len(buffer)
          /\ screenTop - 1 <= Len(buffer')
      <4> DEFINE b == Len(buffer')
      <4>1. b >= screenTop - 1  BY <3>1 DEF PlaysWell
      <4>2. b \in Nat  BY <2>1, LenProperties
      <4> HIDE DEF b
      <4>3. screenTop - 1 <= b  BY <2>1, <4>1, <4>2
      <4> QED  BY <2>1, <4>3 DEF b
    <3>3. \A i \in 1..screenTop - 1 : buffer'[i] = buffer[i]  BY <3>1 DEF PlaysWell
    <3> QED  BY <2>1, <3>2, <3>3, SameBeginning
  <2>3. CASE UNCHANGED vars  BY <2>3 DEF vars, scrVars
  <2> QED  BY <1>1, <2>2, <2>3
<1> QED  BY Invariant, <1>1, PTL DEF Spec, ScrollbackKept

\* For every set of heights, once the screen is filled no chunk raises an IndexError, so no
\* output is dropped but by a full clear, as long as the cursor did not stray and no region
\* was set that is empty or off the screen.
THEOREM FilledDropsNothing == Spec => FilledScreenDropsNothing
<1>1. ASSUME ScreenInv, [Next]_vars, reading /\ Usual /\ FilledScreen
      PROVE  lost' # "index"
  <2>1. CASE Next
    <3>1. PlaysWell  BY <1>1, <2>1, StepPlays
    <3> QED  BY <1>1, <3>1 DEF PlaysWell
  <2>2. CASE UNCHANGED vars
    <3>1. lost = "none" /\ lost' = lost
      BY <1>1, <2>2 DEF ScreenInv, TypeInv, vars, readVars
    <3> QED  BY <3>1
  <2> QED  BY <1>1, <2>1, <2>2
<1> QED  BY Invariant, <1>1, PTL DEF Spec, FilledScreenDropsNothing

\* For every set of heights, a newline erases no text, although append replaces the last
\* line of a buffer that is one line too long, and on a filled screen it moves the cursor
\* down the buffer by one line: as long as the cursor did not stray and no region was set
\* that is empty or off the screen.
THEOREM NewlinesScroll == Spec => NewlineScrolls
<1>1. ASSUME ScreenInv, CtlNl /\ Usual /\ lines = workingLines
      PROVE  /\ \A i \in 1..Len(buffer) : buffer[i] => buffer'[i]
             /\ FilledScreen => screenTop' + l' = screenTop + l + 1
  <2>1. screenTop \in Int /\ l \in Int /\ reading
    BY <1>1 DEF ScreenInv, TypeInv, TypeOK, CtlNl, Chunk
  <2>2. \/ Leave(AppendLine(Here)) /\ l' = l
        \/ l' = l + 1 /\ UNCHANGED <<scrVars, readVars>>
    BY <1>1 DEF CtlNl
  <2>3. CASE Leave(AppendLine(Here)) /\ l' = l
    <3>1. /\ \A i \in 1..Len(buffer) : buffer[i] => buffer'[i]
          /\ FilledScreen => screenTop' = screenTop + 1
      BY <1>1, <2>1, <2>3, AppendPlays
    <3>2. screenTop' = screenTop + 1 => screenTop' + l' = screenTop + l + 1  BY <2>1, <2>3
    <3> QED  BY <3>1, <3>2
  <2>4. CASE l' = l + 1 /\ UNCHANGED <<scrVars, readVars>>
    <3>1. buffer' = buffer /\ screenTop' + l' = screenTop + l + 1  BY <2>1, <2>4 DEF scrVars
    <3> QED  BY <3>1
  <2> QED  BY <2>2, <2>3, <2>4
<1>2. ScreenInv /\ [Next]_vars =>
        [(CtlNl /\ Usual /\ lines = workingLines) =>
          /\ \A i \in 1..Len(buffer) : buffer[i] => buffer'[i]
          /\ FilledScreen => screenTop' + l' = screenTop + l + 1]_vars
  BY <1>1
<1> QED  BY Invariant, <1>2, PTL DEF Spec, NewlineScrolls
=============================================================================
