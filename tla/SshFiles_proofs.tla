--------------------------- MODULE SshFiles_proofs ---------------------------
(***************************************************************************)
(* Proofs about the two OpenSSH files Tern reads, known_hosts and          *)
(* ssh_config, and about the host-pattern matcher that both use: what the  *)
(* host-key trust of HostKeys keeps, for any host, any known_hosts file to *)
(* start with and to import and any number of connection attempts; and     *)
(* what the scan of SshConfig makes of any files, whatever they include.   *)
(* The two share no state.                                                 *)
(***************************************************************************)
EXTENDS HostKeys, SshConfig, FiniteSetTheorems, WellFoundedInduction, TLAPS

-----------------------------------------------------------------------------
(* Recursion: the functions that Kept and GlobMatch define exist.           *)

\* Induction over the naturals for a set of them, from the least number that is
\* not in it.
LEMMA SetInduction ==
    ASSUME NEW P, 0 \in P, \A n \in Nat : n \in P => n + 1 \in P
    PROVE  Nat \subseteq P
<1> DEFINE Less == {ss \in Nat \X Nat : ss[1] < ss[2]}
<1> DEFINE Bad == {n \in Nat : n \notin P}
<1>1. IsWellFoundedOn(Less, Nat)
  BY NatLessThanWellFounded, Zenon DEF OpToRel
<1>2. SUFFICES ASSUME NEW b \in Bad PROVE FALSE
  OBVIOUS
<1>3. Bad \subseteq Nat
  OBVIOUS
<1> HIDE DEF Bad, Less
<1>4. PICK m \in Bad : \A u \in Bad : ~ (<<u, m>> \in Less)
  BY <1>1, <1>2, <1>3, WFMin, Zenon
<1> USE DEF Bad, Less
<1>5. m \in Nat /\ m # 0 /\ m \notin P
  BY <1>4
<1>6. m - 1 \in Nat /\ m - 1 + 1 = m /\ m - 1 < m
  BY <1>5
<1>7. m - 1 \notin P
  BY <1>5, <1>6
<1>8. <<m - 1, m>> \in Nat \X Nat /\ <<m - 1, m>>[1] = m - 1 /\ <<m - 1, m>>[2] = m
  BY <1>5, <1>6
<1>9. <<m - 1, m>> \in Less
  BY <1>6, <1>8
<1> QED
  BY <1>4, <1>6, <1>7, <1>9

\* One step of Kept, and the whole of it up to n.
Keep(f, s, S, i) == IF i = 0 THEN <<>> ELSE IF i \in S THEN Append(f[i - 1], s[i]) ELSE f[i - 1]
Keeps(f, s, S, n) == f = [i \in 0 .. n |-> Keep(f, s, S, i)]

\* The recursion that defines Kept has a solution.
LEMMA KeepExists ==
    ASSUME NEW s, NEW S, NEW n \in Nat
    PROVE  \E f : Keeps(f, s, S, n)
<1> DEFINE P == {m \in Nat : \E f : Keeps(f, s, S, m)}
<1>1. 0 \in P
  <2>1. PICK f : f = [i \in 0 .. 0 |-> <<>>]
    OBVIOUS
  <2>2. \A i \in 0 .. 0 : Keep(f, s, S, i) = <<>>
    BY DEF Keep
  <2>3. Keeps(f, s, S, 0)
    BY <2>1, <2>2 DEF Keeps
  <2> QED
    BY <2>3
<1>2. ASSUME NEW m \in Nat, m \in P
      PROVE  m + 1 \in P
  <2>1. PICK f : Keeps(f, s, S, m)
    BY <1>2
  <2>2. PICK g : g = [i \in 0 .. m + 1 |-> IF i = m + 1 THEN Keep(f, s, S, m + 1) ELSE f[i]]
    OBVIOUS
  <2>3. ASSUME NEW i \in 0 .. m + 1
        PROVE  g[i] = Keep(g, s, S, i)
    <3>1. i \in Nat /\ (i # 0 => i - 1 \in 0 .. m + 1 /\ i - 1 # m + 1)
      OBVIOUS
    <3>2. i # 0 => g[i - 1] = f[i - 1]
      BY <2>2, <3>1
    <3>3. Keep(g, s, S, i) = Keep(f, s, S, i)
      BY <3>1, <3>2, Zenon DEF Keep
    <3>4. i # m + 1 => i \in 0 .. m
      OBVIOUS
    <3>5. i \in 0 .. m => f[i] = Keep(f, s, S, i)
      BY <2>1, Zenon DEF Keeps
    <3>6. g[i] = IF i = m + 1 THEN Keep(f, s, S, m + 1) ELSE f[i]
      BY <2>2, Zenon
    <3> QED
      BY <3>3, <3>4, <3>5, <3>6, Zenon
  <2>4. g = [i \in 0 .. m + 1 |-> g[i]]
    BY <2>2, Zenon
  <2>5. Keeps(g, s, S, m + 1)
    BY <2>3, <2>4, Zenon DEF Keeps
  <2>6. m + 1 \in Nat
    OBVIOUS
  <2> QED
    BY <2>5, <2>6, Zenon
<1>3. Nat \subseteq P
  <2> HIDE DEF P
  <2> QED
    BY <1>1, <1>2, SetInduction, Zenon
<1> QED
  BY <1>3, Zenon

\* Kept, and so Removed and Imported, is a sequence of elements of s.
LEMMA KeptIsSequence ==
    ASSUME NEW A, NEW s \in Seq(A), NEW S
    PROVE  Kept(s, S) \in Seq(A)
<1>1. Len(s) \in Nat
  OBVIOUS
<1> DEFINE f == CHOOSE f : Keeps(f, s, S, Len(s))
<1>2. Keeps(f, s, S, Len(s))
  BY <1>1, KeepExists, Zenon
<1>3. Kept(s, S) = f[Len(s)]
  BY Zenon DEF Kept, Keeps, Keep
<1> HIDE DEF f
<1>4. \A n \in 0 .. Len(s) : f[n] = Keep(f, s, S, n)
  BY <1>2, Zenon DEF Keeps
<1> DEFINE P == {n \in Nat : n <= Len(s) => f[n] \in Seq(A)}
<1>5. 0 \in P
  <2>1. 0 \in 0 .. Len(s)
    BY <1>1
  <2>2. f[0] = <<>>
    BY <1>4, <2>1, Zenon DEF Keep
  <2>3. <<>> \in Seq(A) /\ 0 \in Nat
    OBVIOUS
  <2> QED
    BY <2>2, <2>3, Zenon
<1>6. ASSUME NEW n \in Nat, n \in P
      PROVE  n + 1 \in P
  <2>1. SUFFICES ASSUME n + 1 <= Len(s) PROVE f[n + 1] \in Seq(A)
    OBVIOUS
  <2>2. PICK m \in 0 .. Len(s) : m = n + 1 /\ m # 0 /\ m - 1 = n /\ m \in 1 .. Len(s)
    BY <1>1, <2>1
  <2>3. f[n] \in Seq(A)
    BY <1>1, <1>6, <2>1
  <2>4. f[m] = IF m \in S THEN Append(f[n], s[m]) ELSE f[n]
    BY <1>4, <2>2, Zenon DEF Keep
  <2>5. s[m] \in A
    BY <2>2
  <2>6. Append(f[n], s[m]) \in Seq(A)
    BY <2>3, <2>5
  <2> QED
    BY <2>2, <2>3, <2>4, <2>6, Zenon
<1>7. Nat \subseteq P
  <2> HIDE DEF P
  <2> QED
    BY <1>5, <1>6, SetInduction, Zenon
<1> QED
  BY <1>1, <1>3, <1>7

\* One turn of the loop of glob_match, and the whole of it.
Loop(f, p, v, s) ==
    IF s[2] = Len(v) THEN \A i \in s[1] + 1 .. Len(p) : p[i] = "*"
    ELSE IF s[1] < Len(p) /\ p[s[1] + 1] \in {"?", v[s[2] + 1]} THEN f[<<s[1] + 1, s[2] + 1, s[3], s[4]>>]
    ELSE IF s[1] < Len(p) /\ p[s[1] + 1] = "*" THEN f[<<s[1] + 1, s[2], s[1], s[2]>>]
    ELSE IF s[3] # NoStar THEN f[Backtrack(s[3], s[4])]
    ELSE FALSE
Loops(f, p, v) == f = [s \in LoopStates(p, v) |-> Loop(f, p, v, s)]

\* What every turn diminishes: the characters left to resume at, then what is
\* left of pattern and value.
Weight(p, v, s) == (Len(v) - s[4]) * (Len(p) + Len(v) + 1) + (Len(p) + Len(v) - s[1] - s[2])

\* The arithmetic of Weight: one character less to resume at outweighs the rest.
LEMMA Outweighs ==
    ASSUME NEW a \in Nat, NEW b \in Nat, NEW w \in Nat, NEW x \in Nat, NEW y \in Nat, a > b, y < w
    PROVE  b * w + y < a * w + x
<1>1. a - b - 1 \in Nat
  OBVIOUS
<1>2. PICK d \in Nat : d = a - b - 1
  BY <1>1
<1>3. a = b + 1 + d
  BY <1>2
<1>4. a * w = b * w + w + d * w
  BY <1>3
<1>5. d * w \in Nat /\ b * w \in Nat
  OBVIOUS
<1> QED
  BY <1>4, <1>5

\* A state of the loop by its parts.
LEMMA StateParts ==
    ASSUME NEW A, NEW p \in Seq(A), NEW v \in Seq(A), NEW s \in LoopStates(p, v)
    PROVE  /\ s[1] \in 0 .. Len(p) /\ s[2] \in 0 .. Len(v) /\ s[3] \in NoStar .. Len(p) /\ s[4] \in 0 .. Len(v)
           /\ s[3] < s[1] /\ s[4] <= s[2] /\ Len(p) \in Nat /\ Len(v) \in Nat /\ NoStar = -1
BY DEF LoopStates, NoStar

\* Four numbers that make a state.
LEMMA StateMade ==
    ASSUME NEW A, NEW p \in Seq(A), NEW v \in Seq(A),
           NEW a \in 0 .. Len(p), NEW b \in 0 .. Len(v), NEW c \in NoStar .. Len(p), NEW d \in 0 .. Len(v),
           c < a, d <= b
    PROVE  <<a, b, c, d>> \in LoopStates(p, v)
BY DEF LoopStates

\* Every turn of the loop stays among the states and diminishes the weight.
LEMMA LoopDescends ==
    ASSUME NEW A, NEW p \in Seq(A), NEW v \in Seq(A), NEW s \in LoopStates(p, v), s[2] # Len(v)
    PROVE  /\ s[1] < Len(p) => /\ <<s[1] + 1, s[2] + 1, s[3], s[4]>> \in LoopStates(p, v)
                               /\ Weight(p, v, <<s[1] + 1, s[2] + 1, s[3], s[4]>>) < Weight(p, v, s)
                               /\ <<s[1] + 1, s[2], s[1], s[2]>> \in LoopStates(p, v)
                               /\ Weight(p, v, <<s[1] + 1, s[2], s[1], s[2]>>) < Weight(p, v, s)
           /\ s[3] # NoStar => /\ Backtrack(s[3], s[4]) \in LoopStates(p, v)
                               /\ Weight(p, v, Backtrack(s[3], s[4])) < Weight(p, v, s)
           /\ Weight(p, v, s) \in Nat
<1>1. PICK a, b, c, d, lp, lv, w :
        /\ a = s[1] /\ b = s[2] /\ c = s[3] /\ d = s[4] /\ lp = Len(p) /\ lv = Len(v) /\ w = lp + lv + 1
  OBVIOUS
<1>2. /\ a \in 0 .. lp /\ b \in 0 .. lv /\ c \in -1 .. lp /\ d \in 0 .. lv /\ c < a /\ d <= b
      /\ lp \in Nat /\ lv \in Nat /\ NoStar = -1 /\ b # lv
  BY <1>1, StateParts
<1>9. w = lp + lv + 1
  BY <1>1, Zenon
<1>3. /\ w \in Nat /\ lv - d \in Nat /\ lp + lv - a - b \in Nat
  BY <1>2, <1>9
<1>4. Weight(p, v, s) = (lv - d) * w + (lp + lv - a - b)
  BY <1>1, Zenon DEF Weight
<1>5. (lv - d) * w \in Nat
  BY <1>3
<1>6. ASSUME a < lp
      PROVE  /\ <<a + 1, b + 1, c, d>> \in LoopStates(p, v)
             /\ Weight(p, v, <<a + 1, b + 1, c, d>>) < Weight(p, v, s)
  <2>1. /\ a + 1 \in 0 .. lp /\ b + 1 \in 0 .. lv /\ c < a + 1 /\ d <= b + 1
    BY <1>2, <1>6
  <2>2. <<a + 1, b + 1, c, d>> \in LoopStates(p, v)
    BY <1>1, <1>2, <2>1, StateMade
  <2>3. Weight(p, v, <<a + 1, b + 1, c, d>>) = (lv - d) * w + (lp + lv - (a + 1) - (b + 1))
    BY <1>1 DEF Weight
  <2>4. lp + lv - (a + 1) - (b + 1) < lp + lv - a - b
    BY <1>2
  <2> QED
    BY <1>2, <1>4, <1>5, <2>2, <2>3, <2>4
<1>7. ASSUME a < lp
      PROVE  /\ <<a + 1, b, a, b>> \in LoopStates(p, v)
             /\ Weight(p, v, <<a + 1, b, a, b>>) < Weight(p, v, s)
  <2>1. /\ a + 1 \in 0 .. lp /\ a < a + 1 /\ a \in NoStar .. lp
    BY <1>2, <1>7
  <2>2. <<a + 1, b, a, b>> \in LoopStates(p, v)
    BY <1>1, <1>2, <2>1, StateMade
  <2>3. Weight(p, v, <<a + 1, b, a, b>>) = (lv - b) * w + (lp + lv - (a + 1) - b)
    BY <1>1 DEF Weight
  <2>4. /\ lp + lv - (a + 1) - b < lp + lv - a - b /\ lp + lv - (a + 1) - b \in Nat
        /\ lv - b \in Nat /\ lp + lv - (a + 1) - b < w
    BY <1>2, <1>7, <1>9
  <2>5. CASE b = d
    BY <1>2, <1>4, <1>5, <2>2, <2>3, <2>4, <2>5
  <2>6. CASE b # d
    <3>1. lv - d > lv - b
      BY <1>2, <2>6
    <3>2. (lv - b) * w + (lp + lv - (a + 1) - b) < (lv - d) * w + (lp + lv - a - b)
      BY <1>3, <2>4, <3>1, Outweighs
    <3> QED
      BY <1>4, <2>2, <2>3, <3>2
  <2> QED
    BY <2>5, <2>6
<1>8. ASSUME c # NoStar
      PROVE  /\ Backtrack(c, d) \in LoopStates(p, v)
             /\ Weight(p, v, Backtrack(c, d)) < Weight(p, v, s)
  <2>1. Backtrack(c, d) = <<c + 1, d + 1, c, d + 1>>
    BY DEF Backtrack
  <2>2. /\ c + 1 \in 0 .. lp /\ d + 1 \in 0 .. lv /\ c < c + 1 /\ c \in NoStar .. lp /\ d + 1 <= d + 1
    BY <1>2, <1>8
  <2>3. <<c + 1, d + 1, c, d + 1>> \in LoopStates(p, v)
    BY <1>1, <1>2, <2>2, StateMade
  <2>4. Weight(p, v, <<c + 1, d + 1, c, d + 1>>) = (lv - (d + 1)) * w + (lp + lv - (c + 1) - (d + 1))
    BY <1>1 DEF Weight
  <2>5. /\ lp + lv - (c + 1) - (d + 1) \in Nat /\ lp + lv - (c + 1) - (d + 1) < w
        /\ lv - (d + 1) \in Nat /\ lv - d > lv - (d + 1)
    BY <1>2, <1>9, <2>2
  <2>6. (lv - (d + 1)) * w + (lp + lv - (c + 1) - (d + 1)) < (lv - d) * w + (lp + lv - a - b)
    BY <1>3, <2>5, Outweighs
  <2> QED
    BY <1>4, <2>1, <2>3, <2>4, <2>6
<1> QED
  BY <1>1, <1>3, <1>4, <1>5, <1>6, <1>7, <1>8

\* A turn looks at the result of one lighter state: functions that agree on the
\* lighter states agree on the turn.
LEMMA LoopLocal ==
    ASSUME NEW A, NEW p \in Seq(A), NEW v \in Seq(A), NEW s \in LoopStates(p, v), NEW f, NEW g,
           \A t \in LoopStates(p, v) : Weight(p, v, t) < Weight(p, v, s) => f[t] = g[t]
    PROVE  Loop(f, p, v, s) = Loop(g, p, v, s)
<1>1. CASE s[2] = Len(v)
  BY <1>1, Zenon DEF Loop
<1>2. CASE s[2] # Len(v)
  <2>1. s[1] < Len(p) => f[<<s[1] + 1, s[2] + 1, s[3], s[4]>>] = g[<<s[1] + 1, s[2] + 1, s[3], s[4]>>]
    BY <1>2, LoopDescends, Zenon
  <2>2. s[1] < Len(p) => f[<<s[1] + 1, s[2], s[1], s[2]>>] = g[<<s[1] + 1, s[2], s[1], s[2]>>]
    BY <1>2, LoopDescends, Zenon
  <2>3. s[3] # NoStar => f[Backtrack(s[3], s[4])] = g[Backtrack(s[3], s[4])]
    BY <1>2, LoopDescends, Zenon
  <2> QED
    BY <1>2, <2>1, <2>2, <2>3, Zenon DEF Loop
<1> QED
  BY <1>1, <1>2, Zenon

\* The weight of a state is a number.
LEMMA WeightType ==
    ASSUME NEW A, NEW p \in Seq(A), NEW v \in Seq(A), NEW s \in LoopStates(p, v)
    PROVE  Weight(p, v, s) \in Nat
<1>1. PICK lp, lv, w : lp = Len(p) /\ lv = Len(v) /\ w = lp + lv + 1
  OBVIOUS
<1>2. /\ s[1] \in 0 .. lp /\ s[2] \in 0 .. lv /\ s[4] \in 0 .. lv /\ lp \in Nat /\ lv \in Nat
  BY <1>1, StateParts, Zenon
<1>3. w = lp + lv + 1
  BY <1>1, Zenon
<1>4. w \in Nat /\ lv - s[4] \in Nat /\ lp + lv - s[1] - s[2] \in Nat
  <2>1. PICK a, b, d : a = s[1] /\ b = s[2] /\ d = s[4]
    OBVIOUS
  <2>2. a \in 0 .. lp /\ b \in 0 .. lv /\ d \in 0 .. lv /\ lp \in Nat /\ lv \in Nat
    BY <1>2, <2>1, Zenon
  <2>3. lp + lv + 1 \in Nat /\ lv - d \in Nat /\ lp + lv - a - b \in Nat
    BY <2>2
  <2> QED
    BY <1>3, <2>1, <2>3, Zenon
<1>5. (lv - s[4]) * w \in Nat
  BY <1>4
<1>6. Weight(p, v, s) = (lv - s[4]) * w + (lp + lv - s[1] - s[2])
  BY <1>1, Zenon DEF Weight
<1> QED
  BY <1>4, <1>5, <1>6

\* The recursion of GlobMatch has a solution: the loop ends from every state.
LEMMA LoopExists ==
    ASSUME NEW A, NEW p \in Seq(A), NEW v \in Seq(A)
    PROVE  \E f : Loops(f, p, v)
<1> DEFINE Upto(f, n) == /\ f = [s \in LoopStates(p, v) |-> f[s]]
                         /\ \A s \in LoopStates(p, v) : Weight(p, v, s) < n => f[s] = Loop(f, p, v, s)
<1> DEFINE P == {n \in Nat : \E f : Upto(f, n)}
<1>1. 0 \in P
  <2>1. PICK f : f = [s \in LoopStates(p, v) |-> FALSE]
    OBVIOUS
  <2>2. f = [s \in LoopStates(p, v) |-> f[s]]
    BY <2>1, Zenon
  <2>3. \A s \in LoopStates(p, v) : ~(Weight(p, v, s) < 0)
    <3>1. \A w \in Nat : ~(w < 0)
      OBVIOUS
    <3> QED
      BY <3>1, WeightType, Zenon
  <2>4. 0 \in Nat
    OBVIOUS
  <2> QED
    BY <2>2, <2>3, <2>4, Zenon
<1>2. ASSUME NEW n \in Nat, n \in P
      PROVE  n + 1 \in P
  <2>1. PICK f : Upto(f, n)
    BY <1>2
  <2>2. PICK g : g = [s \in LoopStates(p, v) |-> IF Weight(p, v, s) = n THEN Loop(f, p, v, s) ELSE f[s]]
    OBVIOUS
  <2>3. g = [s \in LoopStates(p, v) |-> g[s]]
    BY <2>2, Zenon
  <2>4. ASSUME NEW s \in LoopStates(p, v), Weight(p, v, s) < n + 1
        PROVE  g[s] = Loop(g, p, v, s)
    <3>1. PICK w \in Nat : w = Weight(p, v, s)
      BY WeightType, Zenon
    <3>2. w < n + 1
      BY <2>4, <3>1, Zenon
    <3>3. ASSUME NEW t \in LoopStates(p, v), Weight(p, v, t) < Weight(p, v, s)
          PROVE  g[t] = f[t]
      <4>1. PICK u \in Nat : u = Weight(p, v, t)
        BY WeightType, Zenon
      <4>2. u < w
        BY <3>1, <3>3, <4>1, Zenon
      <4>3. u # n
        BY <3>2, <4>2
      <4> QED
        BY <2>2, <4>1, <4>3, Zenon
    <3>4. Loop(g, p, v, s) = Loop(f, p, v, s)
      BY <3>3, LoopLocal, Zenon
    <3>5. w = n \/ w < n
      BY <3>2
    <3>6. w < n => f[s] = Loop(f, p, v, s)
      BY <2>1, <3>1, Zenon
    <3>7. g[s] = IF w = n THEN Loop(f, p, v, s) ELSE f[s]
      BY <2>2, <3>1, Zenon
    <3> QED
      BY <3>4, <3>5, <3>6, <3>7, Zenon
  <2>5. Upto(g, n + 1)
    BY <2>3, <2>4, Zenon
  <2>6. n + 1 \in Nat
    OBVIOUS
  <2> QED
    BY <2>5, <2>6, Zenon
<1>3. Nat \subseteq P
  <2> HIDE DEF P
  <2> QED
    BY <1>1, <1>2, SetInduction, Zenon
<1> DEFINE top == (Len(v) + 1) * (Len(p) + Len(v) + 1)
<1>4. top \in Nat
  <2>1. Len(v) \in Nat /\ Len(p) \in Nat
    OBVIOUS
  <2> QED
    BY <2>1
<1>5. \A s \in LoopStates(p, v) : Weight(p, v, s) < top
  <2> TAKE s \in LoopStates(p, v)
  <2>1. PICK lp, lv, w : lp = Len(p) /\ lv = Len(v) /\ w = lp + lv + 1
    OBVIOUS
  <2>2. /\ s[1] \in 0 .. lp /\ s[2] \in 0 .. lv /\ s[4] \in 0 .. lv /\ lp \in Nat /\ lv \in Nat
    BY <2>1, StateParts, Zenon
  <2>3. w = lp + lv + 1
    BY <2>1, Zenon
  <2>4. \A a \in 0 .. lp, b \in 0 .. lv, d \in 0 .. lv :
           /\ w \in Nat /\ lv - d \in Nat /\ lp + lv - a - b \in Nat /\ lv + 1 \in Nat
           /\ lp + lv - a - b < w /\ lv + 1 > lv - d /\ 0 \in Nat
    BY <2>2, <2>3
  <2>5. (lv - s[4]) * w + (lp + lv - s[1] - s[2]) < (lv + 1) * w + 0
    BY <2>2, <2>4, Outweighs
  <2>6. (lv + 1) * w + 0 = (lv + 1) * w
    BY <2>2, <2>3
  <2>7. Weight(p, v, s) = (lv - s[4]) * w + (lp + lv - s[1] - s[2]) /\ top = (lv + 1) * w
    BY <2>1, Zenon DEF Weight
  <2> QED
    BY <2>5, <2>6, <2>7, Zenon
<1>6. PICK f : Upto(f, top)
  BY <1>3, <1>4, Zenon
<1> HIDE DEF top
<1>7. Loops(f, p, v)
  BY <1>5, <1>6, Zenon DEF Loops
<1> QED
  BY <1>7, Zenon

\* What GlobMatch is: the result of the loop from the first characters.
LEMMA GlobLoop ==
    ASSUME NEW A, NEW p \in Seq(A), NEW v \in Seq(A)
    PROVE  \E f : /\ \A s \in LoopStates(p, v) : f[s] = Loop(f, p, v, s)
                  /\ GlobMatch(p, v) = f[<<0, 0, NoStar, 0>>]
<1> DEFINE f == CHOOSE f : Loops(f, p, v)
<1>1. Loops(f, p, v)
  BY LoopExists, Zenon
<1>2. GlobMatch(p, v) = f[<<0, 0, NoStar, 0>>]
  BY Zenon DEF GlobMatch, Loops, Loop
<1> HIDE DEF f
<1>3. \A s \in LoopStates(p, v) : f[s] = Loop(f, p, v, s)
  BY <1>1, Zenon DEF Loops
<1> QED
  BY <1>2, <1>3, Zenon

\* A name matches itself as a pattern, whatever characters it has: what learn
\* writes for a host is found again.
LEMMA GlobSelf ==
    ASSUME NEW A, NEW p \in Seq(A)
    PROVE  GlobMatch(p, p) = TRUE
<1>1. PICK f : /\ \A s \in LoopStates(p, p) : f[s] = Loop(f, p, p, s)
               /\ GlobMatch(p, p) = f[<<0, 0, NoStar, 0>>]
  BY GlobLoop, Zenon
<1>2. PICK l \in Nat : l = Len(p)
  OBVIOUS
<1> DEFINE at(i) == <<i, i, NoStar, 0>>
<1>3. \A i \in 0 .. l : at(i) \in LoopStates(p, p)
  <2>1. \A i \in 0 .. l : NoStar < i /\ 0 <= i /\ NoStar \in NoStar .. Len(p) /\ 0 \in 0 .. Len(p)
    BY <1>2 DEF NoStar
  <2> QED
    BY <1>2, <2>1, StateMade
<1>4. f[at(l)] = TRUE
  <2>0. l \in 0 .. l
    OBVIOUS
  <2>1. f[at(l)] = Loop(f, p, p, at(l))
    BY <1>1, <1>3, <2>0, Zenon
  <2>2. \A i \in l + 1 .. l : FALSE
    BY <1>2
  <2>3. at(l)[1] = l /\ at(l)[2] = l
    OBVIOUS
  <2>4. Loop(f, p, p, at(l)) = \A i \in l + 1 .. l : p[i] = "*"
    BY <1>2, <2>3, Zenon DEF Loop
  <2> QED
    BY <2>1, <2>2, <2>4
<1>5. \A i \in 0 .. l : i # l => f[at(i)] = f[at(i + 1)]
  <2>1. SUFFICES ASSUME NEW i \in 0 .. l, i # l PROVE f[at(i)] = f[at(i + 1)]
    OBVIOUS
  <2>2. f[at(i)] = Loop(f, p, p, at(i))
    BY <1>1, <1>3, Zenon
  <2>3. at(i)[1] = i /\ at(i)[2] = i /\ at(i)[3] = NoStar /\ at(i)[4] = 0
    OBVIOUS
  <2>4. i < Len(p) /\ i # Len(p)
    BY <1>2, <2>1
  <2> HIDE DEF at
  <2>5. Loop(f, p, p, at(i)) = f[<<i + 1, i + 1, NoStar, 0>>]
    BY <2>3, <2>4, Zenon DEF Loop
  <2> QED
    BY <2>2, <2>5, Zenon DEF at
<1> HIDE DEF at
<1> DEFINE P == {n \in Nat : n <= l => f[at(l - n)] = TRUE}
<1>6. 0 \in P
  <2>1. l - 0 = l
    BY <1>2
  <2> QED
    BY <1>4, <2>1
<1>7. ASSUME NEW n \in Nat, n \in P
      PROVE  n + 1 \in P
  <2>0. n + 1 \in Nat
    OBVIOUS
  <2>1. SUFFICES ASSUME n + 1 <= l PROVE f[at(l - (n + 1))] = TRUE
    BY <2>0, Zenon
  <2>2. PICK i \in 0 .. l : i = l - (n + 1) /\ i # l /\ i + 1 = l - n
    BY <2>1
  <2>3. f[at(l - n)] = TRUE
    BY <1>7, <2>1
  <2> QED
    BY <1>5, <2>2, <2>3, Zenon
<1>8. Nat \subseteq P
  <2> HIDE DEF P
  <2> QED
    BY <1>6, <1>7, SetInduction, Zenon
<1>9. l - l = 0
  OBVIOUS
<1>10. f[at(0)] = TRUE
  BY <1>8, <1>9
<1> QED
  BY <1>1, <1>10, Zenon DEF at

-----------------------------------------------------------------------------
(* What glob_match decides.                                                 *)

\* Element m of the pattern stands for the characters after a and up to b.
Piece(p, v, m, a, b) == \/ p[m] = "*" /\ b >= a
                        \/ b = a + 1 /\ p[m] \in {"?", v[b]}
\* The pattern behind its first i elements covers the value behind its first j
\* characters.
From(p, v, i, j) ==
    \E cut \in [i .. Len(p) -> 0 .. Len(v)] :
        /\ cut[i] = j /\ cut[Len(p)] = Len(v)
        /\ \A m \in i + 1 .. Len(p) : Piece(p, v, m, cut[m - 1], cut[m])

\* Denotes is From the start.
LEMMA DenotesFrom ==
    ASSUME NEW p, NEW v
    PROVE  Denotes(p, v) = From(p, v, 0, 0)
<1>1. 0 + 1 = 1
  OBVIOUS
<1> QED
  BY <1>1, Zenon DEF Denotes, From, Piece

\* Behind the last element nothing is left to cover.
LEMMA FromEnd ==
    ASSUME NEW A, NEW p \in Seq(A), NEW v \in Seq(A), NEW j \in 0 .. Len(v)
    PROVE  From(p, v, Len(p), j) <=> j = Len(v)
<1>1. PICK l \in Nat : l = Len(p)
  OBVIOUS
<1>2. l \in l .. l /\ \A m \in l + 1 .. l : FALSE
  BY <1>1
<1>3. ASSUME From(p, v, l, j)
      PROVE  j = Len(v)
  BY <1>1, <1>3, Zenon DEF From
<1>4. ASSUME j = Len(v)
      PROVE  From(p, v, l, j)
  <2>1. PICK cut : cut = [m \in l .. l |-> j]
    OBVIOUS
  <2>2. cut \in [l .. l -> 0 .. Len(v)] /\ cut[l] = j
    BY <1>2, <2>1
  <2> QED
    BY <1>1, <1>2, <1>4, <2>2, Zenon DEF From
<1> QED
  BY <1>1, <1>3, <1>4, Zenon

\* The next element covers some characters, and the elements behind it the rest.
LEMMA FromNext ==
    ASSUME NEW A, NEW p \in Seq(A), NEW v \in Seq(A), NEW i \in 0 .. Len(p), i < Len(p), NEW j \in 0 .. Len(v)
    PROVE  From(p, v, i, j) <=> \E b \in 0 .. Len(v) : Piece(p, v, i + 1, j, b) /\ From(p, v, i + 1, b)
<1>1. PICK l \in Nat : l = Len(p)
  OBVIOUS
<1>2. /\ i \in Nat /\ i < l /\ i \in i .. l /\ i + 1 \in i + 1 .. l /\ i + 1 \in i .. l /\ l \in i + 1 .. l /\ l \in i .. l
      /\ i + 1 - 1 = i
  BY <1>1
<1>3. /\ \A m \in i + 1 .. l : m \in i .. l /\ m - 1 \in i .. l /\ m # i
      /\ \A m \in i + 2 .. l : m \in i + 1 .. l /\ m - 1 \in i + 1 .. l
      /\ \A m \in i + 1 .. l : m = i + 1 \/ m \in i + 2 .. l
      /\ \A m \in i .. l : m # i => m \in i + 1 .. l
      /\ l # i /\ i + 1 + 1 = i + 2
  BY <1>2
<1>4. ASSUME From(p, v, i, j)
      PROVE  \E b \in 0 .. Len(v) : Piece(p, v, i + 1, j, b) /\ From(p, v, i + 1, b)
  <2>1. PICK cut \in [i .. l -> 0 .. Len(v)] :
           /\ cut[i] = j /\ cut[l] = Len(v)
           /\ \A m \in i + 1 .. l : Piece(p, v, m, cut[m - 1], cut[m])
    BY <1>1, <1>4, Zenon DEF From
  <2>2. PICK b \in 0 .. Len(v) : b = cut[i + 1]
    BY <1>2, <2>1
  <2>3. PICK rest : rest = [m \in i + 1 .. l |-> cut[m]]
    OBVIOUS
  <2>4. rest \in [i + 1 .. l -> 0 .. Len(v)]
    BY <1>3, <2>1, <2>3
  <2>5. rest[i + 1] = b /\ rest[l] = Len(v)
    BY <1>2, <2>1, <2>2, <2>3
  <2>6. \A m \in i + 2 .. l : rest[m - 1] = cut[m - 1] /\ rest[m] = cut[m]
    BY <1>3, <2>3
  <2>7. \A m \in i + 2 .. l : Piece(p, v, m, rest[m - 1], rest[m])
    BY <1>3, <2>1, <2>6, Zenon
  <2>8. From(p, v, i + 1, b)
    BY <1>1, <1>3, <2>4, <2>5, <2>7, Zenon DEF From
  <2>9. Piece(p, v, i + 1, j, b)
    <3>1. PICK m \in i + 1 .. l : m = i + 1 /\ m - 1 = i
      BY <1>2
    <3>2. Piece(p, v, m, cut[m - 1], cut[m])
      BY <2>1, Zenon
    <3>3. cut[m - 1] = j /\ cut[m] = b
      BY <2>1, <2>2, <3>1, Zenon
    <3> QED
      BY <3>1, <3>2, <3>3, Zenon
  <2> QED
    BY <2>8, <2>9
<1>5. ASSUME NEW b \in 0 .. Len(v), Piece(p, v, i + 1, j, b), From(p, v, i + 1, b)
      PROVE  From(p, v, i, j)
  <2>1. PICK rest \in [i + 1 .. l -> 0 .. Len(v)] :
           /\ rest[i + 1] = b /\ rest[l] = Len(v)
           /\ \A m \in i + 2 .. l : Piece(p, v, m, rest[m - 1], rest[m])
    BY <1>1, <1>3, <1>5, Zenon DEF From
  <2>2. PICK cut : cut = [m \in i .. l |-> IF m = i THEN j ELSE rest[m]]
    OBVIOUS
  <2>3. cut \in [i .. l -> 0 .. Len(v)]
    BY <1>3, <2>1, <2>2
  <2>4. cut[i] = j /\ \A m \in i + 1 .. l : cut[m] = rest[m]
    BY <1>2, <1>3, <2>2
  <2>5. cut[l] = Len(v) /\ cut[i + 1] = b
    BY <1>2, <2>1, <2>4
  <2>6. ASSUME NEW m \in i + 1 .. l
        PROVE  Piece(p, v, m, cut[m - 1], cut[m])
    <3>1. CASE m = i + 1
      <4>1. m - 1 = i
        BY <1>2, <3>1
      <4>2. cut[m - 1] = j /\ cut[m] = b
        BY <2>4, <2>5, <3>1, <4>1, Zenon
      <4> QED
        BY <1>5, <3>1, <4>2, Zenon
    <3>2. CASE m \in i + 2 .. l
      BY <1>3, <2>1, <2>4, <3>2, Zenon
    <3> QED
      BY <1>3, <3>1, <3>2
  <2> QED
    BY <1>1, <2>3, <2>4, <2>5, <2>6, Zenon DEF From
<1> QED
  BY <1>4, <1>5

\* A `*` may cover more: what can be covered from further on can be covered
\* from here.
LEMMA FromStar ==
    ASSUME NEW A, NEW p \in Seq(A), NEW v \in Seq(A), NEW i \in 0 .. Len(p), i < Len(p), p[i + 1] = "*", NEW j \in 0 .. Len(v)
    PROVE  From(p, v, i, j) <=> \E b \in j .. Len(v) : From(p, v, i + 1, b)
<1>1. \A b \in 0 .. Len(v) : b >= j <=> b \in j .. Len(v)
  OBVIOUS
<1>2. \A b \in j .. Len(v) : b \in 0 .. Len(v)
  OBVIOUS
<1>3. \A b \in 0 .. Len(v) : Piece(p, v, i + 1, j, b) <=> b >= j
  <2>1. \A b \in 0 .. Len(v) : b = j + 1 => b >= j
    OBVIOUS
  <2> QED
    BY <2>1, Zenon DEF Piece
<1>4. From(p, v, i, j) <=> \E b \in 0 .. Len(v) : Piece(p, v, i + 1, j, b) /\ From(p, v, i + 1, b)
  BY FromNext
<1> QED
  BY <1>1, <1>2, <1>3, <1>4, Zenon

\* Any other element covers exactly one character.
LEMMA FromLiteral ==
    ASSUME NEW A, NEW p \in Seq(A), NEW v \in Seq(A), NEW i \in 0 .. Len(p), i < Len(p), p[i + 1] # "*", NEW j \in 0 .. Len(v)
    PROVE  From(p, v, i, j) <=> j < Len(v) /\ p[i + 1] \in {"?", v[j + 1]} /\ From(p, v, i + 1, j + 1)
<1>1. From(p, v, i, j) <=> \E b \in 0 .. Len(v) : Piece(p, v, i + 1, j, b) /\ From(p, v, i + 1, b)
  BY FromNext
<1>2. \A b \in 0 .. Len(v) : Piece(p, v, i + 1, j, b) <=> b = j + 1 /\ p[i + 1] \in {"?", v[b]}
  BY Zenon DEF Piece
<1>3. j < Len(v) <=> j + 1 \in 0 .. Len(v)
  OBVIOUS
<1> QED
  BY <1>1, <1>2, <1>3, Zenon

\* With no characters left, every element left must be a `*`.
LEMMA FromEmpty ==
    ASSUME NEW A, NEW p \in Seq(A), NEW v \in Seq(A), NEW i \in 0 .. Len(p)
    PROVE  From(p, v, i, Len(v)) <=> \A m \in i + 1 .. Len(p) : p[m] = "*"
<1>1. PICK l \in Nat, e \in Nat : l = Len(p) /\ e = Len(v)
  OBVIOUS
<1> DEFINE P == {n \in Nat : n <= l => (From(p, v, l - n, e) <=> \A m \in l - n + 1 .. l : p[m] = "*")}
<1>2. 0 \in P
  <2>1. l - 0 = l /\ (\A m \in l + 1 .. l : p[m] = "*") /\ e \in 0 .. Len(v)
    BY <1>1
  <2>2. From(p, v, l, e)
    BY <1>1, <2>1, FromEnd
  <2> QED
    BY <2>1, <2>2
<1>3. ASSUME NEW n \in Nat, n \in P
      PROVE  n + 1 \in P
  <2>0. n + 1 \in Nat
    OBVIOUS
  <2>1. SUFFICES ASSUME n + 1 <= l
                 PROVE  From(p, v, l - (n + 1), e) <=> \A m \in l - (n + 1) + 1 .. l : p[m] = "*"
    BY <2>0
  <2>2. PICK h \in 0 .. Len(p) : h = l - (n + 1) /\ h + 1 = l - n /\ h < Len(p)
    <3>1. l - (n + 1) \in 0 .. l /\ l - (n + 1) + 1 = l - n /\ l - (n + 1) < l
      BY <2>1
    <3> QED
      BY <1>1, <3>1, Zenon
  <2>3. From(p, v, h + 1, e) <=> \A m \in h + 2 .. l : p[m] = "*"
    <3>1. From(p, v, l - n, e) <=> \A m \in l - n + 1 .. l : p[m] = "*"
      BY <1>3, <2>1
    <3>2. l - n + 1 = h + 2
      BY <2>2
    <3> QED
      BY <2>2, <3>1, <3>2, Zenon
  <2>4. (\A m \in h + 1 .. l : p[m] = "*") <=> p[h + 1] = "*" /\ \A m \in h + 2 .. l : p[m] = "*"
    <3>1. h + 1 \in h + 1 .. l /\ \A m \in h + 1 .. l : m = h + 1 \/ m \in h + 2 .. l
      BY <1>1, <2>2
    <3>2. \A m \in h + 2 .. l : m \in h + 1 .. l
      BY <1>1, <2>2
    <3> QED
      BY <3>1, <3>2, Zenon
  <2>5. e \in 0 .. Len(v) /\ ~(e < Len(v)) /\ \A b \in e .. Len(v) : b = e
    BY <1>1
  <2>6. e \in e .. Len(v)
    BY <1>1
  <2>7. CASE p[h + 1] = "*"
    <3>1. From(p, v, h, e) <=> \E b \in e .. Len(v) : From(p, v, h + 1, b)
      BY <2>2, <2>5, <2>7, FromStar, Zenon
    <3>2. From(p, v, h, e) <=> From(p, v, h + 1, e)
      BY <2>5, <2>6, <3>1, Zenon
    <3> QED
      BY <2>2, <2>3, <2>4, <2>7, <3>2, Zenon
  <2>8. CASE p[h + 1] # "*"
    <3>1. ~From(p, v, h, e)
      BY <2>2, <2>5, <2>8, FromLiteral, Zenon
    <3> QED
      BY <2>2, <2>4, <2>8, <3>1, Zenon
  <2> QED
    BY <2>7, <2>8
<1>4. Nat \subseteq P
  <2> HIDE DEF P
  <2> QED
    BY <1>2, <1>3, SetInduction, Zenon
<1>5. l - i \in Nat /\ l - i <= l /\ l - (l - i) = i
  BY <1>1
<1>6. From(p, v, l - (l - i), e) <=> \A m \in l - (l - i) + 1 .. l : p[m] = "*"
  BY <1>4, <1>5
<1> QED
  BY <1>1, <1>5, <1>6, Zenon

\* A run of elements without a `*` covers one character each: from j on, if at
\* all, it leaves the characters behind j + n.
LEMMA FromRun ==
    ASSUME NEW A, NEW p \in Seq(A), NEW v \in Seq(A), NEW i \in 0 .. Len(p), NEW j \in 0 .. Len(v),
           NEW n \in Nat, i + n <= Len(p), \A m \in i + 1 .. i + n : p[m] # "*", From(p, v, i, j)
    PROVE  j + n <= Len(v) /\ From(p, v, i + n, j + n)
<1>1. PICK l \in Nat, e \in Nat : l = Len(p) /\ e = Len(v)
  OBVIOUS
<1> DEFINE P == {k \in Nat : k <= n => j + k <= e /\ From(p, v, i + k, j + k)}
<1>2. 0 \in P
  <2>1. i + 0 = i /\ j + 0 = j /\ j <= e
    BY <1>1
  <2> QED
    BY <2>1
<1>3. ASSUME NEW k \in Nat, k \in P
      PROVE  k + 1 \in P
  <2>0. k + 1 \in Nat
    OBVIOUS
  <2>1. SUFFICES ASSUME k + 1 <= n
                 PROVE  j + (k + 1) <= e /\ From(p, v, i + (k + 1), j + (k + 1))
    BY <2>0
  <2>2. j + k <= e /\ From(p, v, i + k, j + k)
    BY <1>3, <2>1
  <2>3. PICK h \in 0 .. Len(p), g \in 0 .. Len(v) :
           h = i + k /\ g = j + k /\ h < Len(p) /\ h + 1 \in i + 1 .. i + n /\ h + 1 = i + (k + 1) /\ g + 1 = j + (k + 1)
    BY <1>1, <2>1, <2>2
  <2>4. g < Len(v) /\ From(p, v, h + 1, g + 1)
    BY <2>2, <2>3, FromLiteral, Zenon
  <2>5. g + 1 <= e
    BY <1>1, <2>4
  <2> QED
    BY <2>3, <2>4, <2>5, Zenon
<1>4. Nat \subseteq P
  <2> HIDE DEF P
  <2> QED
    BY <1>2, <1>3, SetInduction, Zenon
<1>5. n <= n
  OBVIOUS
<1> QED
  BY <1>1, <1>4, <1>5

\* Conversely, a run that matches the characters behind j one by one leads back
\* to j.
LEMMA RunFrom ==
    ASSUME NEW A, NEW p \in Seq(A), NEW v \in Seq(A), NEW i \in 0 .. Len(p), NEW j \in 0 .. Len(v),
           NEW n \in Nat, i + n <= Len(p), j + n <= Len(v),
           \A m \in 1 .. n : p[i + m] # "*" /\ p[i + m] \in {"?", v[j + m]},
           From(p, v, i + n, j + n)
    PROVE  From(p, v, i, j)
<1>1. PICK l \in Nat, e \in Nat : l = Len(p) /\ e = Len(v)
  OBVIOUS
<1> DEFINE P == {k \in Nat : k <= n => From(p, v, i + (n - k), j + (n - k))}
<1>2. 0 \in P
  <2>1. n - 0 = n
    OBVIOUS
  <2> QED
    BY <2>1
<1>3. ASSUME NEW k \in Nat, k \in P
      PROVE  k + 1 \in P
  <2>0. k + 1 \in Nat
    OBVIOUS
  <2>1. SUFFICES ASSUME k + 1 <= n
                 PROVE  From(p, v, i + (n - (k + 1)), j + (n - (k + 1)))
    BY <2>0
  <2>2. From(p, v, i + (n - k), j + (n - k))
    BY <1>3, <2>1
  <2>3. PICK h \in 0 .. Len(p), g \in 0 .. Len(v), m \in 1 .. n :
           /\ h = i + (n - (k + 1)) /\ g = j + (n - (k + 1)) /\ h < Len(p) /\ g < Len(v) /\ m = n - k
           /\ h + 1 = i + m /\ g + 1 = j + m
    <3>1. n - k \in 1 .. n /\ n - (k + 1) \in Nat
      BY <2>1
    <3>2. /\ i + (n - (k + 1)) \in 0 .. l /\ i + (n - (k + 1)) < l
          /\ j + (n - (k + 1)) \in 0 .. e /\ j + (n - (k + 1)) < e
          /\ i + (n - (k + 1)) + 1 = i + (n - k) /\ j + (n - (k + 1)) + 1 = j + (n - k)
      BY <1>1, <2>1, <3>1
    <3> QED
      BY <1>1, <3>1, <3>2
  <2>4. From(p, v, h + 1, g + 1)
    BY <2>2, <2>3, Zenon
  <2>5. p[h + 1] # "*" /\ p[h + 1] \in {"?", v[g + 1]}
    BY <2>3, Zenon
  <2>6. From(p, v, h, g)
    BY <2>3, <2>4, <2>5, FromLiteral, Zenon
  <2> QED
    BY <2>3, <2>6, Zenon
<1>4. Nat \subseteq P
  <2> HIDE DEF P
  <2> QED
    BY <1>2, <1>3, SetInduction, Zenon
<1>5. n <= n /\ i + (n - n) = i /\ j + (n - n) = j
  BY <1>1
<1> QED
  BY <1>4, <1>5

\* What the loop has seen since the last `*`: one character for each element.
Tracks(p, v, pi, vi, star, resume) ==
    star # NoStar => /\ pi = star + 1 + (vi - resume)
                     /\ \A m \in 1 .. vi - resume : /\ p[star + 1 + m] # "*"
                                                    /\ p[star + 1 + m] \in {"?", v[resume + m]}
\* What the loop is to find out: whether the rest can be covered, with the last
\* `*` covering as much more as it takes.
Goal(p, v, pi, vi, star, resume) ==
    IF star = NoStar THEN From(p, v, pi, vi) ELSE \E j \in resume .. Len(v) : From(p, v, star + 1, j)

\* The parts of a state of the loop are where they may be.
InLoop(p, v, pi, vi, star, resume) ==
    /\ pi \in 0 .. Len(p) /\ vi \in 0 .. Len(v) /\ star \in NoStar .. Len(p) /\ resume \in 0 .. Len(v)
    /\ star < pi /\ resume <= vi

\* A rest that can be covered from here can be covered with the last `*` as it
\* stands.
LEMMA GoalFromHere ==
    ASSUME NEW A, NEW p \in Seq(A), NEW v \in Seq(A), NEW pi, NEW vi, NEW star, NEW resume,
           InLoop(p, v, pi, vi, star, resume), Tracks(p, v, pi, vi, star, resume), From(p, v, pi, vi)
    PROVE  Goal(p, v, pi, vi, star, resume)
<1>1. CASE star = NoStar
  BY <1>1, Zenon DEF Goal
<1>2. CASE star # NoStar
  <2>1. PICK i, n : i = star + 1 /\ n = vi - resume
    OBVIOUS
  <2>2. /\ i \in 0 .. Len(p) /\ n \in Nat /\ i + n = pi /\ resume + n = vi /\ i + n <= Len(p) /\ resume + n <= Len(v)
        /\ resume \in 0 .. Len(v) /\ resume \in resume .. Len(v)
    BY <1>2, <2>1 DEF InLoop, Tracks, NoStar
  <2>3. \A m \in 1 .. n : p[i + m] # "*" /\ p[i + m] \in {"?", v[resume + m]}
    BY <1>2, <2>1, Zenon DEF Tracks
  <2>4. From(p, v, i + n, resume + n)
    BY <2>2, Zenon
  <2>5. From(p, v, i, resume)
    BY <2>2, <2>3, <2>4, RunFrom, Zenon
  <2> QED
    BY <1>2, <2>1, <2>2, <2>5, Zenon DEF Goal
<1> QED
  BY <1>1, <1>2, Zenon

\* Conversely, a later place for the last `*` moves the rest as much further.
LEMMA GoalElsewhere ==
    ASSUME NEW A, NEW p \in Seq(A), NEW v \in Seq(A), NEW pi, NEW vi, NEW star, NEW resume,
           InLoop(p, v, pi, vi, star, resume), Tracks(p, v, pi, vi, star, resume), star # NoStar,
           NEW j \in resume .. Len(v), From(p, v, star + 1, j)
    PROVE  /\ j + (vi - resume) \in vi .. Len(v) /\ From(p, v, pi, j + (vi - resume))
           /\ j + (vi - resume) = vi => j = resume
<1>1. PICK i, n : i = star + 1 /\ n = vi - resume
  OBVIOUS
<1>2. /\ i \in 0 .. Len(p) /\ n \in Nat /\ i + n = pi /\ i + n <= Len(p) /\ j \in 0 .. Len(v)
  BY <1>1 DEF InLoop, Tracks, NoStar
<1>3. \A m \in 1 .. n : p[i + m] # "*"
  BY <1>1, Zenon DEF Tracks
<1>4. \A m \in i + 1 .. i + n : p[m] # "*"
  <2> TAKE m \in i + 1 .. i + n
  <2>1. PICK k \in 1 .. n : i + k = m
    <3>1. m - i \in 1 .. n /\ i + (m - i) = m
      BY <1>2
    <3> QED
      BY <3>1
  <2> QED
    BY <1>3, <2>1, Zenon
<1>5. From(p, v, i, j)
  BY <1>1, Zenon
<1>6. j + n <= Len(v) /\ From(p, v, i + n, j + n)
  BY <1>2, <1>4, <1>5, FromRun, Zenon
<1>7. j + n \in vi .. Len(v) /\ (j + n = vi => j = resume)
  BY <1>1, <1>2, <1>6 DEF InLoop
<1> QED
  BY <1>1, <1>2, <1>6, <1>7, Zenon

\* The value is used up: the pattern's rest must be stars.
LEMMA GoalAtEnd ==
    ASSUME NEW A, NEW p \in Seq(A), NEW v \in Seq(A), NEW pi, NEW vi, NEW star, NEW resume,
           InLoop(p, v, pi, vi, star, resume), Tracks(p, v, pi, vi, star, resume), vi = Len(v)
    PROVE  Goal(p, v, pi, vi, star, resume) <=> \A i \in pi + 1 .. Len(p) : p[i] = "*"
<1>1. From(p, v, pi, vi) <=> \A i \in pi + 1 .. Len(p) : p[i] = "*"
  BY FromEmpty DEF InLoop
<1>2. ASSUME Goal(p, v, pi, vi, star, resume)
      PROVE  From(p, v, pi, vi)
  <2>1. CASE star = NoStar
    BY <1>2, <2>1, Zenon DEF Goal
  <2>2. CASE star # NoStar
    <3>1. PICK j \in resume .. Len(v) : From(p, v, star + 1, j)
      BY <1>2, <2>2, Zenon DEF Goal
    <3>2. j + (vi - resume) \in vi .. Len(v) /\ From(p, v, pi, j + (vi - resume))
      BY <2>2, <3>1, GoalElsewhere, Zenon
    <3>3. j + (vi - resume) = vi
      BY <3>2 DEF InLoop
    <3> QED
      BY <3>2, <3>3, Zenon
  <2> QED
    BY <2>1, <2>2, Zenon
<1> QED
  BY <1>1, <1>2, GoalFromHere, Zenon

\* A literal or `?` fits and both advance.
LEMMA GoalLiteral ==
    ASSUME NEW A, NEW p \in Seq(A), NEW v \in Seq(A), NEW pi, NEW vi, NEW star, NEW resume,
           InLoop(p, v, pi, vi, star, resume), Tracks(p, v, pi, vi, star, resume), vi # Len(v),
           pi < Len(p), p[pi + 1] # "*", p[pi + 1] \in {"?", v[vi + 1]}
    PROVE  /\ Tracks(p, v, pi + 1, vi + 1, star, resume)
           /\ Goal(p, v, pi + 1, vi + 1, star, resume) <=> Goal(p, v, pi, vi, star, resume)
<1>1. CASE star = NoStar
  <2>1. pi \in 0 .. Len(p) /\ vi \in 0 .. Len(v) /\ vi < Len(v)
    BY DEF InLoop
  <2>2. From(p, v, pi, vi) <=> From(p, v, pi + 1, vi + 1)
    BY <2>1, FromLiteral
  <2> QED
    BY <1>1, <2>2, Zenon DEF Goal, Tracks
<1>2. CASE star # NoStar
  <2>1. PICK n \in Nat : n = vi - resume /\ pi = star + 1 + n
    BY <1>2 DEF InLoop, Tracks
  <2>2. /\ vi + 1 - resume = n + 1 /\ pi + 1 = star + 1 + (n + 1) /\ vi + 1 = resume + (n + 1)
        /\ pi + 1 = star + 1 + (vi + 1 - resume)
    BY <1>2, <2>1 DEF InLoop, NoStar
  <2>3. \A m \in 1 .. n + 1 : m = n + 1 \/ m \in 1 .. n
    OBVIOUS
  <2>4. \A m \in 1 .. n : p[star + 1 + m] # "*" /\ p[star + 1 + m] \in {"?", v[resume + m]}
    BY <1>2, <2>1, Zenon DEF Tracks
  <2>5. \A m \in 1 .. n + 1 : p[star + 1 + m] # "*" /\ p[star + 1 + m] \in {"?", v[resume + m]}
    BY <2>2, <2>3, <2>4, Zenon
  <2>6. Tracks(p, v, pi + 1, vi + 1, star, resume)
    <3>1. PICK a, b : a = pi + 1 /\ b = vi + 1
      OBVIOUS
    <3>2. a = star + 1 + (b - resume) /\ b - resume = n + 1
      BY <2>1, <2>2, <3>1 DEF InLoop, NoStar
    <3>3. \A m \in 1 .. b - resume : p[star + 1 + m] # "*" /\ p[star + 1 + m] \in {"?", v[resume + m]}
      BY <2>5, <3>2, Zenon
    <3>4. Tracks(p, v, a, b, star, resume)
      BY <3>2, <3>3, Zenon DEF Tracks
    <3> QED
      BY <3>1, <3>4, Zenon
  <2> QED
    BY <1>2, <2>6, Zenon DEF Goal
<1> QED
  BY <1>1, <1>2, Zenon

\* A `*` is met: it is the last one now.
LEMMA GoalStar ==
    ASSUME NEW A, NEW p \in Seq(A), NEW v \in Seq(A), NEW pi, NEW vi, NEW star, NEW resume,
           InLoop(p, v, pi, vi, star, resume), Tracks(p, v, pi, vi, star, resume), pi < Len(p), p[pi + 1] = "*"
    PROVE  /\ Tracks(p, v, pi + 1, vi, pi, vi)
           /\ Goal(p, v, pi + 1, vi, pi, vi) <=> Goal(p, v, pi, vi, star, resume)
<1>1. pi \in 0 .. Len(p) /\ vi \in 0 .. Len(v) /\ pi # NoStar
  BY DEF InLoop, NoStar
<1>2. vi - vi = 0 /\ pi + 1 = pi + 1 + (vi - vi) /\ \A m \in 1 .. 0 : FALSE
  BY <1>1
<1>3. Tracks(p, v, pi + 1, vi, pi, vi)
  BY <1>2, Zenon DEF Tracks
<1>4. Goal(p, v, pi + 1, vi, pi, vi) <=> \E b \in vi .. Len(v) : From(p, v, pi + 1, b)
  BY <1>1, Zenon DEF Goal
<1>5. From(p, v, pi, vi) <=> \E b \in vi .. Len(v) : From(p, v, pi + 1, b)
  BY <1>1, FromStar
<1>6. ASSUME Goal(p, v, pi, vi, star, resume)
      PROVE  From(p, v, pi, vi)
  <2>1. CASE star = NoStar
    BY <1>6, <2>1, Zenon DEF Goal
  <2>2. CASE star # NoStar
    <3>1. PICK j \in resume .. Len(v) : From(p, v, star + 1, j)
      BY <1>6, <2>2, Zenon DEF Goal
    <3>6. j + (vi - resume) \in vi .. Len(v) /\ From(p, v, pi, j + (vi - resume))
      BY <2>2, <3>1, GoalElsewhere, Zenon
    <3>2. PICK x \in vi .. Len(v) : From(p, v, pi, x)
      BY <3>6, Zenon
    <3>3. x \in 0 .. Len(v)
      BY <1>1
    <3>4. From(p, v, pi, x) <=> \E b \in x .. Len(v) : From(p, v, pi + 1, b)
      BY <1>1, <3>3, FromStar
    <3>5. \A b \in x .. Len(v) : b \in vi .. Len(v)
      BY <1>1
    <3> QED
      BY <1>5, <3>2, <3>4, <3>5, Zenon
  <2> QED
    BY <2>1, <2>2, Zenon
<1> QED
  BY <1>3, <1>4, <1>5, <1>6, GoalFromHere, Zenon

\* Nothing fits here, so the rest cannot be covered from here.
LEMMA NothingFits ==
    ASSUME NEW A, NEW p \in Seq(A), NEW v \in Seq(A), NEW pi \in 0 .. Len(p), NEW vi \in 0 .. Len(v), vi # Len(v),
           ~(pi < Len(p) /\ p[pi + 1] \in {"?", v[vi + 1]}), ~(pi < Len(p) /\ p[pi + 1] = "*")
    PROVE  ~From(p, v, pi, vi)
<1>1. CASE pi < Len(p)
  BY <1>1, FromLiteral
<1>2. CASE ~(pi < Len(p))
  <2>1. pi = Len(p)
    BY <1>2
  <2> QED
    BY <2>1, FromEnd
<1> QED
  BY <1>1, <1>2

\* The last `*` takes one character more.
LEMMA GoalBacktrack ==
    ASSUME NEW A, NEW p \in Seq(A), NEW v \in Seq(A), NEW pi, NEW vi, NEW star, NEW resume,
           InLoop(p, v, pi, vi, star, resume), Tracks(p, v, pi, vi, star, resume), star # NoStar, ~From(p, v, pi, vi)
    PROVE  /\ Tracks(p, v, star + 1, resume + 1, star, resume + 1)
           /\ Goal(p, v, star + 1, resume + 1, star, resume + 1) <=> Goal(p, v, pi, vi, star, resume)
<1>2. Tracks(p, v, star + 1, resume + 1, star, resume + 1)
  <2>1. PICK r : r = resume + 1
    OBVIOUS
  <2>2. star + 1 = star + 1 + (r - r) /\ \A m \in 1 .. r - r : FALSE
    BY <2>1 DEF InLoop, NoStar
  <2>3. Tracks(p, v, star + 1, r, star, r)
    BY <2>2, Zenon DEF Tracks
  <2> QED
    BY <2>1, <2>3, Zenon
<1>3. ~From(p, v, star + 1, resume)
  <2>1. SUFFICES ASSUME From(p, v, star + 1, resume) PROVE FALSE
    OBVIOUS
  <2>2. resume \in resume .. Len(v) /\ resume + (vi - resume) = vi
    BY DEF InLoop
  <2>3. From(p, v, pi, resume + (vi - resume))
    BY <2>1, <2>2, GoalElsewhere, Zenon
  <2> QED
    BY <2>2, <2>3, Zenon
<1>4. /\ \A j \in resume .. Len(v) : j = resume \/ j \in resume + 1 .. Len(v)
      /\ \A j \in resume + 1 .. Len(v) : j \in resume .. Len(v)
  BY DEF InLoop
<1> QED
  BY <1>2, <1>3, <1>4, Zenon DEF Goal

\* One turn of the loop keeps the answer: if the lighter states have theirs,
\* this one has its.
LEMMA TurnIsRight ==
    ASSUME NEW A, NEW p \in Seq(A), NEW v \in Seq(A), \A i \in DOMAIN v : v[i] # "*",
           NEW s \in LoopStates(p, v), Tracks(p, v, s[1], s[2], s[3], s[4]), NEW f,
           \A t \in LoopStates(p, v) :
               Weight(p, v, t) < Weight(p, v, s) /\ Tracks(p, v, t[1], t[2], t[3], t[4])
                   => f[t] = Goal(p, v, t[1], t[2], t[3], t[4])
    PROVE  Loop(f, p, v, s) = Goal(p, v, s[1], s[2], s[3], s[4])
<1>1. PICK pi, vi, star, resume : pi = s[1] /\ vi = s[2] /\ star = s[3] /\ resume = s[4]
  OBVIOUS
<1>2. InLoop(p, v, pi, vi, star, resume) /\ pi \in 0 .. Len(p) /\ vi \in 0 .. Len(v)
  BY <1>1, StateParts, Zenon DEF InLoop
<1>3. Tracks(p, v, pi, vi, star, resume)
  BY <1>1, Zenon
<1>4. Goal(p, v, pi, vi, star, resume) \in BOOLEAN
  BY Zenon DEF Goal, From
<1>5. CASE vi = Len(v)
  <2>1. Goal(p, v, pi, vi, star, resume) <=> \A i \in pi + 1 .. Len(p) : p[i] = "*"
    BY <1>2, <1>3, <1>5, GoalAtEnd, Zenon
  <2>2. Loop(f, p, v, s) = \A i \in pi + 1 .. Len(p) : p[i] = "*"
    BY <1>1, <1>5, Zenon DEF Loop
  <2> QED
    BY <1>1, <1>4, <2>1, <2>2, Zenon
<1>6. CASE vi # Len(v)
  <2>0. s[2] # Len(v)
    BY <1>1, <1>6, Zenon
  <2>1. CASE pi < Len(p) /\ p[pi + 1] \in {"?", v[vi + 1]}
    <3>1. p[pi + 1] # "*"
      <4>1. vi + 1 \in DOMAIN v
        BY <1>2, <1>6
      <4> QED
        BY <2>1, <4>1
    <3>2. /\ Tracks(p, v, pi + 1, vi + 1, star, resume)
          /\ Goal(p, v, pi + 1, vi + 1, star, resume) <=> Goal(p, v, pi, vi, star, resume)
      BY <1>2, <1>3, <1>6, <2>1, <3>1, GoalLiteral, Zenon
    <3>3. PICK t : t = <<pi + 1, vi + 1, star, resume>>
      OBVIOUS
    <3>4. t[1] = pi + 1 /\ t[2] = vi + 1 /\ t[3] = star /\ t[4] = resume
      BY <3>3
    <3>5. t \in LoopStates(p, v) /\ Weight(p, v, t) < Weight(p, v, s)
      BY <1>1, <2>0, <2>1, <3>3, LoopDescends, Zenon
    <3>6. f[t] = Goal(p, v, pi + 1, vi + 1, star, resume)
      BY <3>2, <3>4, <3>5, Zenon
    <3>7. Loop(f, p, v, s) = f[t]
      BY <1>1, <1>6, <2>1, <3>3, Zenon DEF Loop
    <3>8. Goal(p, v, pi + 1, vi + 1, star, resume) \in BOOLEAN
      BY Zenon DEF Goal, From
    <3> QED
      BY <1>1, <1>4, <3>2, <3>6, <3>7, <3>8, Zenon
  <2>2. CASE ~(pi < Len(p) /\ p[pi + 1] \in {"?", v[vi + 1]}) /\ pi < Len(p) /\ p[pi + 1] = "*"
    <3>2. /\ Tracks(p, v, pi + 1, vi, pi, vi)
          /\ Goal(p, v, pi + 1, vi, pi, vi) <=> Goal(p, v, pi, vi, star, resume)
      BY <1>2, <1>3, <2>2, GoalStar, Zenon
    <3>3. PICK t : t = <<pi + 1, vi, pi, vi>>
      OBVIOUS
    <3>4. t[1] = pi + 1 /\ t[2] = vi /\ t[3] = pi /\ t[4] = vi
      BY <3>3
    <3>5. t \in LoopStates(p, v) /\ Weight(p, v, t) < Weight(p, v, s)
      BY <1>1, <2>0, <2>2, <3>3, LoopDescends, Zenon
    <3>6. f[t] = Goal(p, v, pi + 1, vi, pi, vi)
      BY <3>2, <3>4, <3>5, Zenon
    <3>7. Loop(f, p, v, s) = f[t]
      BY <1>1, <1>6, <2>2, <3>3, Zenon DEF Loop
    <3>8. Goal(p, v, pi + 1, vi, pi, vi) \in BOOLEAN
      BY Zenon DEF Goal, From
    <3> QED
      BY <1>1, <1>4, <3>2, <3>6, <3>7, <3>8, Zenon
  <2>3. CASE ~(pi < Len(p) /\ p[pi + 1] \in {"?", v[vi + 1]}) /\ ~(pi < Len(p) /\ p[pi + 1] = "*")
    <3>0. ~From(p, v, pi, vi)
      BY <1>2, <1>6, <2>3, NothingFits, Zenon
    <3>1. CASE star = NoStar
      <4>1. Loop(f, p, v, s) = FALSE
        BY <1>1, <1>6, <2>3, <3>1, Zenon DEF Loop
      <4>2. ~Goal(p, v, pi, vi, star, resume)
        BY <3>0, <3>1, Zenon DEF Goal
      <4>3. Goal(p, v, pi, vi, star, resume) = FALSE
        BY <1>4, <4>2, Zenon
      <4> QED
        BY <1>1, <4>1, <4>3, Zenon
    <3>2. CASE star # NoStar
      <4>2. /\ Tracks(p, v, star + 1, resume + 1, star, resume + 1)
            /\ Goal(p, v, star + 1, resume + 1, star, resume + 1) <=> Goal(p, v, pi, vi, star, resume)
        BY <1>2, <1>3, <3>0, <3>2, GoalBacktrack, Zenon
      <4>3. PICK t : t = Backtrack(star, resume)
        OBVIOUS
      <4>4. t[1] = star + 1 /\ t[2] = resume + 1 /\ t[3] = star /\ t[4] = resume + 1
        BY <4>3 DEF Backtrack
      <4>5. t \in LoopStates(p, v) /\ Weight(p, v, t) < Weight(p, v, s)
        BY <1>1, <2>0, <3>2, <4>3, LoopDescends, Zenon
      <4>6. f[t] = Goal(p, v, star + 1, resume + 1, star, resume + 1)
        BY <4>2, <4>4, <4>5, Zenon
      <4>7. Loop(f, p, v, s) = f[t]
        BY <1>1, <1>6, <2>3, <3>2, <4>3, Zenon DEF Loop
      <4>8. Goal(p, v, star + 1, resume + 1, star, resume + 1) \in BOOLEAN
        BY Zenon DEF Goal, From
      <4> QED
        BY <1>1, <1>4, <4>2, <4>6, <4>7, <4>8, Zenon
    <3> QED
      BY <3>1, <3>2, Zenon
  <2> QED
    BY <2>1, <2>2, <2>3, Zenon
<1> QED
  BY <1>5, <1>6, Zenon

\* glob_match decides what a pattern means: for every pattern and every value
\* without a `*` of its own, backtracking to the last `*` alone finds a
\* placement of the characters if there is one, and none where there is none.
THEOREM GlobDecides ==
    ASSUME NEW A, NEW p \in Seq(A), NEW v \in Seq(A), \A i \in DOMAIN v : v[i] # "*"
    PROVE  GlobMatch(p, v) = Denotes(p, v)
<1>1. PICK f : /\ \A s \in LoopStates(p, v) : f[s] = Loop(f, p, v, s)
               /\ GlobMatch(p, v) = f[<<0, 0, NoStar, 0>>]
  BY GlobLoop, Zenon
<1> DEFINE Right(s) == Tracks(p, v, s[1], s[2], s[3], s[4]) => f[s] = Goal(p, v, s[1], s[2], s[3], s[4])
<1> DEFINE P == {n \in Nat : \A s \in LoopStates(p, v) : Weight(p, v, s) < n => Right(s)}
<1>2. 0 \in P
  <2>1. \A w \in Nat : ~(w < 0)
    OBVIOUS
  <2>2. 0 \in Nat
    OBVIOUS
  <2> QED
    BY <2>1, <2>2, WeightType, Zenon
<1>3. ASSUME NEW n \in Nat, n \in P
      PROVE  n + 1 \in P
  <2>0. n + 1 \in Nat
    OBVIOUS
  <2>1. SUFFICES ASSUME NEW s \in LoopStates(p, v), Weight(p, v, s) < n + 1 PROVE Right(s)
    BY <2>0, Zenon
  <2>2. ASSUME NEW t \in LoopStates(p, v), Weight(p, v, t) < Weight(p, v, s)
        PROVE  Right(t)
    <3>1. Weight(p, v, t) \in Nat /\ Weight(p, v, s) \in Nat
      BY WeightType, Zenon
    <3>2. Weight(p, v, t) < n
      BY <2>1, <2>2, <3>1
    <3> QED
      BY <1>3, <3>2, Zenon
  <2>3. Tracks(p, v, s[1], s[2], s[3], s[4]) => Loop(f, p, v, s) = Goal(p, v, s[1], s[2], s[3], s[4])
    BY <2>2, TurnIsRight, ZenonT(60)
  <2> QED
    BY <1>1, <2>3, Zenon
<1>4. Nat \subseteq P
  <2> HIDE DEF P
  <2> QED
    BY <1>2, <1>3, SetInduction, Zenon
<1>5. PICK s : s = <<0, 0, NoStar, 0>>
  OBVIOUS
<1>6. s[1] = 0 /\ s[2] = 0 /\ s[3] = NoStar /\ s[4] = 0
  BY <1>5
<1>7. s \in LoopStates(p, v)
  <2>1. 0 \in 0 .. Len(p) /\ 0 \in 0 .. Len(v) /\ NoStar \in NoStar .. Len(p) /\ NoStar < 0 /\ 0 <= 0
    BY DEF NoStar
  <2> QED
    BY <1>5, <2>1, StateMade
<1>8. Right(s)
  <2>1. PICK w \in Nat : w = Weight(p, v, s)
    BY <1>7, WeightType, Zenon
  <2>2. w + 1 \in Nat /\ w < w + 1
    OBVIOUS
  <2> QED
    BY <1>4, <1>7, <2>1, <2>2, Zenon
<1>9. Tracks(p, v, s[1], s[2], s[3], s[4])
  BY <1>6, Zenon DEF Tracks
<1>10. f[s] = From(p, v, 0, 0)
  BY <1>6, <1>8, <1>9, Zenon DEF Goal
<1> QED
  BY <1>1, <1>5, <1>10, DenotesFrom, Zenon

-----------------------------------------------------------------------------
(* HostKeys: the invariant.                                                *)

Phases == {"idle", "handshake", "up", "rejected", "timeout"}
CallbackType ==
    [state : {"none", "asking", "waiting", "trusted", "refused", "dropped"}, key : Keys \cup {Nobody},
     answer : {"none", "yes", "no"}]
Prompts == {p \in [id : Ids, conn : Conns, key : Keys] : p.id = PromptId(p.conn)}
Commands == {"remove", "import"}
Busy(cmd) == rewrite[cmd].step \in {"read", "truncated"}

\* A line that makes verify answer Trusted or Revoked for k.
Decisive(line, k) ==
    PatternsMatch(line, Host, Port) /\ (line.marker = "revoked" \/ (line.marker = "none" /\ line.key = k))
Known(lines, k) == \E i \in DOMAIN lines : Decisive(lines[i], k)

\* A handshake belongs to an attempt that was made.
Dials ==
    /\ dial \in [Conns -> [n : 0 .. MaxDials, phase : Phases, waited : 0 .. MaxWait]]
    /\ dial["session"].n + dial["test"].n <= MaxDials
    /\ \A c \in Conns : dial[c].phase = "handshake" => dial[c].n # 0

\* A callback turns to the user about a key, and an attempt that is not made has
\* none.
Callbacks ==
    /\ callback \in [Conns -> [Attempts -> CallbackType]]
    /\ \A c \in Conns, n \in Attempts :
         /\ callback[c][n].state \in {"asking", "waiting"} => callback[c][n].key \in Keys
         /\ n > dial[c].n => callback[c][n].state = "none"

\* What is under way to and from the user carries the id of the connection it
\* is about.
Dialogs ==
    /\ pending \in [Ids -> {Nobody} \cup (Conns \X Attempts)]
    /\ \A id \in Ids : pending[id] # Nobody => PromptId(pending[id][1]) = id
    /\ events \in [Conns -> Seq(Prompts)]
    /\ dialog \in {Nobody} \cup Prompts
    /\ answers \subseteq [id : Ids, yes : BOOLEAN]
    /\ accepted \subseteq Conns \X Keys

\* A yes, on its way or arrived, was said to a prompt of the connection.
HasAccepted(c) == \E k \in Keys : <<c, k>> \in accepted
Consent ==
    /\ \A m \in answers : m.yes => \E c \in Conns : PromptId(c) = m.id /\ HasAccepted(c)
    /\ \A c \in Conns, n \in Attempts : callback[c][n].answer = "yes" => HasAccepted(c)

\* The file and the commands that rewrite it.
Files ==
    /\ file \in Seq(Lines) /\ recorded \subseteq Keys /\ disturbed \in BOOLEAN
    /\ rewrite \in [Commands -> [step : {"idle", "read", "truncated", "done"}, out : Seq(Lines)]]

\* Undisturbed, one command rewrites the file at a time, what the user accepted
\* is known to the file when none does, and to what an import will write.
Record ==
    ~disturbed =>
        /\ ~(Busy("remove") /\ Busy("import"))
        /\ ~Busy("remove") /\ ~Busy("import") => \A k \in recorded : Known(file, k)
        /\ Busy("import") => \A k \in recorded : Known(rewrite["import"].out, k)

IInv == Dials /\ Callbacks /\ Dialogs /\ Consent /\ Files /\ Record
-----------------------------------------------------------------------------
(* HostKeys: the file.                                                     *)

\* What learn appends is a line that decides for the key, hashed or not.
LEMMA LearnedDecides ==
    ASSUME NEW k \in Keys, NEW hashed
    PROVE  /\ LearnedLine(Host, Port, k, hashed) \in Lines
           /\ Decisive(LearnedLine(Host, Port, k, hashed), k)
<1>1. PICK t \in Seq(STRING) : t = MatchTarget(Host, Port)
  BY TrustConstants
<1>2. t # NoHash
  BY <1>1, TrustConstants
<1>3. CASE hashed
  <2>1. PICK l : l = [entry |-> TRUE, marker |-> "none", patterns |-> <<>>, hash |-> t, key |-> k]
    OBVIOUS
  <2>2. LearnedLine(Host, Port, k, hashed) = l
    BY <1>1, <1>3, <2>1 DEF LearnedLine, Entry
  <2>3. l \in Lines
    BY <2>1 DEF Lines
  <2>4. l.entry = TRUE /\ l.hash = t /\ l.marker = "none" /\ l.key = k
    BY <2>1
  <2>5. Decisive(l, k)
    BY <1>1, <1>2, <2>4 DEF Decisive, PatternsMatch
  <2> QED
    BY <2>2, <2>3, <2>5
<1>4. CASE ~hashed
  <2>1. PICK q : q = <<[negated |-> FALSE, glob |-> t]>>
    OBVIOUS
  <2>2. PICK l : l = [entry |-> TRUE, marker |-> "none", patterns |-> q, hash |-> NoHash, key |-> k]
    OBVIOUS
  <2>3. LearnedLine(Host, Port, k, hashed) = l
    BY <1>1, <1>4, <2>1, <2>2 DEF LearnedLine, Entry, Literal
  <2>4. q \in Seq([negated : BOOLEAN, glob : Seq(STRING)])
    BY <2>1
  <2>5. l \in Lines
    BY <2>2, <2>4 DEF Lines
  <2>6. l.entry = TRUE /\ l.hash = NoHash /\ l.marker = "none" /\ l.key = k /\ l.patterns = q
    BY <2>2
  <2>7. 1 \in DOMAIN q /\ q[1].negated = FALSE /\ q[1].glob = t /\ \A i \in DOMAIN q : i = 1
    BY <2>1
  <2>8. GlobMatch(t, t) = TRUE
    BY GlobSelf
  <2>9. ListMatches(q, {t, Host})
    BY <2>7, <2>8, Zenon DEF ListMatches, Names
  <2>10. Decisive(l, k)
    BY <1>1, <2>6, <2>9 DEF Decisive, PatternsMatch
  <2> QED
    BY <2>3, <2>5, <2>10
<1> QED
  BY <1>3, <1>4

\* A file that has a decisive line for the key answers Trusted or Revoked.
LEMMA VerifyKnown ==
    ASSUME NEW lines, NEW k, Known(lines, k)
    PROVE  Verify(lines, Host, Port, k) \in {"trusted", "revoked"}
<1> DEFINE of(m) == {i \in DOMAIN lines : PatternsMatch(lines[i], Host, Port) /\ lines[i].marker = m}
<1> DEFINE decisive == of("revoked") \cup {i \in of("none") : lines[i].key = k}
<1>1. decisive # {}
  BY DEF Known, Decisive
<1> DEFINE first == CHOOSE i \in decisive : \A j \in decisive : i <= j
<1>2. Verify(lines, Host, Port, k) = IF first \in of("revoked") THEN "revoked" ELSE "trusted"
  BY <1>1, Zenon DEF Verify
<1> HIDE DEF first, of
<1> QED
  BY <1>2

\* A file that answers Unknown has no line for another key of the algorithm.
LEMMA UnknownIsApart ==
    ASSUME NEW lines, NEW k, NEW other, Known(lines, k), Verify(lines, Host, Port, other) = "unknown"
    PROVE  Alg[k] # Alg[other]
<1> DEFINE of(m) == {i \in DOMAIN lines : PatternsMatch(lines[i], Host, Port) /\ lines[i].marker = m}
<1> DEFINE decisive == of("revoked") \cup {i \in of("none") : lines[i].key = other}
<1> DEFINE first == CHOOSE i \in decisive : \A j \in decisive : i <= j
<1>1. Verify(lines, Host, Port, other) =
        IF decisive # {} THEN IF first \in of("revoked") THEN "revoked" ELSE "trusted"
        ELSE IF \E i \in of("none") : Alg[lines[i].key] = Alg[other] THEN "changed" ELSE "unknown"
  BY Zenon DEF Verify
<1>2. decisive = {} /\ ~\E i \in of("none") : Alg[lines[i].key] = Alg[other]
  <2> HIDE DEF first, of, decisive
  <2> QED
    BY <1>1
<1>3. PICK i \in DOMAIN lines : Decisive(lines[i], k)
  BY DEF Known
<1>4. lines[i].marker # "revoked"
  BY <1>2, <1>3 DEF Decisive
<1>5. i \in of("none") /\ lines[i].key = k
  BY <1>3, <1>4 DEF Decisive
<1> QED
  BY <1>2, <1>5

\* What is known stays known when lines are added behind.
LEMMA KnownConcat ==
    ASSUME NEW s \in Seq(Lines), NEW t \in Seq(Lines), NEW k, Known(s, k)
    PROVE  Known(s \o t, k)
<1>1. PICK i \in DOMAIN s : Decisive(s[i], k)
  BY DEF Known
<1>2. i \in DOMAIN (s \o t) /\ (s \o t)[i] = s[i]
  OBVIOUS
<1> QED
  BY <1>1, <1>2 DEF Known

\* So it does when one line is appended, which may itself decide.
LEMMA KnownAppend ==
    ASSUME NEW s \in Seq(Lines), NEW l \in Lines, NEW k, Known(s, k) \/ Decisive(l, k)
    PROVE  Known(Append(s, l), k)
<1>1. CASE Known(s, k)
  <2>1. PICK i \in DOMAIN s : Decisive(s[i], k)
    BY <1>1 DEF Known
  <2>2. i \in DOMAIN Append(s, l) /\ Append(s, l)[i] = s[i]
    OBVIOUS
  <2> QED
    BY <2>1, <2>2 DEF Known
<1>2. CASE Decisive(l, k)
  <2>1. Len(s) + 1 \in DOMAIN Append(s, l) /\ Append(s, l)[Len(s) + 1] = l
    OBVIOUS
  <2> QED
    BY <1>2, <2>1 DEF Known
<1> QED
  BY <1>1, <1>2

-----------------------------------------------------------------------------
(* HostKeys: the callbacks and the dialogs.                                *)

\* The connections have different ids.
LEMMA IdsApart ==
    ASSUME NEW c \in Conns, NEW d \in Conns, PromptId(c) = PromptId(d)
    PROVE  c = d
BY DEF Conns, PromptId

\* An id is an id.
LEMMA IdType ==
    ASSUME NEW c \in Conns
    PROVE  PromptId(c) \in Ids
BY DEF Conns, PromptId, Ids

\* A callback that is replaced by one of the right type, and the others.
LEMMA PutCallback ==
    ASSUME NEW cbs \in [Conns -> [Attempts -> CallbackType]], NEW c \in Conns, NEW n \in Attempts, NEW cb \in CallbackType,
           NEW q, q = [cbs EXCEPT ![c][n] = cb]
    PROVE  /\ q \in [Conns -> [Attempts -> CallbackType]]
           /\ \A d \in Conns, m \in Attempts : q[d][m] = IF d = c /\ m = n THEN cb ELSE cbs[d][m]
<1>1. cbs[c] \in [Attempts -> CallbackType]
  OBVIOUS
<1>2. [cbs[c] EXCEPT ![n] = cb] \in [Attempts -> CallbackType]
  BY <1>1
<1>3. q = [cbs EXCEPT ![c] = [cbs[c] EXCEPT ![n] = cb]]
  OBVIOUS
<1>4. \A d \in Conns : q[d] = IF d = c THEN [cbs[c] EXCEPT ![n] = cb] ELSE cbs[d]
  BY <1>3
<1>5. \A m \in Attempts : [cbs[c] EXCEPT ![n] = cb][m] = IF m = n THEN cb ELSE cbs[c][m]
  BY <1>1
<1> QED
  BY <1>2, <1>3, <1>4, <1>5

\* Answering a callback leaves its state and key, and says yes only if told to.
LEMMA AnsweredLemma ==
    ASSUME callback \in [Conns -> [Attempts -> CallbackType]], NEW a \in Conns \X Attempts, NEW v \in {"yes", "no"}
    PROVE  /\ Answered(a, v) \in [Conns -> [Attempts -> CallbackType]]
           /\ \A d \in Conns, m \in Attempts :
                /\ Answered(a, v)[d][m].state = callback[d][m].state
                /\ Answered(a, v)[d][m].key = callback[d][m].key
                /\ Answered(a, v)[d][m].answer = "yes" => callback[d][m].answer = "yes" \/ (v = "yes" /\ d = a[1])
<1>1. PICK c \in Conns, n \in Attempts : c = a[1] /\ n = a[2]
  OBVIOUS
<1>2. callback[c][n] \in CallbackType
  OBVIOUS
<1>3. PICK w : w = IF callback[c][n].answer = "none" THEN v ELSE callback[c][n].answer
  OBVIOUS
<1>4. PICK cb : cb = [callback[c][n] EXCEPT !.answer = w]
  OBVIOUS
<1>5. /\ cb \in CallbackType /\ cb.state = callback[c][n].state /\ cb.key = callback[c][n].key /\ cb.answer = w
      /\ w = "yes" => callback[c][n].answer = "yes" \/ v = "yes"
  BY <1>2, <1>3, <1>4 DEF CallbackType
<1>6. Answered(a, v) = [callback EXCEPT ![c][n] = cb]
  BY <1>1, <1>3, <1>4 DEF Answered
<1>7. /\ Answered(a, v) \in [Conns -> [Attempts -> CallbackType]]
      /\ \A d \in Conns, m \in Attempts : Answered(a, v)[d][m] = IF d = c /\ m = n THEN cb ELSE callback[d][m]
  BY <1>5, <1>6, PutCallback
<1> QED
  BY <1>1, <1>5, <1>7

-----------------------------------------------------------------------------
(* HostKeys: what a step that leaves a part alone keeps of it.             *)

\* A step that leaves attempts and callbacks alone keeps what is said of them.
LEMMA CallbacksKept ==
    ASSUME Callbacks, UNCHANGED <<dial, callback>>
    PROVE  Callbacks'
BY DEF Callbacks

\* So for the dialogs,
LEMMA DialogsKept ==
    ASSUME Dialogs, UNCHANGED <<pending, uiVars>>
    PROVE  Dialogs'
BY DEF Dialogs, uiVars

\* for what the user agreed to,
LEMMA ConsentKept ==
    ASSUME Consent, UNCHANGED <<callback, uiVars>>
    PROVE  Consent'
BY DEF Consent, uiVars, HasAccepted

\* and for the file.
LEMMA FilesKept ==
    ASSUME Files, Record, UNCHANGED fileVars
    PROVE  Files' /\ Record'
BY DEF Files, Record, fileVars, Busy, Known, Decisive

-----------------------------------------------------------------------------
(* HostKeys: the actions.                                                  *)

\* The initial state.
LEMMA InitStep ==
    ASSUME Init
    PROVE  IInv
<1>1. Dials
  <2>1. 0 \in 0 .. MaxDials /\ 0 \in 0 .. MaxWait /\ 0 + 0 <= MaxDials
    BY TrustConstants
  <2> QED
    BY <2>1 DEF Init, Dials, Conns, Phases
<1>2. NoCallback \in CallbackType /\ NoCallback.state = "none" /\ NoCallback.answer = "none"
  BY DEF NoCallback, CallbackType
<1>3. \A c \in Conns, n \in Attempts : callback[c][n] = NoCallback
  BY DEF Init
<1>4. Callbacks
  BY <1>2, <1>3 DEF Init, Callbacks
<1>5. Dialogs
  BY DEF Init, Dialogs
<1>6. Consent
  BY <1>2, <1>3 DEF Init, Consent
<1>7. Files
  <2>1. file \in Seq(Lines) /\ recorded \subseteq Keys /\ disturbed = FALSE
    BY TrustConstants DEF Init
  <2>2. rewrite \in [Commands -> [step : {"idle", "read", "truncated", "done"}, out : Seq(Lines)]]
    BY DEF Init, Commands
  <2> QED
    BY <2>1, <2>2, Zenon DEF Files
<1>8. Record
  BY DEF Init, Record, Busy
<1> QED
  BY <1>1, <1>4, <1>5, <1>6, <1>7, <1>8 DEF IInv

\* Dialling makes the next attempt, which has no callback yet.
LEMMA DialStep ==
    ASSUME IInv, NEW c \in Conns, Dial(c)
    PROVE  IInv'
<1>1. Dials'
  <2>1. PICK r : r = [n |-> dial[c].n + 1, phase |-> "handshake", waited |-> 0]
    OBVIOUS
  <2>2. dial' = [dial EXCEPT ![c] = r]
    BY <2>1 DEF Dial
  <2>3. /\ dial["session"].n \in 0 .. MaxDials /\ dial["test"].n \in 0 .. MaxDials
        /\ dial["session"].n + dial["test"].n < MaxDials /\ MaxDials \in Nat /\ MaxWait \in Nat
    BY TrustConstants DEF IInv, Dials, Dial, Conns
  <2>4. dial[c].n + 1 \in 0 .. MaxDials /\ dial[c].n + 1 # 0 /\ 0 \in 0 .. MaxWait
    BY <2>3 DEF Conns
  <2>5. r \in [n : 0 .. MaxDials, phase : Phases, waited : 0 .. MaxWait] /\ r.n = dial[c].n + 1
    BY <2>1, <2>4 DEF Phases
  <2>6. dial' \in [Conns -> [n : 0 .. MaxDials, phase : Phases, waited : 0 .. MaxWait]]
    BY <2>2, <2>5 DEF IInv, Dials
  <2>7. \A d \in Conns : dial'[d] = IF d = c THEN r ELSE dial[d]
    BY <2>2 DEF IInv, Dials
  <2>8. dial'["session"].n + dial'["test"].n <= MaxDials
    BY <2>3, <2>5, <2>7 DEF Conns
  <2>9. \A d \in Conns : dial'[d].phase = "handshake" => dial'[d].n # 0
    BY <2>4, <2>5, <2>7 DEF IInv, Dials
  <2> QED
    BY <2>6, <2>8, <2>9 DEF Dials
<1>2. Callbacks'
  <2>1. callback' = callback
    BY DEF Dial
  <2>2. \A d \in Conns : dial[d].n \in 0 .. MaxDials /\ dial'[d].n \in {dial[d].n, dial[d].n + 1}
    BY DEF IInv, Dials, Dial
  <2>3. ASSUME NEW d \in Conns, NEW n \in Attempts, n > dial'[d].n PROVE n > dial[d].n
    <3>1. PICK a, b : a = dial[d].n /\ b = dial'[d].n
      OBVIOUS
    <3>2. a \in 0 .. MaxDials /\ b \in {a, a + 1} /\ MaxDials \in Nat
      BY <2>2, <3>1, TrustConstants
    <3>3. n \in 1 .. MaxDials
      BY DEF Attempts
    <3>4. n > b
      BY <2>3, <3>1
    <3>5. n > a
      BY <3>2, <3>3, <3>4
    <3> QED
      BY <3>1, <3>5
  <2> QED
    BY <2>1, <2>3 DEF IInv, Callbacks
<1> QED
  BY <1>1, <1>2, DialogsKept, ConsentKept, FilesKept DEF IInv, Dial

\* The record of an attempt, changed in its phase and its waiting only.
LEMMA PhaseStep ==
    ASSUME Dials, NEW c \in Conns, NEW r \in [n : 0 .. MaxDials, phase : Phases, waited : 0 .. MaxWait],
           r.n = dial[c].n, r.phase = "handshake" => dial[c].phase = "handshake", dial' = [dial EXCEPT ![c] = r]
    PROVE  Dials' /\ \A d \in Conns : dial'[d].n = dial[d].n
<1>1. \A d \in Conns : dial'[d] = IF d = c THEN r ELSE dial[d]
  BY DEF Dials
<1>2. dial' \in [Conns -> [n : 0 .. MaxDials, phase : Phases, waited : 0 .. MaxWait]]
  BY DEF Dials
<1>3. \A d \in Conns : dial'[d].n = dial[d].n
  BY <1>1
<1>4. \A d \in Conns : dial'[d].phase = "handshake" => dial[d].phase = "handshake"
  BY <1>1
<1> QED
  BY <1>2, <1>3, <1>4 DEF Dials, Conns

\* The callback of the attempt that is being made.
LEMMA MineTyped ==
    ASSUME Dials, Callbacks, NEW c \in Conns, dial[c].phase = "handshake"
    PROVE  /\ dial[c].n \in Attempts /\ callback[c][dial[c].n] \in CallbackType
           /\ dial[c] \in [n : 0 .. MaxDials, phase : Phases, waited : 0 .. MaxWait]
<1>1. dial[c] \in [n : 0 .. MaxDials, phase : Phases, waited : 0 .. MaxWait] /\ dial[c].n # 0
  BY DEF Dials
<1>2. dial[c].n \in Attempts
  BY <1>1, TrustConstants DEF Attempts
<1> QED
  BY <1>1, <1>2 DEF Callbacks

\* The parts about the user are untouched by a change of state alone.
LEMMA StateChange ==
    ASSUME IInv, NEW c \in Conns, NEW n \in Attempts, NEW st \in {"trusted", "refused", "dropped"}, n <= dial[c].n,
           \A d \in Conns : dial'[d].n = dial[d].n, callback' = [callback EXCEPT ![c][n].state = st], UNCHANGED uiVars
    PROVE  Callbacks' /\ Consent'
<1>1. PICK cb : cb = [callback[c][n] EXCEPT !.state = st]
  OBVIOUS
<1>2. callback[c][n] \in CallbackType /\ callback \in [Conns -> [Attempts -> CallbackType]]
  BY DEF IInv, Callbacks
<1>3. cb \in CallbackType /\ cb.state = st /\ cb.key = callback[c][n].key /\ cb.answer = callback[c][n].answer
  BY <1>1, <1>2 DEF CallbackType
<1>4. callback' = [callback EXCEPT ![c][n] = cb]
  BY <1>1
<1>5. /\ callback' \in [Conns -> [Attempts -> CallbackType]]
      /\ \A d \in Conns, m \in Attempts : callback'[d][m] = IF d = c /\ m = n THEN cb ELSE callback[d][m]
  <2>1. PICK q : q = callback'
    OBVIOUS
  <2>2. q = [callback EXCEPT ![c][n] = cb]
    BY <1>4, <2>1
  <2>3. /\ q \in [Conns -> [Attempts -> CallbackType]]
        /\ \A d \in Conns, m \in Attempts : q[d][m] = IF d = c /\ m = n THEN cb ELSE callback[d][m]
    BY <1>2, <1>3, <2>2, PutCallback
  <2> QED
    BY <2>1, <2>3, Zenon
<1>6. ~(n > dial'[c].n)
  <2>1. dial[c].n \in 0 .. MaxDials
    BY DEF IInv, Dials
  <2> QED
    BY <2>1, TrustConstants DEF Attempts
<1>7. ASSUME NEW d \in Conns, NEW m \in Attempts
      PROVE  /\ callback'[d][m].state \in {"asking", "waiting"} => callback'[d][m].key \in Keys
             /\ m > dial'[d].n => callback'[d][m].state = "none"
  <2>1. CASE d = c /\ m = n
    BY <1>3, <1>5, <1>6, <2>1
  <2>2. CASE ~(d = c /\ m = n)
    BY <1>5, <2>2 DEF IInv, Callbacks
  <2> QED
    BY <2>1, <2>2
<1>8. \A d \in Conns, m \in Attempts : callback'[d][m].answer = callback[d][m].answer
  BY <1>3, <1>5
<1>9. Callbacks'
  BY <1>5, <1>7 DEF Callbacks
<1>10. Consent'
  BY <1>8 DEF IInv, Consent, uiVars, HasAccepted
<1> QED
  BY <1>9, <1>10

\* A handshake completes with its callback's decision.
LEMMA CompleteStep ==
    ASSUME IInv, NEW c \in Conns, Complete(c)
    PROVE  IInv'
<1>1. PICK ph \in {"up", "rejected"} : dial' = [dial EXCEPT ![c].phase = ph]
  BY DEF Complete
<1>2. PICK r : r = [dial[c] EXCEPT !.phase = ph]
  OBVIOUS
<1>3. dial' = [dial EXCEPT ![c] = r]
  BY <1>1, <1>2
<1>4. dial[c] \in [n : 0 .. MaxDials, phase : Phases, waited : 0 .. MaxWait]
  BY MineTyped DEF IInv, Complete
<1>5. r \in [n : 0 .. MaxDials, phase : Phases, waited : 0 .. MaxWait] /\ r.n = dial[c].n /\ r.phase # "handshake"
  BY <1>2, <1>4 DEF Phases
<1>6. Dials' /\ \A d \in Conns : dial'[d].n = dial[d].n
  BY <1>3, <1>5, PhaseStep DEF IInv
<1>7. Callbacks'
  BY <1>6 DEF IInv, Callbacks, Complete
<1> QED
  BY <1>6, <1>7, DialogsKept, ConsentKept, FilesKept DEF IInv, Complete

\* The connect timeout: the clock is wound up again, or the attempt is over.
LEMMA ExpireStep ==
    ASSUME IInv, NEW c \in Conns, Expire(c)
    PROVE  IInv'
<1>0. dial[c].phase = "handshake" /\ UNCHANGED <<pending, uiVars, fileVars>>
  BY DEF Expire
<1>1. /\ dial[c] \in [n : 0 .. MaxDials, phase : Phases, waited : 0 .. MaxWait]
      /\ dial[c].n \in Attempts
  BY <1>0, MineTyped DEF IInv
<1>2. CASE MayReArm(c)
  <2>1. PICK r : r = [dial[c] EXCEPT !.waited = dial[c].waited + 1]
    OBVIOUS
  <2>2. dial' = [dial EXCEPT ![c] = r] /\ callback' = callback
    BY <1>2, <2>1 DEF Expire, UserWaited
  <2>3. dial[c].waited + 1 \in 0 .. MaxWait
    BY <1>1, <1>2, TrustConstants DEF MayReArm
  <2>4. r \in [n : 0 .. MaxDials, phase : Phases, waited : 0 .. MaxWait] /\ r.n = dial[c].n
    BY <1>1, <2>1, <2>3
  <2>5. Dials' /\ \A d \in Conns : dial'[d].n = dial[d].n
    BY <1>0, <2>2, <2>4, PhaseStep DEF IInv
  <2>6. Callbacks'
    BY <2>2, <2>5 DEF IInv, Callbacks
  <2> QED
    BY <1>0, <2>2, <2>5, <2>6, DialogsKept, ConsentKept, FilesKept DEF IInv
<1>3. CASE ~MayReArm(c)
  <2>1. PICK r : r = [dial[c] EXCEPT !.phase = "timeout"]
    OBVIOUS
  <2>2. dial' = [dial EXCEPT ![c] = r]
    BY <1>3, <2>1 DEF Expire
  <2>3. r \in [n : 0 .. MaxDials, phase : Phases, waited : 0 .. MaxWait] /\ r.n = dial[c].n /\ r.phase # "handshake"
    BY <1>1, <2>1 DEF Phases
  <2>4. Dials' /\ \A d \in Conns : dial'[d].n = dial[d].n
    BY <2>2, <2>3, PhaseStep DEF IInv
  <2>5. Callbacks' /\ Consent'
    <3>1. CASE callback' = callback
      <4>1. Callbacks'
        BY <2>4, <3>1 DEF IInv, Callbacks
      <4> QED
        BY <1>0, <3>1, <4>1, ConsentKept DEF IInv
    <3>2. CASE callback' = [callback EXCEPT ![c][dial[c].n].state = "dropped"]
      <4>1. dial[c].n <= dial[c].n
        BY <1>1, TrustConstants DEF Attempts
      <4> QED
        BY <1>0, <1>1, <2>4, <3>2, <4>1, StateChange
    <3> QED
      BY <1>3, <3>1, <3>2 DEF Expire
  <2> QED
    BY <1>0, <2>4, <2>5, DialogsKept, FilesKept DEF IInv
<1> QED
  BY <1>2, <1>3

\* Rewriting, by its commands.
LEMMA RewritingLemma ==
    ASSUME Files
    PROVE  Rewriting <=> Busy("remove") \/ Busy("import")
BY DEF Files, Rewriting, Busy, Commands

\* An access to the file that changes nothing may at most disturb.
LEMMA AccessKept ==
    ASSUME Files, Record, disturbed' = (disturbed \/ Rewriting), UNCHANGED <<file, rewrite, recorded>>
    PROVE  Files' /\ Record'
<1>1. disturbed \in BOOLEAN /\ Rewriting \in BOOLEAN
  BY DEF Files, Rewriting
<1>2. disturbed' \in BOOLEAN /\ (~disturbed' => ~disturbed)
  BY <1>1
<1>3. Files'
  BY <1>2, Zenon DEF Files
<1> QED
  BY <1>2, <1>3 DEF Record, Busy, Known, Decisive

\* A callback of an attempt that was made is replaced, and no answer but a
\* refusal given to another.
LEMMA CallbackChange ==
    ASSUME IInv, NEW c \in Conns, NEW n \in Attempts, ~(n > dial[c].n), NEW cb \in CallbackType,
           cb.state \in {"asking", "waiting"} => cb.key \in Keys, cb.answer = "yes" => callback[c][n].answer = "yes",
           NEW cbs \in [Conns -> [Attempts -> CallbackType]],
           \A d \in Conns, m \in Attempts :
               /\ cbs[d][m].state = callback[d][m].state /\ cbs[d][m].key = callback[d][m].key
               /\ cbs[d][m].answer = "yes" => callback[d][m].answer = "yes",
           callback' = [cbs EXCEPT ![c][n] = cb],
           UNCHANGED <<dial, answers, accepted>>
    PROVE  Callbacks' /\ Consent'
<1>5. /\ callback' \in [Conns -> [Attempts -> CallbackType]]
      /\ \A d \in Conns, m \in Attempts : callback'[d][m] = IF d = c /\ m = n THEN cb ELSE cbs[d][m]
  <2>1. PICK q : q = callback'
    OBVIOUS
  <2>2. q = [cbs EXCEPT ![c][n] = cb]
    BY <2>1
  <2>3. /\ q \in [Conns -> [Attempts -> CallbackType]]
        /\ \A d \in Conns, m \in Attempts : q[d][m] = IF d = c /\ m = n THEN cb ELSE cbs[d][m]
    BY <2>2, PutCallback
  <2> QED
    BY <2>1, <2>3, Zenon
<1>7. ASSUME NEW d \in Conns, NEW m \in Attempts
      PROVE  /\ callback'[d][m].state \in {"asking", "waiting"} => callback'[d][m].key \in Keys
             /\ m > dial'[d].n => callback'[d][m].state = "none"
             /\ callback'[d][m].answer = "yes" => callback[d][m].answer = "yes"
  <2>1. CASE d = c /\ m = n
    BY <1>5, <2>1
  <2>2. CASE ~(d = c /\ m = n)
    <3>1. callback'[d][m] = cbs[d][m]
      BY <1>5, <2>2
    <3>2. m > dial[d].n => callback[d][m].state = "none"
      BY DEF IInv, Callbacks
    <3>3. callback[d][m].state \in {"asking", "waiting"} => callback[d][m].key \in Keys
      BY DEF IInv, Callbacks
    <3> QED
      BY <3>1, <3>2, <3>3
  <2> QED
    BY <2>1, <2>2
<1>8. Callbacks'
  BY <1>5, <1>7 DEF Callbacks
<1>9. Consent'
  BY <1>7 DEF IInv, Consent, HasAccepted
<1> QED
  BY <1>8, <1>9

\* What Present makes of the callback of the attempt.
LEMMA PresentIs ==
    ASSUME IInv, NEW c \in Conns, NEW k \in Keys, Present(c, k)
    PROVE  /\ dial[c].n \in Attempts /\ ~(dial[c].n > dial[c].n)
           /\ \E st \in {"asking", "trusted", "refused"} :
                /\ callback' = [callback EXCEPT ![c][dial[c].n] = [state |-> st, key |-> k, answer |-> "none"]]
                /\ st = "asking" => Verify(file, Host, Port, k) = "unknown"
<1>1. dial[c].phase = "handshake"
  BY DEF Present
<1>2. dial[c].n \in Attempts
  BY <1>1, MineTyped DEF IInv
<1>3. ~(dial[c].n > dial[c].n)
  BY <1>2, TrustConstants DEF Attempts
<1> QED
  BY <1>2, <1>3 DEF Present

\* A key that is presented is decided on by the file, or will be put to the user.
LEMMA PresentStep ==
    ASSUME IInv, NEW c \in Conns, NEW k \in Keys, Present(c, k)
    PROVE  IInv'
<1>0. disturbed' = (disturbed \/ Rewriting) /\ UNCHANGED <<dial, pending, uiVars, file, rewrite, recorded>>
  BY DEF Present
<1>1. Files' /\ Record'
  BY <1>0, AccessKept DEF IInv
<1>2. Dials' /\ Dialogs'
  BY <1>0, DialogsKept DEF IInv, Dials
<1>3. callback \in [Conns -> [Attempts -> CallbackType]]
  BY DEF IInv, Callbacks
<1>4. PICK st \in {"asking", "trusted", "refused"} :
        /\ callback' = [callback EXCEPT ![c][dial[c].n] = [state |-> st, key |-> k, answer |-> "none"]]
        /\ st = "asking" => Verify(file, Host, Port, k) = "unknown"
  BY PresentIs
<1>5. PICK n \in Attempts : n = dial[c].n /\ ~(n > dial[c].n)
  BY PresentIs
<1>6. PICK cb : cb = [state |-> st, key |-> k, answer |-> "none"]
  OBVIOUS
<1>7. cb \in CallbackType /\ cb.key \in Keys /\ cb.answer # "yes"
  BY <1>6 DEF CallbackType
<1>8. callback' = [callback EXCEPT ![c][n] = cb]
  BY <1>4, <1>5, <1>6
<1>9. Callbacks' /\ Consent'
  BY <1>0, <1>3, <1>5, <1>7, <1>8, CallbackChange DEF uiVars
<1> QED
  BY <1>1, <1>2, <1>9 DEF IInv

\* What Ask makes of the callbacks: its own waits, another may be refused.
LEMMA AskIs ==
    ASSUME IInv, NEW c \in Conns, NEW n \in Attempts, Ask(c, n)
    PROVE  \E cbs \in [Conns -> [Attempts -> CallbackType]], cb \in CallbackType :
             /\ callback' = [cbs EXCEPT ![c][n] = cb]
             /\ cb.state = "waiting" /\ cb.key = callback[c][n].key
             /\ cb.answer = "yes" => callback[c][n].answer = "yes"
             /\ \A d \in Conns, m \in Attempts :
                  /\ cbs[d][m].state = callback[d][m].state /\ cbs[d][m].key = callback[d][m].key
                  /\ cbs[d][m].answer = "yes" => callback[d][m].answer = "yes"
<1>1. PICK id \in Ids : id = PromptId(c)
  BY IdType
<1>2. PICK cbs : cbs = IF pending[id] = Nobody THEN callback ELSE Answered(pending[id], "no")
  OBVIOUS
<1>3. callback \in [Conns -> [Attempts -> CallbackType]]
  BY DEF IInv, Callbacks
<1>4. /\ cbs \in [Conns -> [Attempts -> CallbackType]]
      /\ \A d \in Conns, m \in Attempts :
             /\ cbs[d][m].state = callback[d][m].state /\ cbs[d][m].key = callback[d][m].key
             /\ cbs[d][m].answer = "yes" => callback[d][m].answer = "yes"
  <2>1. CASE pending[id] = Nobody
    BY <1>2, <1>3, <2>1
  <2>2. CASE pending[id] # Nobody
    <3>1. pending[id] \in Conns \X Attempts
      BY <2>2 DEF IInv, Dialogs
    <3>2. cbs = Answered(pending[id], "no")
      BY <1>2, <2>2
    <3> QED
      BY <1>3, <3>1, <3>2, AnsweredLemma
  <2> QED
    BY <2>1, <2>2
<1>5. PICK cb : cb = [cbs[c][n] EXCEPT !.state = "waiting"]
  OBVIOUS
<1>6. cbs[c][n] \in CallbackType
  BY <1>4
<1>7. cb \in CallbackType /\ cb.state = "waiting" /\ cb.key = cbs[c][n].key /\ cb.answer = cbs[c][n].answer
  BY <1>5, <1>6 DEF CallbackType
<1>8. callback' = [cbs EXCEPT ![c][n] = cb]
  BY <1>1, <1>2, <1>5 DEF Ask
<1> QED
  BY <1>4, <1>7, <1>8

\* A prompt is sent for the key that was presented, under the connection's id.
LEMMA AskStep ==
    ASSUME IInv, NEW c \in Conns, NEW n \in Attempts, Ask(c, n)
    PROVE  IInv'
<1>0. /\ callback[c][n].state = "asking" /\ UNCHANGED <<dial, dialog, answers, accepted, fileVars>>
      /\ pending' = [pending EXCEPT ![PromptId(c)] = <<c, n>>]
      /\ events' = [events EXCEPT ![c] = Append(events[c], [id |-> PromptId(c), conn |-> c, key |-> callback[c][n].key])]
  BY DEF Ask
<1>1. callback[c][n].key \in Keys /\ ~(n > dial[c].n)
  BY <1>0 DEF IInv, Callbacks
<1>2. PICK id \in Ids : id = PromptId(c)
  BY IdType
<1>3. Callbacks' /\ Consent'
  <2>1. PICK cbs \in [Conns -> [Attempts -> CallbackType]], cb \in CallbackType :
             /\ callback' = [cbs EXCEPT ![c][n] = cb]
             /\ cb.state = "waiting" /\ cb.key = callback[c][n].key
             /\ cb.answer = "yes" => callback[c][n].answer = "yes"
             /\ \A d \in Conns, m \in Attempts :
                  /\ cbs[d][m].state = callback[d][m].state /\ cbs[d][m].key = callback[d][m].key
                  /\ cbs[d][m].answer = "yes" => callback[d][m].answer = "yes"
    BY AskIs
  <2> QED
    BY <1>0, <1>1, <2>1, CallbackChange
<1>4. Dialogs'
  <2>1. pending' = [pending EXCEPT ![id] = <<c, n>>] /\ <<c, n>> \in Conns \X Attempts /\ <<c, n>>[1] = c
    BY <1>0, <1>2
  <2>2. pending' \in [Ids -> {Nobody} \cup (Conns \X Attempts)]
    BY <2>1 DEF IInv, Dialogs
  <2>3. \A x \in Ids : pending'[x] # Nobody => PromptId(pending'[x][1]) = x
    BY <1>2, <2>1 DEF IInv, Dialogs
  <2>4. PICK e : e = [id |-> id, conn |-> c, key |-> callback[c][n].key]
    OBVIOUS
  <2>5. e \in Prompts
    BY <1>1, <1>2, <2>4 DEF Prompts
  <2>6. events' = [events EXCEPT ![c] = Append(events[c], e)]
    BY <1>0, <1>2, <2>4
  <2>7. events' \in [Conns -> Seq(Prompts)]
    <3>1. events \in [Conns -> Seq(Prompts)]
      BY DEF IInv, Dialogs
    <3>2. Append(events[c], e) \in Seq(Prompts)
      BY <2>5, <3>1
    <3> QED
      BY <2>6, <3>1, <3>2
  <2> QED
    BY <1>0, <2>2, <2>3, <2>7, Zenon DEF IInv, Dialogs
<1>5. Dials'
  BY <1>0 DEF IInv, Dials
<1> QED
  BY <1>0, <1>3, <1>4, <1>5, FilesKept DEF IInv

\* An answered callback decides, and an accepted key is learnt if it can be.
LEMMA DecideStep ==
    ASSUME IInv, NEW c \in Conns, NEW n \in Attempts, Decide(c, n)
    PROVE  IInv'
<1>0. /\ callback[c][n].state = "waiting" /\ UNCHANGED <<dial, pending, uiVars, rewrite>>
  BY DEF Decide
<1>1. callback[c][n].key \in Keys /\ n <= dial[c].n
  <2>1. callback[c][n].key \in Keys /\ ~(n > dial[c].n)
    BY <1>0 DEF IInv, Callbacks
  <2>2. dial[c].n \in 0 .. MaxDials
    BY DEF IInv, Dials
  <2> QED
    BY <2>1, <2>2, TrustConstants DEF Attempts
<1>2. PICK st \in {"trusted", "refused"} : callback' = [callback EXCEPT ![c][n].state = st]
  BY DEF Decide
<1>3. Callbacks' /\ Consent'
  BY <1>0, <1>1, <1>2, StateChange
<1>4. Dials'
  BY <1>0 DEF IInv, Dials
<1>5. Dialogs'
  BY <1>0, DialogsKept DEF IInv
<1>6. Files' /\ Record'
  <2>1. CASE UNCHANGED <<file, recorded, disturbed>>
    BY <1>0, <2>1, FilesKept DEF IInv, fileVars
  <2>2. CASE /\ file' = Append(file, LearnedLine(Host, Port, callback[c][n].key, HashNew[c]))
             /\ recorded' = recorded \cup {callback[c][n].key}
             /\ disturbed' = (disturbed \/ Rewriting)
    <3>1. PICK k \in Keys : k = callback[c][n].key
      BY <1>1
    <3>2. PICK l \in Lines : l = LearnedLine(Host, Port, k, HashNew[c]) /\ Decisive(l, k)
      BY LearnedDecides
    <3>3. file' = Append(file, l) /\ recorded' = recorded \cup {k}
      BY <2>2, <3>1, <3>2
    <3>4. file \in Seq(Lines) /\ recorded \subseteq Keys /\ disturbed \in BOOLEAN /\ Rewriting \in BOOLEAN
      BY DEF IInv, Files, Rewriting
    <3>5. file' \in Seq(Lines) /\ recorded' \subseteq Keys
      BY <3>3, <3>4
    <3>6. disturbed' \in BOOLEAN /\ (~disturbed' => ~disturbed /\ ~Rewriting)
      BY <2>2, <3>4
    <3>7. Files'
      BY <1>0, <3>5, <3>6, Zenon DEF IInv, Files
    <3>8. ASSUME ~disturbed'
          PROVE  ~Busy("remove") /\ ~Busy("import") /\ \A x \in recorded' : Known(file', x)
      <4>1. ~disturbed /\ ~Busy("remove") /\ ~Busy("import")
        BY <3>6, <3>8, RewritingLemma DEF IInv
      <4>2. \A x \in recorded : Known(file, x)
        BY <4>1 DEF IInv, Record
      <4>3. \A x \in recorded \cup {k} : Known(Append(file, l), x)
        BY <3>2, <3>4, <4>2, KnownAppend
      <4> QED
        BY <3>3, <4>1, <4>3
    <3>9. Record'
      BY <1>0, <3>8 DEF Record, Busy, Known, Decisive
    <3> QED
      BY <3>7, <3>9
  <2> QED
    BY <2>1, <2>2 DEF Decide
<1> QED
  BY <1>3, <1>4, <1>5, <1>6 DEF IInv

\* The webview shows a prompt.
LEMMA ShowPromptStep ==
    ASSUME IInv, NEW c \in Conns, ShowPrompt(c)
    PROVE  IInv'
<1>0. /\ events[c] # <<>> /\ dialog' = Head(events[c]) /\ events' = [events EXCEPT ![c] = Tail(events[c])]
      /\ UNCHANGED <<dial, callback, pending, answers, accepted, fileVars>>
  BY DEF ShowPrompt
<1>1. events \in [Conns -> Seq(Prompts)]
  BY DEF IInv, Dialogs
<1>2. Head(events[c]) \in Prompts /\ Tail(events[c]) \in Seq(Prompts)
  BY <1>0, <1>1
<1>3. events' \in [Conns -> Seq(Prompts)] /\ dialog' \in Prompts
  BY <1>0, <1>1, <1>2
<1>4. Dialogs'
  BY <1>0, <1>3 DEF IInv, Dialogs
<1>5. Dials' /\ Callbacks' /\ Consent'
  BY <1>0 DEF IInv, Dials, Callbacks, Consent, HasAccepted
<1> QED
  BY <1>0, <1>4, <1>5, FilesKept DEF IInv

\* The user answers the dialog.
LEMMA AnswerPromptStep ==
    ASSUME IInv, NEW yes \in BOOLEAN, AnswerPrompt(yes)
    PROVE  IInv'
<1>0. /\ dialog # Nobody /\ dialog' = Nobody
      /\ answers' = answers \cup {[id |-> dialog.id, yes |-> yes]}
      /\ accepted' = IF yes THEN accepted \cup {<<dialog.conn, dialog.key>>} ELSE accepted
      /\ UNCHANGED <<dial, callback, pending, events, fileVars>>
  BY DEF AnswerPrompt
<1>1. dialog \in Prompts
  BY <1>0 DEF IInv, Dialogs
<1>2. PICK c \in Conns, k \in Keys : c = dialog.conn /\ k = dialog.key /\ dialog.id = PromptId(c) /\ PromptId(c) \in Ids
  BY <1>1 DEF Prompts
<1>3. PICK m : m = [id |-> PromptId(c), yes |-> yes]
  OBVIOUS
<1>4. m \in [id : Ids, yes : BOOLEAN] /\ m.id = PromptId(c) /\ m.yes = yes
  BY <1>2, <1>3
<1>5. answers' = answers \cup {m}
  BY <1>0, <1>2, <1>3
<1>6. accepted \subseteq accepted' /\ accepted' \subseteq Conns \X Keys /\ (yes => <<c, k>> \in accepted')
  BY <1>0, <1>2 DEF IInv, Dialogs
<1>7. Dialogs'
  BY <1>0, <1>4, <1>5, <1>6 DEF IInv, Dialogs
<1>8. \A d \in Conns : HasAccepted(d) => HasAccepted(d)'
  BY <1>6 DEF HasAccepted
<1>9. yes => HasAccepted(c)'
  BY <1>6 DEF HasAccepted
<1>10. \A x \in answers' : x.yes => \E d \in Conns : PromptId(d) = x.id /\ HasAccepted(d)'
  BY <1>4, <1>5, <1>8, <1>9 DEF IInv, Consent
<1>11. Consent'
  BY <1>0, <1>8, <1>10 DEF IInv, Consent
<1>12. Dials' /\ Callbacks'
  BY <1>0, CallbacksKept DEF IInv, Dials
<1> QED
  BY <1>0, <1>7, <1>11, <1>12, FilesKept DEF IInv

\* An answer reaches the callback that waits under its id, if one does.
LEMMA ApproveStep ==
    ASSUME IInv, NEW m \in answers, ApproveHostKey(m)
    PROVE  IInv'
<1>0. /\ answers' = answers \ {m} /\ pending' = [pending EXCEPT ![m.id] = Nobody]
      /\ callback' = IF pending[m.id] = Nobody THEN callback ELSE Answered(pending[m.id], IF m.yes THEN "yes" ELSE "no")
      /\ UNCHANGED <<dial, events, dialog, accepted, fileVars>>
  BY DEF ApproveHostKey
<1>1. m.id \in Ids /\ m.yes \in BOOLEAN
  BY DEF IInv, Dialogs
<1>2. Dialogs'
  <2>1. pending' \in [Ids -> {Nobody} \cup (Conns \X Attempts)]
    BY <1>0 DEF IInv, Dialogs
  <2>2. \A id \in Ids : pending'[id] # Nobody => PromptId(pending'[id][1]) = id
    BY <1>0 DEF IInv, Dialogs
  <2> QED
    BY <1>0, <2>1, <2>2 DEF IInv, Dialogs
<1>3. Dials'
  BY <1>0 DEF IInv, Dials
<1>4. \A d \in Conns : HasAccepted(d)' = HasAccepted(d)
  BY <1>0 DEF HasAccepted
<1>5. Callbacks' /\ \A d \in Conns, n \in Attempts : callback'[d][n].answer = "yes" => HasAccepted(d)
  <2>1. CASE pending[m.id] = Nobody
    BY <1>0, <2>1, CallbacksKept DEF IInv, Consent
  <2>2. CASE pending[m.id] # Nobody
    <3>1. PICK a \in Conns \X Attempts : a = pending[m.id] /\ PromptId(a[1]) = m.id
      BY <1>1, <2>2 DEF IInv, Dialogs
    <3>2. PICK v \in {"yes", "no"} : v = IF m.yes THEN "yes" ELSE "no"
      OBVIOUS
    <3>3. callback' = Answered(a, v)
      BY <1>0, <2>2, <3>1, <3>2
    <3>4. callback \in [Conns -> [Attempts -> CallbackType]]
      BY DEF IInv, Callbacks
    <3>5. /\ callback' \in [Conns -> [Attempts -> CallbackType]]
          /\ \A d \in Conns, n \in Attempts :
                /\ callback'[d][n].state = callback[d][n].state
                /\ callback'[d][n].key = callback[d][n].key
                /\ callback'[d][n].answer = "yes" => callback[d][n].answer = "yes" \/ (v = "yes" /\ d = a[1])
      <4>1. PICK q : q = Answered(a, v)
        OBVIOUS
      <4>2. /\ q \in [Conns -> [Attempts -> CallbackType]]
            /\ \A d \in Conns, n \in Attempts :
                /\ q[d][n].state = callback[d][n].state
                /\ q[d][n].key = callback[d][n].key
                /\ q[d][n].answer = "yes" => callback[d][n].answer = "yes" \/ (v = "yes" /\ d = a[1])
        BY <3>4, <4>1, AnsweredLemma
      <4>3. callback' = q
        BY <3>3, <4>1
      <4> QED
        BY <4>2, <4>3
    <3>6. v = "yes" => HasAccepted(a[1])
      <4>1. SUFFICES ASSUME v = "yes" PROVE HasAccepted(a[1])
        OBVIOUS
      <4>2. m.yes
        BY <1>1, <3>2, <4>1
      <4>3. PICK d \in Conns : PromptId(d) = m.id /\ HasAccepted(d)
        BY <4>2 DEF IInv, Consent
      <4>4. a[1] \in Conns
        OBVIOUS
      <4>5. d = a[1]
        BY <3>1, <4>3, <4>4, IdsApart
      <4> QED
        BY <4>3, <4>5
    <3>7. Callbacks'
      BY <1>0, <3>5 DEF IInv, Callbacks
    <3>8. \A d \in Conns, n \in Attempts : callback[d][n].answer = "yes" => HasAccepted(d)
      BY DEF IInv, Consent
    <3> QED
      BY <3>5, <3>6, <3>7, <3>8, Zenon
  <2> QED
    BY <2>1, <2>2
<1>6. Consent'
  BY <1>0, <1>4, <1>5 DEF IInv, Consent
<1> QED
  BY <1>0, <1>2, <1>3, <1>5, <1>6, FilesKept DEF IInv

\* A command reads the file: what an import will write keeps what is known.
LEMMA ReadStep ==
    ASSUME IInv, NEW cmd \in DOMAIN rewrite, RewriteRead(cmd)
    PROVE  IInv'
<1>0. /\ rewrite[cmd].step = "idle" /\ disturbed' = (disturbed \/ Rewriting)
      /\ UNCHANGED <<dial, callback, pending, uiVars, file, recorded>>
  BY DEF RewriteRead
<1>1. cmd \in Commands /\ rewrite \in [Commands -> [step : {"idle", "read", "truncated", "done"}, out : Seq(Lines)]]
  BY DEF IInv, Files
<1>2. PICK out : out = IF cmd = "remove" THEN Removed(file, Host, Port) ELSE file \o Imported(file, Source)
  OBVIOUS
<1>3. PICK new : new = IF out = file THEN [rewrite[cmd] EXCEPT !.step = "done"] ELSE [step |-> "read", out |-> out]
  OBVIOUS
<1>4. rewrite' = [rewrite EXCEPT ![cmd] = new]
  BY <1>2, <1>3 DEF RewriteRead
<1>5. file \in Seq(Lines) /\ disturbed \in BOOLEAN /\ Rewriting \in BOOLEAN
  BY DEF IInv, Files, Rewriting
<1>6. Imported(file, Source) \in Seq(Lines) /\ Removed(file, Host, Port) \in Seq(Lines)
  <2>1. Source \in Seq(Lines)
    BY TrustConstants
  <2>2. \A S : Kept(Source, S) \in Seq(Lines) /\ Kept(file, S) \in Seq(Lines)
    BY <1>5, <2>1, KeptIsSequence, Zenon
  <2> QED
    BY <2>2, Zenon DEF Imported, Removed
<1>7. out \in Seq(Lines) /\ (cmd = "import" => out = file \o Imported(file, Source))
  BY <1>1, <1>2, <1>5, <1>6
<1>8. /\ new \in [step : {"idle", "read", "truncated", "done"}, out : Seq(Lines)]
      /\ new.step \in {"read", "done"} /\ (new.step = "read" => new.out = out)
  BY <1>1, <1>3, <1>7
<1>9. /\ rewrite' \in [Commands -> [step : {"idle", "read", "truncated", "done"}, out : Seq(Lines)]]
      /\ \A x \in Commands : rewrite'[x] = IF x = cmd THEN new ELSE rewrite[x]
  BY <1>1, <1>4, <1>8
<1>10. disturbed' \in BOOLEAN /\ (~disturbed' => ~disturbed /\ ~Rewriting)
  BY <1>0, <1>5
<1>11. Files'
  BY <1>0, <1>9, <1>10, Zenon DEF IInv, Files
<1>12. Record'
  <2>1. SUFFICES ASSUME ~disturbed'
                 PROVE  /\ ~(Busy("remove")' /\ Busy("import")')
                        /\ ~Busy("remove")' /\ ~Busy("import")' => \A k \in recorded' : Known(file', k)
                        /\ Busy("import")' => \A k \in recorded' : Known(rewrite'["import"].out, k)
    BY DEF Record, Known, Decisive
  <2>2. ~disturbed /\ ~Busy("remove") /\ ~Busy("import")
    BY <1>10, <2>1, RewritingLemma DEF IInv
  <2>3. \A k \in recorded : Known(file, k)
    BY <2>2 DEF IInv, Record
  <2>4. \A x \in Commands : Busy(x)' => x = cmd /\ new.step = "read" /\ rewrite'[x] = new
    BY <1>8, <1>9, <2>2 DEF Busy, Commands
  <2>5. Busy("import")' => cmd = "import" /\ rewrite'["import"].out = file \o Imported(file, Source)
    BY <1>7, <1>8, <2>4 DEF Commands
  <2>6. \A k \in recorded : Known(file \o Imported(file, Source), k)
    BY <1>5, <1>6, <2>3, KnownConcat
  <2>7. ~(Busy("remove")' /\ Busy("import")')
    BY <2>4 DEF Commands
  <2>8. Busy("import")' => \A k \in recorded' : Known(rewrite'["import"].out, k)
    BY <1>0, <2>5, <2>6
  <2> QED
    BY <1>0, <2>3, <2>7, <2>8
<1>13. Dials' /\ Callbacks'
  BY <1>0, CallbacksKept DEF IInv, Dials
<1> QED
  BY <1>0, <1>11, <1>12, <1>13, DialogsKept, ConsentKept DEF IInv

\* fs::write truncates the file.
LEMMA TruncateStep ==
    ASSUME IInv, NEW cmd \in DOMAIN rewrite, RewriteTruncate(cmd)
    PROVE  IInv'
<1>0. /\ rewrite[cmd].step = "read" /\ rewrite' = [rewrite EXCEPT ![cmd].step = "truncated"] /\ file' = <<>>
      /\ UNCHANGED <<dial, callback, pending, uiVars, recorded, disturbed>>
  BY DEF RewriteTruncate
<1>1. cmd \in Commands /\ rewrite \in [Commands -> [step : {"idle", "read", "truncated", "done"}, out : Seq(Lines)]]
  BY DEF IInv, Files
<1>2. /\ rewrite' \in [Commands -> [step : {"idle", "read", "truncated", "done"}, out : Seq(Lines)]]
      /\ \A x \in Commands : rewrite'[x].out = rewrite[x].out /\ (Busy(x)' <=> Busy(x))
      /\ Busy(cmd)'
  BY <1>0, <1>1 DEF Busy
<1>3. Files'
  BY <1>0, <1>2 DEF IInv, Files
<1>4. Busy("remove")' \/ Busy("import")'
  BY <1>1, <1>2 DEF Commands
<1>5. Record'
  <2>1. /\ (Busy("import")' <=> Busy("import")) /\ (Busy("remove")' <=> Busy("remove"))
        /\ rewrite'["import"].out = rewrite["import"].out
    BY <1>2 DEF Commands
  <2> QED
    BY <1>0, <1>4, <2>1 DEF IInv, Record, Known, Decisive
<1>6. Dials' /\ Callbacks'
  BY <1>0, CallbacksKept DEF IInv, Dials
<1> QED
  BY <1>0, <1>3, <1>5, <1>6, DialogsKept, ConsentKept DEF IInv

\* The command writes what it made of the file it had read.
LEMMA WriteStep ==
    ASSUME IInv, NEW cmd \in DOMAIN rewrite, RewriteWrite(cmd)
    PROVE  IInv'
<1>0. /\ rewrite[cmd].step = "truncated" /\ file' = rewrite[cmd].out
      /\ rewrite' = [rewrite EXCEPT ![cmd] = [step |-> "done", out |-> <<>>]]
      /\ recorded' = IF cmd = "remove" THEN {} ELSE recorded
      /\ UNCHANGED <<dial, callback, pending, uiVars, disturbed>>
  BY DEF RewriteWrite
<1>1. cmd \in Commands /\ rewrite \in [Commands -> [step : {"idle", "read", "truncated", "done"}, out : Seq(Lines)]]
  BY DEF IInv, Files
<1>2. /\ rewrite' \in [Commands -> [step : {"idle", "read", "truncated", "done"}, out : Seq(Lines)]]
      /\ \A x \in Commands : (Busy(x)' => x # cmd /\ Busy(x)) /\ (x # cmd => rewrite'[x] = rewrite[x])
      /\ Busy(cmd) /\ file' \in Seq(Lines)
  BY <1>0, <1>1 DEF Busy
<1>3. recorded' \subseteq recorded
  BY <1>0
<1>4. Files'
  BY <1>0, <1>2, <1>3 DEF IInv, Files
<1>5. Record'
  <2>1. SUFFICES ASSUME ~disturbed
                 PROVE  /\ ~Busy("remove")' /\ ~Busy("import")'
                        /\ \A k \in recorded' : Known(file', k)
    BY <1>0 DEF Record, Known, Decisive
  <2>2. ~(Busy("remove") /\ Busy("import"))
    BY <2>1 DEF IInv, Record
  <2>3. ~Busy("remove")' /\ ~Busy("import")'
    BY <1>1, <1>2, <2>2 DEF Commands
  <2>4. cmd = "remove" => recorded' = {}
    BY <1>0
  <2>5. cmd = "import" => \A k \in recorded : Known(rewrite["import"].out, k)
    BY <1>2, <2>1 DEF IInv, Record
  <2>6. \A k \in recorded' : Known(file', k)
    BY <1>0, <1>1, <1>3, <2>4, <2>5 DEF Commands
  <2> QED
    BY <2>3, <2>6
<1>6. Dials' /\ Callbacks'
  BY <1>0, CallbacksKept DEF IInv, Dials
<1> QED
  BY <1>0, <1>4, <1>5, <1>6, DialogsKept, ConsentKept DEF IInv

\* Nothing happens.
LEMMA StutterStep ==
    ASSUME IInv, UNCHANGED vars
    PROVE  IInv'
<1>1. UNCHANGED <<dial, callback, pending, uiVars, fileVars>>
  BY DEF vars, uiVars, fileVars
<1>2. Dials' /\ Callbacks'
  BY <1>1, CallbacksKept DEF IInv, Dials
<1> QED
  BY <1>1, <1>2, DialogsKept, ConsentKept, FilesKept DEF IInv

\* The invariant holds and every step keeps it.
LEMMA Inductive == Spec => []IInv
<1>1. Init => IInv
  BY InitStep
<1>2. IInv /\ [Next]_vars => IInv'
  <2> SUFFICES ASSUME IInv, [Next]_vars PROVE IInv'
    OBVIOUS
  <2>1. CASE UNCHANGED vars
    BY <2>1, StutterStep
  <2>2. ASSUME NEW c \in Conns, Dial(c) \/ Complete(c) \/ Expire(c) \/ ShowPrompt(c)
        PROVE  IInv'
    BY <2>2, DialStep, CompleteStep, ExpireStep, ShowPromptStep
  <2>3. ASSUME NEW c \in Conns, NEW k \in Keys, Present(c, k)
        PROVE  IInv'
    BY <2>3, PresentStep
  <2>4. ASSUME NEW c \in Conns, NEW n \in Attempts, Ask(c, n) \/ Decide(c, n)
        PROVE  IInv'
    BY <2>4, AskStep, DecideStep
  <2>5. ASSUME NEW yes \in BOOLEAN, AnswerPrompt(yes)
        PROVE  IInv'
    BY <2>5, AnswerPromptStep
  <2>6. ASSUME NEW m \in answers, ApproveHostKey(m)
        PROVE  IInv'
    BY <2>6, ApproveStep
  <2>7. ASSUME NEW cmd \in DOMAIN rewrite, RewriteRead(cmd) \/ RewriteTruncate(cmd) \/ RewriteWrite(cmd)
        PROVE  IInv'
    BY <2>7, ReadStep, TruncateStep, WriteStep
  <2>8. CASE Idle
    BY <2>8, StutterStep DEF Idle
  <2> QED
    BY <2>1, <2>2, <2>3, <2>4, <2>5, <2>6, <2>7, <2>8, Zenon DEF Next
<1> QED
  BY <1>1, <1>2, PTL DEF Spec

-----------------------------------------------------------------------------
(* HostKeys: the theorems.                                                 *)

\* A key the user accepted stays known until the user forgets it: whatever
\* host, file and import there are, hashed or not, verify answers Trusted or
\* Revoked for it unless a rewrite of the file overlapped another access.
THEOREM AcceptedIsKnown == Spec => []AcceptedStaysKnown
<1>1. IInv => AcceptedStaysKnown
  <2> SUFFICES ASSUME IInv PROVE AcceptedStaysKnown
    OBVIOUS
  <2>1. \A c \in Conns : /\ dial[c].phase \in {"idle", "handshake", "up", "rejected", "timeout"}
                         /\ dial[c].n \in 0 .. MaxDials /\ dial[c].waited \in 0 .. MaxWait
    BY DEF IInv, Dials, Phases
  <2>2. \A c \in Conns, n \in Attempts : callback[c][n].state \in {"none", "asking", "waiting", "trusted", "refused", "dropped"}
    BY DEF IInv, Callbacks, CallbackType
  <2>3. TypeOK
    BY <2>1, <2>2 DEF IInv, Dialogs, Files, TypeOK
  <2>4. ASSUME ~disturbed, ~Rewriting, NEW k \in recorded
        PROVE  Verify(file, Host, Port, k) \in {"trusted", "revoked"}
    <3>1. ~Busy("remove") /\ ~Busy("import")
      BY <2>4, RewritingLemma DEF IInv
    <3>2. Known(file, k)
      BY <2>4, <3>1 DEF IInv, Record
    <3> QED
      BY <3>2, VerifyKnown
  <2> QED
    BY <2>3, <2>4 DEF AcceptedStaysKnown
<1> QED
  BY <1>1, Inductive, PTL

\* A connection is trusted on a prompt only if the user accepted a prompt of
\* that connection, however prompts, answers, timeouts and new attempts of the
\* two connections interleave.
THEOREM AnswersReachTheirOwn == Spec => []TrustIsOwn
<1>1. IInv => TrustIsOwn
  BY DEF IInv, Consent, TrustIsOwn, HasAccepted
<1> QED
  BY <1>1, Inductive, PTL

\* A callback whose state changes to anything else does not turn to the user.
LEMMA StateAsksNone ==
    ASSUME IInv, NEW c \in Conns, NEW n \in Attempts, NEW d \in Conns, NEW m \in Attempts,
           NEW st \in {"trusted", "refused", "dropped"},
           callback' = [callback EXCEPT ![d][m].state = st], Asks(c, n)'
    PROVE  Asks(c, n)
<1>1. callback \in [Conns -> [Attempts -> CallbackType]]
  BY DEF IInv, Callbacks
<1>2. callback'[c][n].state = callback[c][n].state \/ callback'[c][n].state = st
  BY <1>1 DEF CallbackType
<1> QED
  BY <1>2 DEF Asks

\* An answer makes no callback turn to the user.
LEMMA ApproveAsksNone ==
    ASSUME IInv, NEW c \in Conns, NEW n \in Attempts, NEW m \in answers, ApproveHostKey(m), Asks(c, n)'
    PROVE  Asks(c, n)
<1>1. callback' = IF pending[m.id] = Nobody THEN callback ELSE Answered(pending[m.id], IF m.yes THEN "yes" ELSE "no")
  BY DEF ApproveHostKey
<1>2. CASE pending[m.id] = Nobody
  BY <1>1, <1>2 DEF Asks
<1>3. CASE pending[m.id] # Nobody
  <2>1. m.id \in Ids
    BY DEF IInv, Dialogs
  <2>2. PICK a \in Conns \X Attempts : a = pending[m.id]
    BY <1>3, <2>1 DEF IInv, Dialogs
  <2>3. PICK v \in {"yes", "no"} : v = IF m.yes THEN "yes" ELSE "no"
    OBVIOUS
  <2>4. PICK q : q = Answered(a, v)
    OBVIOUS
  <2>5. q[c][n].state = callback[c][n].state
    BY <2>4, AnsweredLemma DEF IInv, Callbacks
  <2>6. callback' = q
    BY <1>1, <1>3, <2>2, <2>3, <2>4
  <2> QED
    BY <2>5, <2>6 DEF Asks
<1> QED
  BY <1>2, <1>3

\* Sending a prompt, the callback has turned to the user already.
LEMMA AskAsksNone ==
    ASSUME IInv, NEW c \in Conns, NEW n \in Attempts, NEW d \in Conns, NEW m \in Attempts, Ask(d, m), Asks(c, n)'
    PROVE  Asks(c, n)
<1>1. PICK cbs \in [Conns -> [Attempts -> CallbackType]], cb \in CallbackType :
        /\ callback' = [cbs EXCEPT ![d][m] = cb]
        /\ cb.state = "waiting" /\ cb.key = callback[d][m].key
        /\ cb.answer = "yes" => callback[d][m].answer = "yes"
        /\ \A e \in Conns, i \in Attempts :
             /\ cbs[e][i].state = callback[e][i].state /\ cbs[e][i].key = callback[e][i].key
             /\ cbs[e][i].answer = "yes" => callback[e][i].answer = "yes"
  BY AskIs
<1>2. CASE c = d /\ n = m
  BY <1>2 DEF Ask, Asks
<1>3. CASE ~(c = d /\ n = m)
  <2>1. PICK q : q = callback'
    OBVIOUS
  <2>2. q = [cbs EXCEPT ![d][m] = cb]
    BY <1>1, <2>1
  <2>3. \A e \in Conns, i \in Attempts : q[e][i] = IF e = d /\ i = m THEN cb ELSE cbs[e][i]
    BY <2>2, PutCallback
  <2>4. callback'[c][n].state = callback[c][n].state
    BY <1>1, <1>3, <2>1, <2>3
  <2> QED
    BY <2>4 DEF Asks
<1> QED
  BY <1>2, <1>3

\* Present turns to the user about a key that the file does not know.
LEMMA PresentAsks ==
    ASSUME IInv, NEW c \in Conns, NEW n \in Attempts, NEW d \in Conns, NEW k \in Keys, Present(d, k),
           Asks(c, n)', ~Asks(c, n)
    PROVE  callback'[c][n].key = k /\ Verify(file, Host, Port, k) = "unknown"
<1>0. PICK m \in Attempts : m = dial[d].n
  BY PresentIs
<1>1. PICK st \in {"asking", "trusted", "refused"} :
        /\ callback' = [callback EXCEPT ![d][dial[d].n] = [state |-> st, key |-> k, answer |-> "none"]]
        /\ st = "asking" => Verify(file, Host, Port, k) = "unknown"
  BY PresentIs
<1>2. PICK cb : cb = [state |-> st, key |-> k, answer |-> "none"]
  OBVIOUS
<1>3. cb \in CallbackType /\ cb.state = st /\ cb.key = k
  BY <1>2 DEF CallbackType
<1>4. callback \in [Conns -> [Attempts -> CallbackType]]
  BY DEF IInv, Callbacks
<1>5. PICK q : q = callback'
  OBVIOUS
<1>6. q = [callback EXCEPT ![d][m] = cb]
  BY <1>0, <1>1, <1>2, <1>5
<1>7. \A e \in Conns, i \in Attempts : q[e][i] = IF e = d /\ i = m THEN cb ELSE callback[e][i]
  BY <1>3, <1>4, <1>6, PutCallback
<1>8. c = d /\ n = m
  BY <1>5, <1>7 DEF Asks
<1>9. callback'[c][n] = cb
  BY <1>5, <1>7, <1>8
<1>10. st = "asking"
  BY <1>3, <1>9 DEF Asks
<1> QED
  BY <1>1, <1>3, <1>9, <1>10

\* A callback that reads the file while a key of the host is on record never
\* turns to the user about another key of that algorithm, whatever else the
\* file and the imports hold.
THEOREM NoPromptForAChangedKey == Spec => ChangedNeverPrompts
<1> DEFINE Apart == \A c \in Conns, n \in Attempts : Asks(c, n)' /\ ~Asks(c, n) /\ ~disturbed' =>
                      \A k \in recorded : Alg[k] # Alg[callback'[c][n].key]
<1>1. IInv /\ [Next]_vars => [Apart]_vars
  <2> SUFFICES ASSUME IInv, Next, NEW c \in Conns, NEW n \in Attempts, Asks(c, n)', ~Asks(c, n), ~disturbed'
               PROVE  \A k \in recorded : Alg[k] # Alg[callback'[c][n].key]
    BY Zenon
  <2>1. ASSUME callback' = callback
        PROVE  FALSE
    BY <2>1 DEF Asks
  <2>2. ASSUME NEW d \in Conns, Dial(d) \/ Complete(d) \/ ShowPrompt(d)
        PROVE  FALSE
    BY <2>1, <2>2 DEF Dial, Complete, ShowPrompt
  <2>3. ASSUME NEW d \in Conns, Expire(d)
        PROVE  FALSE
    <3>1. dial[d].n \in Attempts
      BY <2>3, MineTyped DEF IInv, Expire
    <3>2. callback' = callback \/ callback' = [callback EXCEPT ![d][dial[d].n].state = "dropped"]
      BY <2>3 DEF Expire
    <3>3. CASE callback' = [callback EXCEPT ![d][dial[d].n].state = "dropped"]
      BY <3>1, <3>3, StateAsksNone
    <3> QED
      BY <2>1, <3>2, <3>3
  <2>4. ASSUME NEW d \in Conns, NEW m \in Attempts, Decide(d, m)
        PROVE  FALSE
    <3>1. PICK st \in {"trusted", "refused"} : callback' = [callback EXCEPT ![d][m].state = st]
      BY <2>4 DEF Decide
    <3> QED
      BY <3>1, StateAsksNone
  <2>5. ASSUME NEW d \in Conns, NEW m \in Attempts, Ask(d, m)
        PROVE  FALSE
    BY <2>5, AskAsksNone
  <2>6. ASSUME NEW m \in answers, ApproveHostKey(m)
        PROVE  FALSE
    BY <2>6, ApproveAsksNone
  <2>7. ASSUME NEW d \in Conns, NEW k \in Keys, Present(d, k)
        PROVE  \A x \in recorded : Alg[x] # Alg[callback'[c][n].key]
    <3>1. callback'[c][n].key = k /\ Verify(file, Host, Port, k) = "unknown"
      BY <2>7, PresentAsks
    <3>2. disturbed' = (disturbed \/ Rewriting)
      BY <2>7 DEF Present
    <3>3. ~disturbed /\ ~Rewriting
      <4>1. disturbed \in BOOLEAN /\ Rewriting \in BOOLEAN
        BY DEF IInv, Files, Rewriting
      <4> QED
        BY <3>2, <4>1
    <3>4. ~Busy("remove") /\ ~Busy("import")
      BY <3>3, RewritingLemma DEF IInv
    <3>5. \A x \in recorded : Known(file, x)
      BY <3>3, <3>4 DEF IInv, Record
    <3>6. \A x \in recorded : Alg[x] # Alg[k]
      BY <3>1, <3>5, UnknownIsApart
    <3> QED
      BY <3>1, <3>6
  <2>8. ASSUME NEW yes \in BOOLEAN, AnswerPrompt(yes)
        PROVE  FALSE
    BY <2>1, <2>8 DEF AnswerPrompt
  <2>9. ASSUME NEW cmd \in DOMAIN rewrite, RewriteRead(cmd) \/ RewriteTruncate(cmd) \/ RewriteWrite(cmd)
        PROVE  FALSE
    BY <2>1, <2>9 DEF RewriteRead, RewriteTruncate, RewriteWrite
  <2>10. CASE Idle
    BY <2>1, <2>10 DEF Idle, vars
  <2> QED
    BY <2>2, <2>3, <2>4, <2>5, <2>6, <2>7, <2>8, <2>9, <2>10, Zenon DEF Next
<1>2. Spec => [][Apart]_vars
  BY <1>1, Inductive, PTL DEF Spec
<1> QED
  BY <1>2, Zenon DEF ChangedNeverPrompts

-----------------------------------------------------------------------------
(* SshConfigLex: the spellings of a directive.                              *)

\* The characters that mean something to the lexer, no two the same.
LEMMA Marks ==
    /\ Space \in Characters /\ EqualSign \in Characters /\ Hash \in Characters /\ QuoteMark \in Characters
    /\ Space # EqualSign /\ Space # Hash /\ Space # QuoteMark
    /\ EqualSign # Hash /\ EqualSign # QuoteMark /\ Hash # QuoteMark
<1>1. Space # EqualSign /\ Space # Hash /\ Space # QuoteMark
  BY Zenon DEF Space, EqualSign, Hash, QuoteMark
<1>2. EqualSign # Hash /\ EqualSign # QuoteMark /\ Hash # QuoteMark
  BY Zenon DEF EqualSign, Hash, QuoteMark
<1> QED
  BY <1>1, <1>2, CharactersAssumption, Zenon

\* What a character does, outside a comment.
LEMMA LexCharIs ==
    ASSUME NEW s, ~s.comment, NEW ch
    PROVE  /\ LexChar(s, QuoteMark) = Quote(s)
           /\ ~s.quoted => LexChar(s, Hash) = [s EXCEPT !.comment = TRUE]
           /\ IsSeparator(s) => LexChar(s, EqualSign) = [EndField(s) EXCEPT !.separated = TRUE]
           /\ ~s.quoted => LexChar(s, Space) = EndField(s)
           /\ ch # QuoteMark /\ ~(ch = Hash /\ ~s.quoted) /\ ~(ch = EqualSign /\ IsSeparator(s)) /\ ~(ch = Space /\ ~s.quoted)
                => LexChar(s, ch) = [s EXCEPT !.current = Append(@, ch)]
BY Marks, Zenon DEF LexChar

LexStates == [out : Seq(Seq(Characters)), current : Seq(Characters), quoted : BOOLEAN, separated : BOOLEAN, comment : BOOLEAN]

\* What ending a field does.
LEMMA EndFieldIs ==
    ASSUME NEW s \in LexStates
    PROVE  /\ EndField(s) \in LexStates /\ EndField(s).current = <<>> /\ EndField(s).quoted = s.quoted
           /\ EndField(s).separated = s.separated /\ EndField(s).comment = s.comment
           /\ EndField(s).out = IF s.current = <<>> THEN s.out ELSE Append(s.out, s.current)
<1>1. s.out \in Seq(Seq(Characters)) /\ s.current \in Seq(Characters)
  BY DEF LexStates
<1>2. CASE s.current = <<>>
  BY <1>2 DEF EndField
<1>3. CASE s.current # <<>>
  <2>1. EndField(s) = [s EXCEPT !.out = Append(@, s.current), !.current = <<>>]
    BY <1>3 DEF EndField
  <2>2. Append(s.out, s.current) \in Seq(Seq(Characters)) /\ <<>> \in Seq(Characters)
    BY <1>1
  <2> QED
    BY <1>3, <2>1, <2>2 DEF LexStates
<1> QED
  BY <1>2, <1>3

\* What a quote does.
LEMMA QuoteIs ==
    ASSUME NEW s \in LexStates
    PROVE  /\ Quote(s) \in LexStates /\ Quote(s).current = s.current /\ Quote(s).quoted = ~s.quoted
           /\ Quote(s).separated = IF s.quoted /\ s.current = <<>> THEN TRUE ELSE s.separated
           /\ Quote(s).comment = s.comment
           /\ Quote(s).out = IF s.quoted /\ s.current = <<>> THEN Append(s.out, <<>>) ELSE s.out
<1>1. s.out \in Seq(Seq(Characters)) /\ s.current \in Seq(Characters) /\ s.quoted \in BOOLEAN
  BY DEF LexStates
<1>2. CASE s.quoted /\ s.current = <<>>
  <2>1. Quote(s) = [s EXCEPT !.quoted = FALSE, !.out = Append(@, <<>>), !.separated = TRUE]
    BY <1>2 DEF Quote
  <2>2. Append(s.out, <<>>) \in Seq(Seq(Characters))
    BY <1>1
  <2> QED
    BY <1>1, <1>2, <2>1, <2>2 DEF LexStates
<1>3. CASE ~(s.quoted /\ s.current = <<>>)
  <2>1. Quote(s) = [s EXCEPT !.quoted = ~@]
    BY <1>3 DEF Quote
  <2> QED
    BY <1>1, <1>3, <2>1 DEF LexStates
<1> QED
  BY <1>2, <1>3

\* Every character leaves a state of the lexer.
LEMMA LexCharType ==
    ASSUME NEW s \in LexStates, NEW ch \in Characters
    PROVE  LexChar(s, ch) \in LexStates
<1>1. Quote(s) \in LexStates /\ EndField(s) \in LexStates
  BY QuoteIs, EndFieldIs
<1>2. [s EXCEPT !.comment = TRUE] \in LexStates
  BY DEF LexStates
<1>3. [EndField(s) EXCEPT !.separated = TRUE] \in LexStates
  BY <1>1 DEF LexStates
<1>4. [s EXCEPT !.current = Append(@, ch)] \in LexStates
  <2>1. s.current \in Seq(Characters)
    BY DEF LexStates
  <2>2. Append(s.current, ch) \in Seq(Characters)
    BY <2>1
  <2> QED
    BY <2>2 DEF LexStates
<1> QED
  BY <1>1, <1>2, <1>3, <1>4, Zenon DEF LexChar

LexStep(f, raw, n) == IF n = 0 THEN Blank ELSE LexChar(f[n - 1], raw[n])
LexSteps(f, raw, m) == f = [n \in 0 .. m |-> LexStep(f, raw, n)]

\* The loop over the characters of a line has a result.
LEMMA LexStepsExist ==
    ASSUME NEW raw, NEW n \in Nat
    PROVE  \E f : LexSteps(f, raw, n)
<1> DEFINE P == {m \in Nat : \E f : LexSteps(f, raw, m)}
<1>1. 0 \in P
  <2>1. PICK f : f = [i \in 0 .. 0 |-> Blank]
    OBVIOUS
  <2>2. \A i \in 0 .. 0 : LexStep(f, raw, i) = Blank
    BY DEF LexStep
  <2>3. LexSteps(f, raw, 0)
    BY <2>1, <2>2 DEF LexSteps
  <2> QED
    BY <2>3
<1>2. ASSUME NEW m \in Nat, m \in P
      PROVE  m + 1 \in P
  <2>1. PICK f : LexSteps(f, raw, m)
    BY <1>2
  <2>2. PICK g : g = [i \in 0 .. m + 1 |-> IF i = m + 1 THEN LexStep(f, raw, m + 1) ELSE f[i]]
    OBVIOUS
  <2>3. ASSUME NEW i \in 0 .. m + 1
        PROVE  g[i] = LexStep(g, raw, i)
    <3>1. i \in Nat /\ (i # 0 => i - 1 \in 0 .. m + 1 /\ i - 1 # m + 1)
      OBVIOUS
    <3>2. i # 0 => g[i - 1] = f[i - 1]
      BY <2>2, <3>1
    <3>3. LexStep(g, raw, i) = LexStep(f, raw, i)
      BY <3>1, <3>2, Zenon DEF LexStep
    <3>4. i # m + 1 => i \in 0 .. m
      OBVIOUS
    <3>5. i \in 0 .. m => f[i] = LexStep(f, raw, i)
      BY <2>1, Zenon DEF LexSteps
    <3>6. g[i] = IF i = m + 1 THEN LexStep(f, raw, m + 1) ELSE f[i]
      BY <2>2, Zenon
    <3> QED
      BY <3>3, <3>4, <3>5, <3>6, Zenon
  <2>4. g = [i \in 0 .. m + 1 |-> g[i]]
    BY <2>2, Zenon
  <2>5. LexSteps(g, raw, m + 1)
    BY <2>3, <2>4, Zenon DEF LexSteps
  <2>6. m + 1 \in Nat
    OBVIOUS
  <2> QED
    BY <2>5, <2>6, Zenon
<1>3. Nat \subseteq P
  <2> HIDE DEF P
  <2> QED
    BY <1>1, <1>2, SetInduction, Zenon
<1> QED
  BY <1>3, Zenon

\* f holds the states of the lexer on a line: f[n] is the one after n characters.
LexRun(f, raw) ==
    /\ f[0] = Blank /\ \A n \in 0 .. Len(raw) : f[n] \in LexStates
    /\ \A n \in 1 .. Len(raw) : f[n] = LexChar(f[n - 1], raw[n])

\* The step of a run from m characters to n; two runs that are in one state
\* after a characters; two runs that end with the same fields.
LexesTo(f, raw, m, n) == f[n] = LexChar(f[m], raw[n])
SameAt(f, g, a) == f[a] = g[a]
SameEnd(f, r, g, q) == EndField(f[Len(r)]).out = EndField(g[Len(q)]).out

\* One step of a run.
LEMMA LexNext ==
    ASSUME NEW f, NEW raw, LexRun(f, raw), NEW n \in 1 .. Len(raw), NEW m, n - 1 = m
    PROVE  LexesTo(f, raw, m, n)
BY Zenon DEF LexRun, LexesTo

\* split_fields is such a run.
LEMMA LexRuns ==
    ASSUME NEW raw \in Seq(Characters)
    PROVE  \E f : LexRun(f, raw) /\ SplitFields(raw) = EndField(f[Len(raw)]).out
<1>0. PICK N \in Nat : N = Len(raw)
  OBVIOUS
<1> DEFINE f == CHOOSE f : LexSteps(f, raw, N)
<1>1. LexSteps(f, raw, N)
  BY LexStepsExist, Zenon
<1>2. SplitFields(raw) = EndField(f[N]).out
  BY <1>0, Zenon DEF SplitFields, LexSteps, LexStep
<1> HIDE DEF f
<1>3. \A n \in 0 .. N : f[n] = LexStep(f, raw, n)
  BY <1>1, Zenon DEF LexSteps
<1>4. f[0] = Blank
  BY <1>3 DEF LexStep
<1>5. ASSUME NEW n \in 1 .. N PROVE f[n] = LexChar(f[n - 1], raw[n])
  BY <1>3 DEF LexStep
<1> DEFINE P == {n \in Nat : n <= N => f[n] \in LexStates}
<1>6. 0 \in P
  <2>1. <<>> \in Seq(Seq(Characters)) /\ <<>> \in Seq(Characters)
    OBVIOUS
  <2>2. Blank \in LexStates
    BY <2>1 DEF Blank, LexStates
  <2> QED
    BY <1>4, <2>2
<1>7. ASSUME NEW n \in Nat, n \in P
      PROVE  n + 1 \in P
  <2>1. SUFFICES ASSUME n + 1 <= N PROVE f[n + 1] \in LexStates
    OBVIOUS
  <2>2. PICK m \in 1 .. N : m = n + 1 /\ m - 1 = n /\ raw[m] \in Characters
    BY <1>0, <2>1
  <2>3. f[n] \in LexStates
    BY <1>7, <2>1
  <2> QED
    BY <1>5, <2>2, <2>3, LexCharType, Zenon
<1>8. Nat \subseteq P
  <2> HIDE DEF P
  <2> QED
    BY <1>6, <1>7, SetInduction, Zenon
<1>9. \A n \in 0 .. N : f[n] \in LexStates
  BY <1>8
<1> QED
  BY <1>0, <1>2, <1>4, <1>5, <1>9, Zenon DEF LexRun

\* Lines that begin alike are lexed alike as far as that goes.
LEMMA SameBeginning ==
    ASSUME NEW r \in Seq(Characters), NEW t \in Seq(Characters), NEW f, NEW g, LexRun(f, r), LexRun(g, t),
           NEW a \in Nat, a <= Len(r), a <= Len(t), \A i \in 1 .. a : r[i] = t[i]
    PROVE  SameAt(f, g, a)
<1> DEFINE P == {n \in Nat : n <= a => f[n] = g[n]}
<1>1. 0 \in P
  BY DEF LexRun
<1>2. ASSUME NEW n \in Nat, n \in P
      PROVE  n + 1 \in P
  <2>1. SUFFICES ASSUME n + 1 <= a PROVE f[n + 1] = g[n + 1]
    OBVIOUS
  <2>2. PICK m \in 1 .. a : m = n + 1 /\ m - 1 = n /\ m \in 1 .. Len(r) /\ m \in 1 .. Len(t)
    BY <2>1
  <2>3. f[n] = g[n]
    BY <1>2, <2>1
  <2>4. f[m] = LexChar(f[n], r[m]) /\ g[m] = LexChar(g[n], t[m])
    BY <2>2 DEF LexRun
  <2> QED
    BY <2>2, <2>3, <2>4, Zenon
<1>3. Nat \subseteq P
  <2> HIDE DEF P
  <2> QED
    BY <1>1, <1>2, SetInduction, Zenon
<1> QED
  BY <1>3 DEF SameAt

\* Two states that differ in nothing but whether an `=` may still separate, and
\* only where none can any more.
SameFields(s, t) == s.out = t.out /\ s.current = t.current /\ s.quoted = t.quoted /\ s.comment = t.comment
Inert(s) == s.out # <<>> /\ (s.comment \/ s.quoted \/ s.current # <<>> \/ Len(s.out) >= 2)
Alike(s, t) == SameFields(s, t) /\ (s.separated = t.separated \/ Inert(s))

\* A field more than one is two.
LEMMA OneMore == ~(1 >= 2) /\ \A n \in Nat \ {0} : n + 1 >= 2
OBVIOUS

\* A sequence grows by one.
LEMMA Appended ==
    ASSUME NEW S, NEW q \in Seq(S), NEW x \in S
    PROVE  Append(q, x) \in Seq(S) /\ Append(q, x) # <<>> /\ Len(Append(q, x)) = Len(q) + 1 /\ Len(q) \in Nat
           /\ (q # <<>> => Len(q) # 0)
<1>1. Append(q, x) \in Seq(S) /\ Len(Append(q, x)) = Len(q) + 1 /\ Len(q) \in Nat /\ (q # <<>> => Len(q) # 0)
  OBVIOUS
<1>2. Append(q, x) # <<>>
  <2>1. Len(Append(q, x)) # 0
    BY <1>1
  <2>2. Len(<<>>) = 0
    OBVIOUS
  <2> QED
    BY <2>1, <2>2, Zenon
<1> QED
  BY <1>1, <1>2

\* States with the same fields keep them the same.
LEMMA SameEndField ==
    ASSUME NEW s \in LexStates, NEW t \in LexStates, SameFields(s, t)
    PROVE  SameFields(EndField(s), EndField(t)) /\ SameFields(Quote(s), Quote(t))
<1>1. s.out = t.out /\ s.current = t.current /\ s.quoted = t.quoted /\ s.comment = t.comment
  BY DEF SameFields
<1>2. EndField(s).current = EndField(t).current /\ EndField(s).quoted = EndField(t).quoted /\ EndField(s).comment = EndField(t).comment
  BY <1>1, EndFieldIs
<1>3. EndField(s).out = EndField(t).out
  <2>1. EndField(s).out = IF s.current = <<>> THEN s.out ELSE Append(s.out, s.current)
    BY EndFieldIs
  <2>2. EndField(t).out = IF t.current = <<>> THEN t.out ELSE Append(t.out, t.current)
    BY EndFieldIs
  <2> QED
    BY <1>1, <2>1, <2>2, Zenon
<1>4. Quote(s).current = Quote(t).current /\ Quote(s).quoted = Quote(t).quoted /\ Quote(s).comment = Quote(t).comment
  BY <1>1, QuoteIs
<1>5. Quote(s).out = Quote(t).out
  <2>1. Quote(s).out = IF s.quoted /\ s.current = <<>> THEN Append(s.out, <<>>) ELSE s.out
    BY QuoteIs
  <2>2. Quote(t).out = IF t.quoted /\ t.current = <<>> THEN Append(t.out, <<>>) ELSE t.out
    BY QuoteIs
  <2> QED
    BY <1>1, <2>1, <2>2, Zenon
<1> QED
  BY <1>2, <1>3, <1>4, <1>5, Zenon DEF SameFields

\* States that are alike have the same fields.
LEMMA AlikeFields ==
    ASSUME NEW s \in LexStates, NEW t \in LexStates, SameFields(s, t)
    PROVE  EndField(s).out = EndField(t).out
BY SameEndField, Zenon DEF SameFields

\* A character that takes no part in separating is taken alike.
LEMMA AlikeChar ==
    ASSUME NEW s \in LexStates, NEW t \in LexStates, NEW ch \in Characters, SameFields(s, t), s.out # <<>>,
           ch = EqualSign => (s.separated = t.separated \/ Inert(s)),
           ch = Space => (s.separated = t.separated \/ Inert(s))
    PROVE  Alike(LexChar(s, ch), LexChar(t, ch))
<1>0. /\ s.out \in Seq(Seq(Characters)) /\ s.current \in Seq(Characters) /\ s.quoted \in BOOLEAN /\ s.comment \in BOOLEAN
      /\ s.separated \in BOOLEAN /\ t.separated \in BOOLEAN
  BY DEF LexStates
<1>1. s.out = t.out /\ s.current = t.current /\ s.quoted = t.quoted /\ s.comment = t.comment
  BY DEF SameFields
<1>2. CASE s.comment
  <2>1. LexChar(s, ch) = s /\ LexChar(t, ch) = t
    BY <1>1, <1>2 DEF LexChar
  <2> QED
    BY <1>1, <1>2, <2>1 DEF Alike, SameFields, Inert
<1>3. CASE ~s.comment /\ ch = QuoteMark
  <2>1. LexChar(s, ch) = Quote(s) /\ LexChar(t, ch) = Quote(t)
    BY <1>1, <1>3, LexCharIs, Zenon
  <2>2. SameFields(Quote(s), Quote(t))
    BY SameEndField, Zenon
  <2>3. CASE s.quoted /\ s.current = <<>>
    <3>1. Quote(s).separated = TRUE /\ Quote(t).separated = TRUE
      BY <1>1, <2>3, QuoteIs
    <3> QED
      BY <2>1, <2>2, <3>1 DEF Alike
  <2>4. CASE ~(s.quoted /\ s.current = <<>>)
    <3>1. Quote(s).out = s.out /\ Quote(s).current = s.current /\ Quote(s).quoted = ~s.quoted
      BY <2>4, QuoteIs
    <3>2. Quote(s).quoted \/ Quote(s).current # <<>>
      BY <1>0, <2>4, <3>1
    <3>3. Inert(Quote(s))
      BY <3>1, <3>2 DEF Inert
    <3> QED
      BY <2>1, <2>2, <3>3 DEF Alike
  <2> QED
    BY <2>3, <2>4
<1>4. CASE ~s.comment /\ ch = Hash /\ ~s.quoted
  <2>1. LexChar(s, ch) = [s EXCEPT !.comment = TRUE] /\ LexChar(t, ch) = [t EXCEPT !.comment = TRUE]
    BY <1>1, <1>4, LexCharIs, Zenon
  <2> QED
    BY <1>1, <2>1 DEF Alike, SameFields, Inert, LexStates
<1>5. ASSUME ch = EqualSign, ~s.comment
      PROVE  IsSeparator(s) <=> IsSeparator(t)
  <2>1. CASE s.separated = t.separated
    BY <1>1, <2>1, Zenon DEF IsSeparator
  <2>2. CASE Inert(s)
    <3>1. s.quoted \/ s.current # <<>> \/ Len(s.out) >= 2
      BY <1>5, <2>2, Zenon DEF Inert
    <3>2. ~(Len(s.out) = 1 /\ s.current = <<>>) \/ s.quoted
      BY <3>1, OneMore, Zenon
    <3> QED
      BY <1>1, <3>2, Zenon DEF IsSeparator
  <2> QED
    BY <1>5, <2>1, <2>2
<1>6. CASE ~s.comment /\ ch = EqualSign /\ IsSeparator(s)
  <2>1. LexChar(s, ch) = [EndField(s) EXCEPT !.separated = TRUE] /\ LexChar(t, ch) = [EndField(t) EXCEPT !.separated = TRUE]
    BY <1>1, <1>5, <1>6, LexCharIs, Zenon
  <2>2. SameFields(EndField(s), EndField(t)) /\ EndField(s) \in LexStates /\ EndField(t) \in LexStates
    BY SameEndField, EndFieldIs, Zenon
  <2> QED
    BY <2>1, <2>2 DEF Alike, SameFields, LexStates
<1>7. CASE ~s.comment /\ ch = Space /\ ~s.quoted
  <2>1. LexChar(s, ch) = EndField(s) /\ LexChar(t, ch) = EndField(t)
    BY <1>1, <1>7, LexCharIs, Zenon
  <2>2. SameFields(EndField(s), EndField(t))
    BY SameEndField, Zenon
  <2>3. EndField(s).separated = s.separated /\ EndField(t).separated = t.separated
    BY EndFieldIs
  <2>4. ASSUME Inert(s) PROVE Inert(EndField(s))
    <3>1. CASE s.current = <<>>
      <4>1. EndField(s) = s
        BY <3>1 DEF EndField
      <4> QED
        BY <2>4, <4>1
    <3>2. CASE s.current # <<>>
      <4>1. EndField(s).out = Append(s.out, s.current)
        BY <3>2, EndFieldIs
      <4>2. Len(s.out) \in Nat \ {0} /\ Len(Append(s.out, s.current)) = Len(s.out) + 1
        BY <1>0, Appended
      <4>3. Len(EndField(s).out) >= 2
        <5>1. PICK n \in Nat \ {0} : n = Len(s.out)
          BY <4>2
        <5>2. Len(EndField(s).out) = n + 1
          BY <4>1, <4>2, <5>1, Zenon
        <5> QED
          BY <5>2, OneMore, Zenon
      <4>4. EndField(s).out # <<>>
        BY <1>0, <4>1, Appended, Zenon
      <4> QED
        BY <4>3, <4>4 DEF Inert
    <3> QED
      BY <3>1, <3>2
  <2> QED
    BY <1>7, <2>1, <2>2, <2>3, <2>4, Zenon DEF Alike
<1>8. CASE ~s.comment /\ ch # QuoteMark /\ ~(ch = Hash /\ ~s.quoted) /\ ~(ch = EqualSign /\ IsSeparator(s)) /\ ~(ch = Space /\ ~s.quoted)
  <2>1. LexChar(s, ch) = [s EXCEPT !.current = Append(@, ch)] /\ LexChar(t, ch) = [t EXCEPT !.current = Append(@, ch)]
    BY <1>1, <1>5, <1>8, LexCharIs, Zenon
  <2>2. Append(s.current, ch) # <<>>
    BY <1>0, Appended, Zenon
  <2> QED
    BY <1>1, <2>1, <2>2 DEF Alike, SameFields, Inert, LexStates
<1> QED
  BY <1>2, <1>3, <1>4, <1>6, <1>7, <1>8

\* So is every character from states that are alike.
LEMMA AlikeStep ==
    ASSUME NEW s \in LexStates, NEW t \in LexStates, NEW ch \in Characters, Alike(s, t), s.out # <<>>
    PROVE  Alike(LexChar(s, ch), LexChar(t, ch)) /\ LexChar(s, ch).out # <<>>
<1>1. Alike(LexChar(s, ch), LexChar(t, ch))
  BY AlikeChar DEF Alike
<1>2. LexChar(s, ch).out # <<>>
  <2>1. s.out \in Seq(Seq(Characters)) /\ s.current \in Seq(Characters)
    BY DEF LexStates
  <2>0. <<>> \in Seq(Characters)
    OBVIOUS
  <2>2. Append(s.out, s.current) # <<>> /\ Append(s.out, <<>>) # <<>>
    BY <2>0, <2>1, Appended, Zenon
  <2>3. Quote(s).out # <<>> /\ EndField(s).out # <<>> /\ EndField(s) \in LexStates
    BY <2>2, QuoteIs, EndFieldIs
  <2>4. [s EXCEPT !.comment = TRUE].out # <<>> /\ [s EXCEPT !.current = Append(@, ch)].out # <<>>
    BY DEF LexStates
  <2>5. [EndField(s) EXCEPT !.separated = TRUE].out # <<>>
    BY <2>3 DEF LexStates
  <2> QED
    BY <2>3, <2>4, <2>5, Zenon DEF LexChar
<1> QED
  BY <1>1, <1>2

\* Places behind the first a of a + l.
LEMMA OffsetStep ==
    \A a, n, l \in Nat :
        n + 1 <= l => a + (n + 1) \in 1 .. a + l /\ (a + (n + 1)) - 1 = a + n /\ a + n \in 0 .. a + l
OBVIOUS

\* From states that are alike, the same rest of a line leads to the same fields.
LEMMA SameRest ==
    ASSUME NEW r \in Seq(Characters), NEW q \in Seq(Characters), NEW f, NEW g, LexRun(f, r), LexRun(g, q),
           NEW a \in Nat, NEW b \in Nat, NEW l \in Nat, Len(r) = a + l, Len(q) = b + l,
           \A i \in 1 .. l : r[a + i] = q[b + i], Alike(f[a], g[b]), f[a].out # <<>>
    PROVE  SameEnd(f, r, g, q)
<1> DEFINE P == {n \in Nat : n <= l => Alike(f[a + n], g[b + n]) /\ f[a + n].out # <<>>}
<1>1. 0 \in P
  OBVIOUS
<1>2. ASSUME NEW n \in Nat, n \in P
      PROVE  n + 1 \in P
  <2>1. SUFFICES ASSUME n + 1 <= l PROVE Alike(f[a + (n + 1)], g[b + (n + 1)]) /\ f[a + (n + 1)].out # <<>>
    OBVIOUS
  <2>2. PICK x \in 1 .. Len(r), y \in 1 .. Len(q) : x = a + (n + 1) /\ y = b + (n + 1) /\ x - 1 = a + n /\ y - 1 = b + n
    <3>1. a + (n + 1) \in 1 .. Len(r) /\ (a + (n + 1)) - 1 = a + n
      BY <2>1, OffsetStep, Zenon
    <3>2. b + (n + 1) \in 1 .. Len(q) /\ (b + (n + 1)) - 1 = b + n
      BY <2>1, OffsetStep, Zenon
    <3> QED
      BY <3>1, <3>2, Zenon
  <2>3. PICK ch \in Characters : ch = r[x] /\ ch = q[y]
    <3>1. n + 1 \in 1 .. l
      BY <2>1
    <3>2. r[x] = q[y]
      BY <2>2, <3>1, Zenon
    <3>3. r[x] \in Characters
      BY <2>2
    <3> QED
      BY <3>2, <3>3, Zenon
  <2>4. f[x] = LexChar(f[a + n], ch) /\ g[y] = LexChar(g[b + n], ch)
    BY <2>2, <2>3 DEF LexRun
  <2>5. f[a + n] \in LexStates /\ g[b + n] \in LexStates
    <3>1. a + n \in 0 .. Len(r) /\ b + n \in 0 .. Len(q)
      BY <2>1, OffsetStep, Zenon
    <3> QED
      BY <3>1, Zenon DEF LexRun
  <2>6. Alike(f[a + n], g[b + n]) /\ f[a + n].out # <<>>
    BY <1>2, <2>1
  <2>7. Alike(f[x], g[y]) /\ f[x].out # <<>>
    BY <2>4, <2>5, <2>6, AlikeStep, Zenon
  <2> QED
    BY <2>2, <2>7, Zenon
<1>3. Nat \subseteq P
  <2> HIDE DEF P
  <2> QED
    BY <1>1, <1>2, SetInduction, Zenon
<1>4. Alike(f[a + l], g[b + l])
  BY <1>3
<1>5. SameFields(f[Len(r)], g[Len(q)])
  BY <1>4, Zenon DEF Alike
<1>6. f[Len(r)] \in LexStates /\ g[Len(q)] \in LexStates
  <2>1. Len(r) \in 0 .. Len(r) /\ Len(q) \in 0 .. Len(q)
    OBVIOUS
  <2> QED
    BY <2>1, Zenon DEF LexRun
<1> QED
  BY <1>5, <1>6, AlikeFields, Zenon DEF SameEnd

\* Behind a keyword the lexer holds it as the field it has begun.
LEMMA AfterWord ==
    ASSUME NEW w \in Seq(Characters), Word(w), NEW r \in Seq(Characters), NEW f, LexRun(f, r),
           Len(w) <= Len(r), \A i \in 1 .. Len(w) : r[i] = w[i], NEW s, s = f[Len(w)]
    PROVE  s \in LexStates /\ s.out = <<>> /\ s.current # <<>> /\ ~s.quoted /\ ~s.separated /\ ~s.comment
<1>0. PICK N \in Nat : N = Len(w) /\ N # 0 /\ DOMAIN w = 1 .. N /\ 0 .. N \subseteq 0 .. Len(r) /\ 1 .. N \subseteq 1 .. Len(r)
  <2>1. w # <<>>
    BY Zenon DEF Word
  <2> QED
    BY <2>1
<1> DEFINE Good(n) == f[n].out = <<>> /\ (n # 0 => f[n].current # <<>>) /\ f[n].quoted = FALSE /\ f[n].separated = FALSE /\ f[n].comment = FALSE
<1> DEFINE P == {n \in Nat : n <= N => Good(n)}
<1>1. 0 \in P
  BY DEF LexRun, Blank
<1>2. ASSUME NEW n \in Nat, n \in P
      PROVE  n + 1 \in P
  <2>0. n + 1 \in Nat
    OBVIOUS
  <2>1. SUFFICES ASSUME n + 1 <= N PROVE Good(n + 1)
    BY <2>0, Zenon
  <2>2. PICK m \in 1 .. N : m = n + 1 /\ m - 1 = n /\ n \in 0 .. N
    BY <1>0, <2>1
  <2>3. PICK ch \in Characters : ch = r[m] /\ ch \notin {QuoteMark, Hash, EqualSign, Space}
    <3>1. m \in DOMAIN w /\ r[m] = w[m] /\ w[m] \in Characters
      BY <1>0, <2>2
    <3> QED
      BY <3>1, Zenon DEF Word
  <2>4. PICK t : t = f[n]
    OBVIOUS
  <2>5. t \in LexStates /\ f[m] = LexChar(t, ch)
    BY <1>0, <2>2, <2>3, <2>4 DEF LexRun
  <2>6. t.out = <<>> /\ t.quoted = FALSE /\ t.separated = FALSE /\ t.comment = FALSE
    BY <1>2, <2>1, <2>4
  <2>7. f[m] = [t EXCEPT !.current = Append(@, ch)]
    BY <2>3, <2>5, <2>6, LexCharIs, Zenon
  <2>8. Append(t.current, ch) # <<>>
    <3>1. t.current \in Seq(Characters)
      BY <2>5 DEF LexStates
    <3> QED
      BY <3>1, Appended, Zenon
  <2>9. Good(m)
    BY <2>5, <2>6, <2>7, <2>8 DEF LexStates
  <2> QED
    BY <2>2, <2>9, Zenon
<1>3. Nat \subseteq P
  <2> HIDE DEF P
  <2> QED
    BY <1>1, <1>2, SetInduction, Zenon
<1>4. Good(N)
  BY <1>3
<1>5. f[N] \in LexStates
  <2>1. N \in 0 .. Len(r)
    BY <1>0
  <2> QED
    BY <2>1, Zenon DEF LexRun
<1> QED
  BY <1>0, <1>4, <1>5

\* Behind a keyword, what a space and the forms of `=` lead to.
LEMMA AfterEquals ==
    ASSUME NEW s \in LexStates, s.out = <<>>, s.current # <<>>, ~s.quoted, ~s.separated, ~s.comment,
           NEW e, e = EndField(s), NEW u, u = [e EXCEPT !.separated = TRUE]
    PROVE  /\ LexChar(s, Space) = e /\ LexChar(s, EqualSign) = u /\ LexChar(e, EqualSign) = u /\ LexChar(u, Space) = u
           /\ e \in LexStates /\ u \in LexStates /\ SameFields(u, e) /\ u.out # <<>>
           /\ ~u.quoted /\ ~u.comment /\ u.current = <<>>
<1>1. s.current \in Seq(Characters) /\ s.out \in Seq(Seq(Characters))
  BY DEF LexStates
<1>2. /\ e \in LexStates /\ e.current = <<>> /\ e.quoted = s.quoted /\ e.separated = s.separated /\ e.comment = s.comment
      /\ e.out = Append(s.out, s.current)
  BY EndFieldIs
<1>3. Append(s.out, s.current) # <<>> /\ Len(Append(s.out, s.current)) = Len(s.out) + 1
  BY <1>1, Appended, Zenon
<1>4. Len(s.out) = 0
  OBVIOUS
<1>5. Len(e.out) = 1
  <2>1. Len(e.out) = 0 + 1
    BY <1>2, <1>3, <1>4, Zenon
  <2> QED
    BY <2>1
<1>6. IsSeparator(s) /\ IsSeparator(e)
  BY <1>2, <1>5, Zenon DEF IsSeparator
<1>7. LexChar(s, Space) = e /\ LexChar(s, EqualSign) = u
  BY <1>6, LexCharIs, Zenon
<1>8. EndField(e) = e
  BY <1>2, Zenon DEF EndField
<1>9. LexChar(e, EqualSign) = u
  BY <1>2, <1>6, <1>8, LexCharIs, Zenon
<1>10. u \in LexStates /\ u.out = e.out /\ u.current = e.current /\ u.quoted = e.quoted /\ u.comment = e.comment
  BY <1>2 DEF LexStates
<1>11. EndField(u) = u
  BY <1>2, <1>10, Zenon DEF EndField
<1>12. LexChar(u, Space) = u
  BY <1>2, <1>10, <1>11, LexCharIs, Zenon
<1> QED
  BY <1>2, <1>3, <1>7, <1>9, <1>10, <1>12, Zenon DEF SameFields

\* A sequence in two pieces.
LEMMA TwoPieces ==
    ASSUME NEW S, NEW a \in Seq(S), NEW b \in Seq(S)
    PROVE  /\ a \o b \in Seq(S) /\ Len(a \o b) = Len(a) + Len(b) /\ Len(a) \in Nat /\ Len(b) \in Nat
           /\ \A i \in 1 .. Len(a) : (a \o b)[i] = a[i]
           /\ \A i \in 1 .. Len(b) : (a \o b)[Len(a) + i] = b[i]
OBVIOUS

\* Line r is made of a, b and c.
Reads(r, a, b, c) ==
    /\ r \in Seq(Characters) /\ Len(r) = Len(a) + Len(b) + Len(c)
    /\ \A i \in 1 .. Len(a) : r[i] = a[i]
    /\ \A i \in 1 .. Len(b) : r[Len(a) + i] = b[i]
    /\ \A i \in 1 .. Len(c) : r[Len(a) + Len(b) + i] = c[i]

\* A line in three pieces.
LEMMA Pieces ==
    ASSUME NEW a \in Seq(Characters), NEW b \in Seq(Characters), NEW c \in Seq(Characters)
    PROVE  Reads(a \o b \o c, a, b, c)
<1>1. PICK l \in Nat, m \in Nat, n \in Nat : l = Len(a) /\ m = Len(b) /\ n = Len(c)
  OBVIOUS
<1>2. PICK q \in Seq(Characters) : q = a \o b
  BY TwoPieces, Zenon
<1>3. Len(q) = l + m /\ (\A i \in 1 .. l : q[i] = a[i]) /\ (\A i \in 1 .. m : q[l + i] = b[i])
  BY <1>1, <1>2
<1>4. PICK r \in Seq(Characters) : r = q \o c
  BY TwoPieces, Zenon
<1>5. /\ Len(r) = l + m + n /\ (\A i \in 1 .. l + m : r[i] = q[i]) /\ (\A i \in 1 .. n : r[l + m + i] = c[i])
  <2>1. PICK k \in Nat : k = l + m
    OBVIOUS
  <2>2. Len(q) = k
    BY <1>3, <2>1
  <2>3. /\ Len(q \o c) = Len(q) + Len(c) /\ (\A i \in 1 .. Len(q) : (q \o c)[i] = q[i])
        /\ (\A i \in 1 .. Len(c) : (q \o c)[Len(q) + i] = c[i])
    BY TwoPieces
  <2>4. Len(r) = k + n /\ (\A i \in 1 .. k : r[i] = q[i]) /\ (\A i \in 1 .. n : r[k + i] = c[i])
    BY <1>1, <1>4, <2>2, <2>3, Zenon
  <2> QED
    BY <2>1, <2>4, Zenon
<1>0. (\A i \in 1 .. l : i \in 1 .. l + m) /\ (\A i \in 1 .. m : l + i \in 1 .. l + m)
  OBVIOUS
<1>6. \A i \in 1 .. l : r[i] = a[i]
  BY <1>0, <1>3, <1>5, Zenon
<1>7. \A i \in 1 .. m : r[l + i] = b[i]
  BY <1>0, <1>3, <1>5, Zenon
<1>8. Reads(r, a, b, c)
  BY <1>1, <1>5, <1>6, <1>7, Zenon DEF Reads
<1> QED
  BY <1>2, <1>4, <1>8, Zenon

\* The forms of the separator are texts.
LEMMA EqualsAreText == Equals \subseteq Seq(Characters) /\ <<Space>> \in Seq(Characters) /\ Len(<<Space>>) = 1
<1>1. /\ <<EqualSign>> \in Seq(Characters) /\ <<Space, EqualSign>> \in Seq(Characters)
      /\ <<EqualSign, Space>> \in Seq(Characters) /\ <<Space, EqualSign, Space>> \in Seq(Characters)
  BY Marks
<1>2. <<Space>> \in Seq(Characters) /\ Len(<<Space>>) = 1
  BY Marks
<1> QED
  BY <1>1, <1>2, Zenon DEF Equals

\* u is e with the `=` used, behind the first field.
Separated(u, e) ==
    /\ u \in LexStates /\ e \in LexStates /\ SameFields(u, e) /\ u.out # <<>>
    /\ ~u.quoted /\ ~u.comment /\ u.current = <<>>

\* Behind a keyword and an `=` in any of its forms the lexer is where it is
\* behind the keyword and a space, but for the `=` it has used.
LEMMA BehindEquals ==
    ASSUME NEW w \in Seq(Characters), Word(w), NEW v \in Seq(Characters), NEW sep \in Equals,
           NEW r, Reads(r, w, sep, v), NEW q, Reads(q, w, <<Space>>, v), NEW f, LexRun(f, r), NEW g, LexRun(g, q)
    PROVE  Separated(f[Len(w) + Len(sep)], g[Len(w) + 1])
<1>0. sep \in Seq(Characters) /\ <<Space>> \in Seq(Characters)
  BY EqualsAreText, Zenon
<1>1. PICK a \in Nat : a = Len(w)
  OBVIOUS
<1>2. PICK m \in Nat, n \in Nat : m = Len(sep) /\ n = Len(v)
  BY <1>0
<1>3. /\ r \in Seq(Characters) /\ Len(r) = a + m + n /\ (\A i \in 1 .. a : r[i] = w[i]) /\ (\A i \in 1 .. m : r[a + i] = sep[i])
  BY <1>1, <1>2, Zenon DEF Reads
<1>4. Len(<<Space>>) = 1 /\ <<Space>>[1] = Space /\ 1 \in 1 .. 1
  OBVIOUS
<1>5. /\ q \in Seq(Characters) /\ Len(q) = a + 1 + n /\ (\A i \in 1 .. a : q[i] = w[i]) /\ (\A i \in 1 .. 1 : q[a + i] = <<Space>>[i])
  <2>1. Len(q) = Len(w) + Len(<<Space>>) + Len(v)
    BY Zenon DEF Reads
  <2>2. q \in Seq(Characters) /\ (\A i \in 1 .. Len(w) : q[i] = w[i]) /\ \A i \in 1 .. Len(<<Space>>) : q[Len(w) + i] = <<Space>>[i]
    BY Zenon DEF Reads
  <2> QED
    BY <1>1, <1>2, <1>4, <2>1, <2>2, Zenon
<1>6. PICK s : s = f[a]
  OBVIOUS
<1>7. a <= Len(r) /\ a <= Len(q) /\ Len(w) <= Len(r)
  <2>1. Len(r) = a + m + n /\ Len(q) = a + 1 + n
    BY <1>3, <1>5, Zenon
  <2>2. a <= a + m + n /\ a <= a + 1 + n
    BY <1>1, <1>2
  <2> QED
    BY <1>1, <2>1, <2>2, Zenon
<1>8. s \in LexStates /\ s.out = <<>> /\ s.current # <<>> /\ ~s.quoted /\ ~s.separated /\ ~s.comment
  BY <1>1, <1>3, <1>6, <1>7, AfterWord, ZenonT(40)
<1>9. g[a] = s
  <2>1. \A i \in 1 .. a : r[i] = q[i]
    BY <1>3, <1>5, Zenon
  <2>2. SameAt(f, g, a)
    BY <1>3, <1>5, <1>7, <2>1, SameBeginning, Zenon
  <2> QED
    BY <1>6, <2>2, Zenon DEF SameAt
<1>10. PICK e, u : e = EndField(s) /\ u = [e EXCEPT !.separated = TRUE]
  OBVIOUS
<1>11. /\ LexChar(s, Space) = e /\ LexChar(s, EqualSign) = u /\ LexChar(e, EqualSign) = u /\ LexChar(u, Space) = u
       /\ e \in LexStates /\ u \in LexStates /\ SameFields(u, e) /\ u.out # <<>>
       /\ ~u.quoted /\ ~u.comment /\ u.current = <<>>
  BY <1>8, <1>10, AfterEquals, Zenon
<1>12. g[a + 1] = e
  <2>1. PICK x \in 1 .. Len(q) : x = a + 1 /\ x - 1 = a
    BY <1>2, <1>5
  <2>2. LexesTo(g, q, a, x)
    BY <2>1, LexNext, Zenon
  <2>3. q[x] = Space
    BY <1>4, <1>5, <2>1, Zenon
  <2> QED
    BY <1>9, <1>11, <2>1, <2>2, <2>3, Zenon DEF LexesTo
<1>13. ASSUME NEW i \in 1 .. m
       PROVE  f[a + i] = LexChar(f[a + (i - 1)], sep[i])
  <2>1. PICK x \in 1 .. Len(r), y \in Nat : x = a + i /\ x - 1 = y /\ y = a + (i - 1)
    BY <1>2, <1>3
  <2>2. LexesTo(f, r, y, x)
    BY <2>1, LexNext, Zenon
  <2> QED
    BY <1>3, <2>1, <2>2, Zenon DEF LexesTo
<1>14. f[a + m] = u
  <2>0. a + 0 = a /\ 1 - 1 = 0 /\ 2 - 1 = 1 /\ 3 - 1 = 2
    OBVIOUS
  <2>1. CASE sep = <<EqualSign>>
    <3>1. m = 1 /\ sep[1] = EqualSign /\ 1 \in 1 .. m
      BY <1>2, <2>1
    <3> QED
      BY <1>6, <1>11, <1>13, <2>0, <3>1, Zenon
  <2>2. CASE sep = <<Space, EqualSign>>
    <3>1. m = 2 /\ sep[1] = Space /\ sep[2] = EqualSign /\ 1 \in 1 .. m /\ 2 \in 1 .. m
      BY <1>2, <2>2
    <3>2. f[a + 1] = e
      BY <1>6, <1>11, <1>13, <2>0, <3>1, Zenon
    <3> QED
      BY <1>11, <1>13, <2>0, <3>1, <3>2, Zenon
  <2>3. CASE sep = <<EqualSign, Space>>
    <3>1. m = 2 /\ sep[1] = EqualSign /\ sep[2] = Space /\ 1 \in 1 .. m /\ 2 \in 1 .. m
      BY <1>2, <2>3
    <3>2. f[a + 1] = u
      BY <1>6, <1>11, <1>13, <2>0, <3>1, Zenon
    <3> QED
      BY <1>11, <1>13, <2>0, <3>1, <3>2, Zenon
  <2>4. CASE sep = <<Space, EqualSign, Space>>
    <3>1. m = 3 /\ sep[1] = Space /\ sep[2] = EqualSign /\ sep[3] = Space /\ 1 \in 1 .. m /\ 2 \in 1 .. m /\ 3 \in 1 .. m
      BY <1>2, <2>4
    <3>2. f[a + 1] = e
      BY <1>6, <1>11, <1>13, <2>0, <3>1, Zenon
    <3>3. f[a + 2] = u
      BY <1>11, <1>13, <2>0, <3>1, <3>2, Zenon
    <3> QED
      BY <1>11, <1>13, <2>0, <3>1, <3>3, Zenon
  <2> QED
    BY <2>1, <2>2, <2>3, <2>4, Zenon DEF Equals
<1> QED
  BY <1>1, <1>2, <1>11, <1>12, <1>14, Zenon DEF Separated

\* The spellings of a directive tokenize alike.
LEMMA AlwaysSpelledAlike ==
    ASSUME NEW w \in Seq(Characters), NEW v \in Seq(Characters)
    PROVE  SpelledAlike(w, v)
<1>10. SUFFICES ASSUME Word(w), v = <<>> \/ v[1] \notin {EqualSign, Space}, NEW sep \in Equals
               PROVE  TokenizeLine(w \o sep \o v) = TokenizeLine(w \o <<Space>> \o v)
  BY Zenon DEF SpelledAlike
<1>0. sep \in Seq(Characters) /\ <<Space>> \in Seq(Characters) /\ Len(<<Space>>) = 1
  BY EqualsAreText, Zenon
<1>1. PICK r, q : r = w \o sep \o v /\ q = w \o <<Space>> \o v /\ Reads(r, w, sep, v) /\ Reads(q, w, <<Space>>, v)
  BY <1>0, Pieces, Zenon
<1>2. PICK a \in Nat, m \in Nat, n \in Nat : a = Len(w) + Len(sep) /\ m = Len(w) + 1 /\ n = Len(v)
  BY <1>0
<1>3. r \in Seq(Characters) /\ Len(r) = a + n /\ \A i \in 1 .. n : r[a + i] = v[i]
  BY <1>1, <1>2, Zenon DEF Reads
<1>4. q \in Seq(Characters) /\ Len(q) = m + n /\ \A i \in 1 .. n : q[m + i] = v[i]
  BY <1>0, <1>1, <1>2, Zenon DEF Reads
<1>5. PICK f : LexRun(f, r) /\ SplitFields(r) = EndField(f[Len(r)]).out
  BY <1>3, LexRuns, Zenon
<1>6. PICK g : LexRun(g, q) /\ SplitFields(q) = EndField(g[Len(q)]).out
  BY <1>4, LexRuns, Zenon
<1>7. PICK u, e : u = f[a] /\ e = g[m]
  OBVIOUS
<1>8. Separated(u, e)
  <2>1. Separated(f[Len(w) + Len(sep)], g[Len(w) + 1])
    BY <1>1, <1>5, <1>6, <1>10, BehindEquals, Zenon
  <2> QED
    BY <1>2, <1>7, <2>1, Zenon
<1>11. u \in LexStates /\ e \in LexStates /\ SameFields(u, e) /\ u.out # <<>>
  BY <1>8, Zenon DEF Separated
<1>12. Len(r) = a + n /\ Len(q) = m + n
  BY <1>3, <1>4, Zenon
<1>13. LexRun(f, r) /\ LexRun(g, q)
  BY <1>5, <1>6, Zenon
<1>9. SameEnd(f, r, g, q)
  <2>1. CASE n = 0
    <3>1. Len(r) = a /\ Len(q) = m
      BY <1>12, <2>1
    <3>2. EndField(u).out = EndField(e).out
      BY <1>11, AlikeFields, Zenon
    <3> QED
      BY <1>7, <3>1, <3>2, Zenon DEF SameEnd
  <2>2. CASE n # 0
    <3>1. PICK l \in Nat : n = l + 1
      BY <2>2
    <3>2. v # <<>> /\ 1 \in 1 .. n /\ v[1] \in Characters
      BY <1>2, <2>2
    <3>3. PICK ch \in Characters : ch = v[1] /\ ch # EqualSign /\ ch # Space
      BY <1>10, <3>2, Zenon
    <3>4. PICK x \in 1 .. Len(r), y \in 1 .. Len(q) : x = a + 1 /\ y = m + 1 /\ x - 1 = a /\ y - 1 = m
      BY <1>12, <3>1
    <3>5. f[x] = LexChar(u, ch) /\ g[y] = LexChar(e, ch)
      <4>1. r[x] = ch /\ q[y] = ch
        BY <1>3, <1>4, <3>2, <3>3, <3>4, Zenon
      <4>2. LexesTo(f, r, a, x)
        BY <1>13, <3>4, LexNext, Zenon
      <4>3. LexesTo(g, q, m, y)
        BY <1>13, <3>4, LexNext, Zenon
      <4> QED
        BY <1>7, <4>1, <4>2, <4>3, Zenon DEF LexesTo
    <3>6. Alike(f[x], g[y])
      BY <1>11, <3>3, <3>5, AlikeChar, Zenon
    <3>7. f[x].out # <<>>
      <4>1. Alike(u, u)
        BY Zenon DEF Alike, SameFields
      <4> QED
        BY <1>11, <3>5, <4>1, AlikeStep, Zenon
    <3>8. x \in Nat /\ y \in Nat /\ Len(r) = x + l /\ Len(q) = y + l
      BY <1>12, <3>1, <3>4
    <3>9. ASSUME NEW i \in 1 .. l PROVE r[x + i] = q[y + i]
      <4>1. PICK j \in 1 .. n : x + i = a + j /\ y + i = m + j
        <5>1. i + 1 \in 1 .. n /\ x + i = a + (i + 1) /\ y + i = m + (i + 1)
          BY <3>1, <3>4
        <5> QED
          BY <5>1, Zenon
      <4>2. r[a + j] = v[j] /\ q[m + j] = v[j]
        BY <1>3, <1>4, Zenon
      <4> QED
        BY <4>1, <4>2, Zenon
    <3>10. r \in Seq(Characters) /\ q \in Seq(Characters)
      BY <1>3, <1>4, Zenon
    <3>11. \A i \in 1 .. l : r[x + i] = q[y + i]
      BY <3>9
    <3> QED
      BY <1>13, <3>6, <3>7, <3>8, <3>10, <3>11, SameRest, Zenon
  <2> QED
    BY <2>1, <2>2
<1> QED
  BY <1>1, <1>5, <1>6, <1>9, Zenon DEF TokenizeLine, SameEnd

-----------------------------------------------------------------------------
(* SshConfigLex: comments.                                                  *)

\* The quotes among the first n characters.
QuotesTo(raw, n) == {i \in 1 .. n : raw[i] = QuoteMark}

\* One more is odd where it was even.
LEMMA Parity == \A c \in Nat : ((c + 1) % 2 = 1 <=> ~(c % 2 = 1)) /\ (c % 2 = 0 => ~(c % 2 = 1))
OBVIOUS

\* How many quotes there are, one character later.
LEMMA QuotesGrow ==
    ASSUME NEW raw, NEW n \in Nat
    PROVE  /\ Cardinality(QuotesTo(raw, n)) \in Nat /\ QuotesTo(raw, 0) = {} /\ Cardinality(QuotesTo(raw, 0)) = 0
           /\ raw[n + 1] = QuoteMark => Cardinality(QuotesTo(raw, n + 1)) = Cardinality(QuotesTo(raw, n)) + 1
           /\ raw[n + 1] # QuoteMark => QuotesTo(raw, n + 1) = QuotesTo(raw, n)
<1>1. IsFiniteSet(1 .. n)
  BY FS_Interval
<1>2. QuotesTo(raw, n) \in SUBSET (1 .. n)
  BY Zenon DEF QuotesTo
<1>3. IsFiniteSet(QuotesTo(raw, n))
  BY <1>1, <1>2, FS_Subset, Zenon
<1>4. Cardinality(QuotesTo(raw, n)) \in Nat
  BY <1>3, FS_CardinalityType, Zenon
<1>5. QuotesTo(raw, 0) = {}
  BY DEF QuotesTo
<1>6. Cardinality(QuotesTo(raw, 0)) = 0
  BY <1>5, FS_EmptySet, Zenon
<1>7. ASSUME raw[n + 1] = QuoteMark
      PROVE  Cardinality(QuotesTo(raw, n + 1)) = Cardinality(QuotesTo(raw, n)) + 1
  <2>1. QuotesTo(raw, n + 1) = QuotesTo(raw, n) \cup {n + 1}
    BY <1>7 DEF QuotesTo
  <2>2. n + 1 \notin QuotesTo(raw, n)
    BY DEF QuotesTo
  <2> QED
    BY <1>3, <2>1, <2>2, FS_AddElement, Zenon
<1>8. ASSUME raw[n + 1] # QuoteMark
      PROVE  QuotesTo(raw, n + 1) = QuotesTo(raw, n)
  BY <1>8 DEF QuotesTo
<1> QED
  BY <1>4, <1>5, <1>6, <1>7, <1>8

\* Only a quote changes whether the lexer is inside quotes.
LEMMA OnlyQuotesQuote ==
    ASSUME NEW s \in LexStates, NEW ch \in Characters
    PROVE  /\ s.comment => LexChar(s, ch) = s
           /\ ~s.comment /\ ch = QuoteMark => LexChar(s, ch).quoted = ~s.quoted
           /\ ~s.comment /\ ch # QuoteMark => LexChar(s, ch).quoted = s.quoted
<1>1. Quote(s).quoted = ~s.quoted
  BY QuoteIs
<1>2. [s EXCEPT !.comment = TRUE].quoted = s.quoted /\ [s EXCEPT !.current = Append(@, ch)].quoted = s.quoted
  BY DEF LexStates
<1>3. EndField(s) \in LexStates /\ EndField(s).quoted = s.quoted
  BY EndFieldIs
<1>4. [EndField(s) EXCEPT !.separated = TRUE].quoted = s.quoted
  BY <1>3 DEF LexStates
<1>5. s.comment => LexChar(s, ch) = s
  BY Zenon DEF LexChar
<1>6. ~s.comment /\ ch = QuoteMark => LexChar(s, ch) = Quote(s)
  BY Zenon DEF LexChar
<1>7. ASSUME ~s.comment, ch # QuoteMark
      PROVE  LexChar(s, ch).quoted = s.quoted
  BY <1>2, <1>3, <1>4, <1>7, Zenon DEF LexChar
<1> QED
  BY <1>1, <1>5, <1>6, <1>7, Zenon

\* Outside a comment the lexer is inside quotes after an odd number of them.
QuotedWhereOdd(f, raw, n) == f[n].comment \/ (f[n].quoted <=> Cardinality(QuotesTo(raw, n)) % 2 = 1)

\* So it is after every character.
LEMMA QuoteParity ==
    ASSUME NEW raw \in Seq(Characters), NEW f, LexRun(f, raw), NEW n \in Nat, n <= Len(raw)
    PROVE  QuotedWhereOdd(f, raw, n)
<1> DEFINE P == {m \in Nat : m <= Len(raw) => QuotedWhereOdd(f, raw, m)}
<1>1. 0 \in P
  <2>1. f[0] = Blank
    BY Zenon DEF LexRun
  <2>2. ~f[0].quoted
    BY <2>1 DEF Blank
  <2>3. ~(0 % 2 = 1)
    OBVIOUS
  <2>4. Cardinality(QuotesTo(raw, 0)) = 0
    BY QuotesGrow
  <2>5. QuotedWhereOdd(f, raw, 0)
    BY <2>2, <2>3, <2>4, Zenon DEF QuotedWhereOdd
  <2> QED
    BY <2>5
<1>2. ASSUME NEW m \in Nat, m \in P
      PROVE  m + 1 \in P
  <2>1. SUFFICES ASSUME m + 1 <= Len(raw) PROVE QuotedWhereOdd(f, raw, m + 1)
    OBVIOUS
  <2>2. PICK x \in 1 .. Len(raw) : x = m + 1 /\ x - 1 = m /\ m \in 0 .. Len(raw) /\ raw[x] \in Characters
    BY <2>1
  <2>3. QuotedWhereOdd(f, raw, m)
    BY <1>2, <2>1
  <2>4. PICK s \in LexStates, c \in Nat : s = f[m] /\ c = Cardinality(QuotesTo(raw, m))
    <3>1. f[m] \in LexStates
      BY <2>2, Zenon DEF LexRun
    <3>2. Cardinality(QuotesTo(raw, m)) \in Nat
      BY QuotesGrow, Zenon
    <3> QED
      BY <3>1, <3>2, Zenon
  <2>5. s.comment \/ (s.quoted <=> c % 2 = 1)
    BY <2>3, <2>4, Zenon DEF QuotedWhereOdd
  <2>6. LexesTo(f, raw, m, x)
    BY <2>2, LexNext, Zenon
  <2>7. PICK ch \in Characters : ch = raw[x]
    BY <2>2, Zenon
  <2>8. f[x] = LexChar(s, ch)
    BY <2>4, <2>6, <2>7, Zenon DEF LexesTo
  <2>9. /\ ch = QuoteMark => Cardinality(QuotesTo(raw, x)) = c + 1
        /\ ch # QuoteMark => Cardinality(QuotesTo(raw, x)) = c
    BY <2>2, <2>4, <2>7, QuotesGrow, Zenon
  <2>10. CASE s.comment
    <3>1. f[x] = s
      BY <2>8, <2>10, OnlyQuotesQuote, Zenon
    <3> QED
      BY <2>2, <2>10, <3>1, Zenon DEF QuotedWhereOdd
  <2>11. CASE ~s.comment /\ ch = QuoteMark
    <3>1. f[x].quoted = ~s.quoted
      BY <2>8, <2>11, OnlyQuotesQuote, Zenon
    <3>2. (c + 1) % 2 = 1 <=> ~(c % 2 = 1)
      BY Parity, Zenon
    <3>3. s.quoted <=> c % 2 = 1
      BY <2>5, <2>11, Zenon
    <3>4. Cardinality(QuotesTo(raw, x)) = c + 1
      BY <2>9, <2>11, Zenon
    <3>5. f[x].quoted <=> (c + 1) % 2 = 1
      BY <3>1, <3>2, <3>3, Zenon
    <3> QED
      BY <2>2, <3>4, <3>5, Zenon DEF QuotedWhereOdd
  <2>12. CASE ~s.comment /\ ch # QuoteMark
    <3>1. f[x].quoted = s.quoted
      BY <2>8, <2>12, OnlyQuotesQuote, Zenon
    <3>2. Cardinality(QuotesTo(raw, x)) = c
      BY <2>9, <2>12, Zenon
    <3>3. f[x].quoted <=> c % 2 = 1
      BY <2>5, <2>12, <3>1, Zenon
    <3> QED
      BY <2>2, <3>2, <3>3, Zenon DEF QuotedWhereOdd
  <2> QED
    BY <2>10, <2>11, <2>12, Zenon
<1>3. Nat \subseteq P
  <2> HIDE DEF P
  <2> QED
    BY <1>1, <1>2, SetInduction, Zenon
<1> QED
  BY <1>3

\* In a comment the lexer stays where it is.
LEMMA CommentStays ==
    ASSUME NEW r \in Seq(Characters), NEW f, LexRun(f, r), NEW a \in Nat, a <= Len(r), f[a].comment
    PROVE  f[Len(r)] = f[a]
<1> DEFINE P == {n \in Nat : a + n <= Len(r) => f[a + n] = f[a]}
<1>1. 0 \in P
  OBVIOUS
<1>2. ASSUME NEW n \in Nat, n \in P
      PROVE  n + 1 \in P
  <2>1. SUFFICES ASSUME a + (n + 1) <= Len(r) PROVE f[a + (n + 1)] = f[a]
    OBVIOUS
  <2>2. PICK x \in 1 .. Len(r), y \in 0 .. Len(r) : x = a + (n + 1) /\ x - 1 = y /\ y = a + n /\ r[x] \in Characters
    BY <2>1
  <2>3. f[y] = f[a]
    BY <1>2, <2>2
  <2>4. LexesTo(f, r, y, x)
    BY <2>2, LexNext, Zenon
  <2>5. f[y] \in LexStates
    BY Zenon DEF LexRun
  <2>6. LexChar(f[y], r[x]) = f[y]
    BY <2>2, <2>3, <2>5, OnlyQuotesQuote, Zenon
  <2> QED
    BY <2>2, <2>3, <2>4, <2>6, Zenon DEF LexesTo
<1>3. Nat \subseteq P
  <2> HIDE DEF P
  <2> QED
    BY <1>1, <1>2, SetInduction, Zenon
<1>4. PICK n \in Nat : a + n = Len(r)
  <2>1. Len(r) - a \in Nat /\ a + (Len(r) - a) = Len(r)
    OBVIOUS
  <2> QED
    BY <2>1, Zenon
<1>5. a + n <= Len(r)
  BY <1>4
<1>6. f[a + n] = f[a]
  BY <1>3, <1>5
<1> QED
  BY <1>4, <1>6, Zenon

\* A `#` outside quotes ends the line.
LEMMA AlwaysCommentEnds ==
    ASSUME NEW line \in Seq(Characters), NEW comment \in Seq(Characters)
    PROVE  CommentEnds(line, comment)
<1>1. SUFFICES ASSUME Quotes(line) % 2 = 0
               PROVE  TokenizeLine(line \o <<Hash>> \o comment) = TokenizeLine(line)
  BY Zenon DEF CommentEnds
<1>2. PICK h \in Seq(Characters) : h = <<Hash>> /\ Len(h) = 1 /\ h[1] = Hash
  <2>1. <<Hash>> \in Seq(Characters) /\ Len(<<Hash>>) = 1 /\ <<Hash>>[1] = Hash
    BY Marks
  <2> QED
    BY <2>1, Zenon
<1>3. PICK r : r = line \o h \o comment /\ Reads(r, line, h, comment)
  BY Pieces, Zenon
<1>4. PICK a \in Nat, n \in Nat : a = Len(line) /\ n = Len(comment)
  OBVIOUS
<1>5. /\ r \in Seq(Characters) /\ Len(r) = a + 1 + n /\ (\A i \in 1 .. a : r[i] = line[i])
      /\ \A i \in 1 .. 1 : r[a + i] = h[i]
  BY <1>2, <1>3, <1>4, Zenon DEF Reads
<1>6. PICK f : LexRun(f, r) /\ SplitFields(r) = EndField(f[Len(r)]).out
  BY <1>5, LexRuns, Zenon
<1>7. PICK g : LexRun(g, line) /\ SplitFields(line) = EndField(g[Len(line)]).out
  BY LexRuns, Zenon
<1>8. Len(r) = a + 1 + n /\ r \in Seq(Characters)
  BY <1>5, Zenon
<1>9. PICK x \in 1 .. Len(r) : x = a + 1 /\ x - 1 = a /\ x \in Nat /\ x <= Len(r) /\ a <= Len(r) /\ a <= Len(line)
  BY <1>4, <1>8
<1>10. SameAt(f, g, a)
  BY <1>5, <1>6, <1>7, <1>9, SameBeginning, Zenon
<1>11. PICK s \in LexStates : s = f[a] /\ s = g[a]
  <2>1. f[a] = g[a]
    BY <1>10, Zenon DEF SameAt
  <2>2. a \in 0 .. Len(line)
    BY <1>4
  <2>3. g[a] \in LexStates
    BY <1>7, <2>2, Zenon DEF LexRun
  <2> QED
    BY <2>1, <2>3, Zenon
<1>12. s.comment \/ ~s.quoted
  <2>1. QuotedWhereOdd(g, line, a)
    BY <1>7, <1>9, QuoteParity, Zenon
  <2>2. DOMAIN line = 1 .. a
    BY <1>4
  <2>3. Quotes(line) = Cardinality(QuotesTo(line, a))
    BY <2>2, Zenon DEF Quotes, QuotesTo
  <2>4. Cardinality(QuotesTo(line, a)) \in Nat
    BY QuotesGrow, Zenon
  <2>5. ~(Cardinality(QuotesTo(line, a)) % 2 = 1)
    BY <1>1, <2>3, <2>4, Parity, Zenon
  <2> QED
    BY <1>11, <2>1, <2>5, Zenon DEF QuotedWhereOdd
<1>13. f[x] = LexChar(s, Hash)
  <2>1. LexesTo(f, r, a, x)
    BY <1>6, <1>9, LexNext, Zenon
  <2>2. 1 \in 1 .. 1
    OBVIOUS
  <2>3. r[x] = Hash
    BY <1>2, <1>5, <1>9, <2>2, Zenon
  <2> QED
    BY <1>11, <2>1, <2>3, Zenon DEF LexesTo
<1>14. PICK t : t = f[x] /\ t \in LexStates /\ t.comment /\ t.out = s.out /\ t.current = s.current
  <2>1. CASE s.comment
    <3>1. LexChar(s, Hash) = s
      BY <2>1, Marks, OnlyQuotesQuote, Zenon
    <3> QED
      BY <1>13, <2>1, <3>1, Zenon
  <2>2. CASE ~s.comment /\ ~s.quoted
    <3>1. LexChar(s, Hash) = [s EXCEPT !.comment = TRUE]
      BY <2>2, LexCharIs, Zenon
    <3>2. PICK t : t = [s EXCEPT !.comment = TRUE]
      OBVIOUS
    <3>3. t \in LexStates /\ t.comment /\ t.out = s.out /\ t.current = s.current
      BY <3>2 DEF LexStates
    <3> QED
      BY <1>13, <3>1, <3>2, <3>3, Zenon
  <2> QED
    BY <1>12, <2>1, <2>2, Zenon
<1>15. f[Len(r)] = t
  <2>1. f[x].comment
    BY <1>14, Zenon
  <2>2. f[Len(r)] = f[x]
    BY <1>6, <1>8, <1>9, <2>1, CommentStays, Zenon
  <2> QED
    BY <1>14, <2>2, Zenon
<1>16. EndField(t).out = EndField(s).out
  <2>1. EndField(s).out = IF s.current = <<>> THEN s.out ELSE Append(s.out, s.current)
    BY EndFieldIs
  <2>2. EndField(t).out = IF t.current = <<>> THEN t.out ELSE Append(t.out, t.current)
    BY <1>14, EndFieldIs
  <2> QED
    BY <1>14, <2>1, <2>2, Zenon
<1>17. SplitFields(r) = SplitFields(line)
  BY <1>4, <1>6, <1>7, <1>11, <1>15, <1>16, Zenon
<1> QED
  BY <1>2, <1>3, <1>17, Zenon DEF TokenizeLine

-----------------------------------------------------------------------------
(* SshConfig: what is invariant.                                            *)

\* Line g of a file is the Host line that governs line i.
Governs(lines, g, i) ==
    /\ g \in 1 .. i - 1 /\ lines[g].kw = "host"
    /\ \A j \in g + 1 .. i - 1 : lines[j].kw \notin Headers

\* Line i sets k, for whom it may.
Gives(lines, i, k) == lines[i].kw = k /\ lines[i].args # <<>> /\ Parsed(k, lines[i].args[1]) # None

StanzaRecords == [patterns : Seq(Patterns), set : [Keywords -> Values \cup {None}]]

\* A stanza holds what the lines before line p say in the block of line g: for
\* every keyword the first value given there, if any.
Described(st, lines, g, p) ==
    /\ st.patterns = lines[g].args
    /\ \A k \in Keywords :
        IF st.set[k] = None THEN \A i \in g + 1 .. p - 1 : Governs(lines, g, i) => ~Gives(lines, i, k)
        ELSE \E i \in g + 1 .. p - 1 :
                /\ Governs(lines, g, i) /\ Gives(lines, i, k) /\ st.set[k] = lines[i].args[1]
                /\ \A j \in g + 1 .. i - 1 : ~Gives(lines, j, k)

Frames == [file : Paths, pos : Nat \ {0}, open : BOOLEAN, current : StanzaRecords, inMatch : BOOLEAN,
           targets : Seq(Targets), todo : Seq(Paths)]

\* A frame holds the block its position lies in, if that is a Host block.
FrameTrue(fr, lines) ==
    /\ fr.open => ~fr.inMatch /\ \E g \in DOMAIN lines : Governs(lines, g, fr.pos) /\ Described(fr.current, lines, g, fr.pos)
    /\ ~fr.open => \A g \in DOMAIN lines : ~Governs(lines, g, fr.pos)

\* The lines of f above line i have been handled.
Passed(f, i) == \A s \in DOMAIN stack : stack[s].file = f => i < stack[s].pos

\* The blocks whose stanza has been pushed: those that have been left.
Left(f, g) == \A s \in DOMAIN stack : stack[s].file = f => g < stack[s].pos /\ ~Governs(files[f], g, stack[s].pos)
Closed ==
    {b \in Paths \X Nat : /\ Read(b[1]) /\ b[2] \in DOMAIN files[b[1]]
                          /\ files[b[1]][b[2]].kw = "host" /\ files[b[1]][b[2]].args # <<>>
                          /\ Left(b[1], b[2])}

\* o tells which block every stanza was made from.
Origin(o, sz, fs, C) ==
    /\ o \in [1 .. Len(sz) -> C] /\ C \subseteq {o[n] : n \in 1 .. Len(sz)}
    /\ \A m, n \in 1 .. Len(sz) : m < n /\ o[m][1] = o[n][1] => o[m][2] < o[n][2]
    /\ \A n \in 1 .. Len(sz) : Described(sz[n], fs[o[n][1]], o[n][2], Len(fs[o[n][1]]) + 1)

FilesOK == files \in Disks /\ visited \subseteq Paths /\ stanzas \in Seq(StanzaRecords)
WarningsOK == warnings \subseteq [kind : {"match", "unreadable", "cycle", "unsupported"}, file : Paths, line : Nat]
StackOK ==
    /\ stack \in Seq(Frames)
    /\ \A s \in DOMAIN stack : /\ Read(stack[s].file) /\ stack[s].pos <= Len(files[stack[s].file]) + 1
                               /\ \A i \in DOMAIN stack[s].todo : IsFile(stack[s].todo[i])
    /\ \A s, t \in DOMAIN stack : stack[s].file = stack[t].file => s = t
FramesTrue == \A s \in DOMAIN stack : FrameTrue(stack[s], files[stack[s].file])
PushedOnce == \E o : Origin(o, stanzas, files, Closed)
\* What the user must be told of line i of f is in the warnings.
Listed(f, i) ==
    /\ files[f][i].kw = "match" => Warn("match", f, i) \in warnings
    /\ files[f][i].kw = "unsupported" /\ (\E g \in DOMAIN files[f] : Governs(files[f], g, i))
         => Warn("unsupported", f, i) \in warnings
Reported == \A f \in Paths : Read(f) => \A i \in DOMAIN files[f] : Passed(f, i) => Listed(f, i)

ConfigInv == FilesOK /\ WarningsOK /\ StackOK /\ FramesTrue /\ PushedOnce /\ Reported

-----------------------------------------------------------------------------
(* Sequences: what the parser does to the stack.                            *)

\* A new head leaves the frames below it (Become, Advance).
LEMMA Replaced ==
    ASSUME NEW S, NEW s \in Seq(S), s # <<>>, NEW x \in S, NEW r, r = <<x>> \o Tail(s)
    PROVE  /\ r \in Seq(S) /\ Len(r) = Len(s) /\ DOMAIN r = DOMAIN s /\ 1 \in DOMAIN s
           /\ r[1] = x /\ \A i \in DOMAIN s : i # 1 => r[i] = s[i]
<1>1. Tail(s) \in Seq(S) /\ Len(s) \in Nat \ {0} /\ Len(Tail(s)) = Len(s) - 1 /\ DOMAIN s = 1 .. Len(s)
  OBVIOUS
<1>2. <<x>> \in Seq(S) /\ Len(<<x>>) = 1
  OBVIOUS
<1>3. r \in Seq(S) /\ Len(r) = Len(s)
  BY <1>1, <1>2
<1>4. r[1] = x
  BY <1>1, <1>2
<1>5. ASSUME NEW i \in DOMAIN s, i # 1
      PROVE  r[i] = s[i]
  BY <1>1, <1>2, <1>5
<1> QED
  BY <1>1, <1>3, <1>4, <1>5

\* A frame pushed moves the others down by one (parse_into calls absorb).
LEMMA Pushed ==
    ASSUME NEW S, NEW s \in Seq(S), NEW x \in S, NEW r, r = <<x>> \o s
    PROVE  /\ r \in Seq(S) /\ Len(r) = Len(s) + 1 /\ 1 \in DOMAIN r
           /\ r[1] = x /\ \A i \in DOMAIN r : i # 1 => i - 1 \in DOMAIN s /\ r[i] = s[i - 1]
           /\ \A i \in DOMAIN s : i + 1 \in DOMAIN r /\ r[i + 1] = s[i]
<1>1. Len(s) \in Nat /\ DOMAIN s = 1 .. Len(s)
  OBVIOUS
<1>2. <<x>> \in Seq(S) /\ Len(<<x>>) = 1
  OBVIOUS
<1>3. r \in Seq(S) /\ Len(r) = Len(s) + 1
  BY <1>1, <1>2
<1>4. r[1] = x
  BY <1>1, <1>2
<1>5. ASSUME NEW i \in DOMAIN r, i # 1
      PROVE  i - 1 \in DOMAIN s /\ r[i] = s[i - 1]
  BY <1>1, <1>2, <1>3, <1>5
<1>6. ASSUME NEW i \in DOMAIN s
      PROVE  i + 1 \in DOMAIN r /\ r[i + 1] = s[i]
  BY <1>1, <1>2, <1>3
<1> QED
  BY <1>1, <1>3, <1>4, <1>5, <1>6

\* A frame popped moves the others up by one (absorb returns).
LEMMA Popped ==
    ASSUME NEW S, NEW s \in Seq(S), s # <<>>, NEW r, r = Tail(s)
    PROVE  /\ r \in Seq(S) /\ \A i \in DOMAIN r : i + 1 \in DOMAIN s /\ i + 1 # 1 /\ r[i] = s[i + 1]
           /\ \A i \in DOMAIN s : i # 1 => i - 1 \in DOMAIN r /\ r[i - 1] = s[i]
           /\ 1 \in DOMAIN s
<1>1. Len(s) \in Nat \ {0} /\ DOMAIN s = 1 .. Len(s) /\ r \in Seq(S) /\ Len(r) = Len(s) - 1 /\ DOMAIN r = 1 .. Len(r)
  OBVIOUS
<1>2. ASSUME NEW i \in DOMAIN r PROVE i + 1 \in DOMAIN s /\ i + 1 # 1 /\ r[i] = s[i + 1]
  BY <1>1
<1>3. ASSUME NEW i \in DOMAIN s, i # 1 PROVE i - 1 \in DOMAIN r /\ r[i - 1] = s[i]
  BY <1>1, <1>3
<1> QED
  BY <1>1, <1>2, <1>3

-----------------------------------------------------------------------------
(* Files, and the lines that govern.                                        *)

\* What the arguments of a directive are, by its keyword.
LEMMA DirectiveParts ==
    ASSUME NEW d \in Directives
    PROVE  /\ d.kw \in Keywords \cup {"host", "match", "include", "unsupported"}
           /\ d.kw = "host" => d.args \in Seq(Patterns)
           /\ d.kw = "include" => d.args \in Seq(Targets)
           /\ d.kw \in Keywords => d.args \in Seq(Values)
BY WordsAssumption DEF Directives

\* A file that was read is a sequence of directives.
LEMMA LinesOf ==
    ASSUME FilesOK, NEW f, Read(f)
    PROVE  f \in Paths /\ files[f] \in Seq(Directives) /\ Len(files[f]) \in Nat /\ DOMAIN files[f] = 1 .. Len(files[f])
<1>1. f \in Paths /\ files \in [Paths -> {Missing, Unreadable} \cup Seq(Directives)] /\ files[f] \notin {Missing, Unreadable}
  BY DisksAssumption DEF FilesOK, Read
<1>2. files[f] \in Seq(Directives)
  BY <1>1
<1> QED
  BY <1>1, <1>2

\* A line that is no header leaves the block as it is.
LEMMA GovernsStep ==
    ASSUME NEW lines, NEW p \in Nat \ {0}, lines[p].kw \notin Headers, NEW g \in Nat
    PROVE  Governs(lines, g, p + 1) <=> Governs(lines, g, p)
<1>1. lines[p].kw # "host"
  BY DEF Headers
<1>2. ASSUME Governs(lines, g, p + 1) PROVE Governs(lines, g, p)
  <2>1. g \in 1 .. p /\ lines[g].kw = "host" /\ \A j \in g + 1 .. p : lines[j].kw \notin Headers
    BY <1>2 DEF Governs
  <2>2. g # p
    BY <1>1, <2>1
  <2> QED
    BY <2>1, <2>2 DEF Governs
<1>3. ASSUME Governs(lines, g, p) PROVE Governs(lines, g, p + 1)
  BY <1>3 DEF Governs
<1> QED
  BY <1>2, <1>3

\* A Host line governs the line below it, and alone does.
LEMMA GovernsHost ==
    ASSUME NEW lines, NEW p \in Nat \ {0}, lines[p].kw = "host"
    PROVE  Governs(lines, p, p + 1) /\ \A g \in Nat : Governs(lines, g, p + 1) => g = p
BY DEF Governs, Headers

\* Below a Match line no Host line governs.
LEMMA GovernsMatch ==
    ASSUME NEW lines, NEW p \in Nat \ {0}, lines[p].kw = "match", NEW g \in Nat
    PROVE  ~Governs(lines, g, p + 1)
BY DEF Governs, Headers

\* A line lies in one block at most.
LEMMA GovernsUnique ==
    ASSUME NEW lines, NEW p \in Nat, NEW g \in Nat, NEW h \in Nat, Governs(lines, g, p), Governs(lines, h, p)
    PROVE  g = h
BY DEF Governs, Headers

\* What governs a line governs every line from its own to that one.
LEMMA GovernsBetween ==
    ASSUME NEW lines, NEW p \in Nat, NEW g \in Nat, NEW i \in g + 1 .. p, Governs(lines, g, p)
    PROVE  Governs(lines, g, i)
BY DEF Governs

\* A header ends the block above it: no line below is governed from above it.
LEMMA GovernsEnds ==
    ASSUME NEW lines, NEW p \in Nat, NEW g \in Nat, g < p, lines[p].kw \in Headers, NEW i \in Nat, i > p
    PROVE  ~Governs(lines, g, i)
BY DEF Governs

-----------------------------------------------------------------------------
(* The stanza of a block as its lines are read.                             *)

\* A new stanza holds nothing yet.
LEMMA DescribedNew ==
    ASSUME NEW lines, NEW p \in Nat \ {0}, lines[p].args \in Seq(Patterns)
    PROVE  Stanza(lines[p].args) \in StanzaRecords /\ Described(Stanza(lines[p].args), lines, p, p + 1)
<1> DEFINE st == Stanza(lines[p].args)
<1>1. st.patterns = lines[p].args /\ \A k \in Keywords : st.set[k] = None
  BY DEF Stanza
<1>2. \A i \in p + 1 .. (p + 1) - 1 : FALSE
  OBVIOUS
<1>3. st \in StanzaRecords
  BY DEF Stanza, StanzaRecords
<1> HIDE DEF st
<1>4. Described(st, lines, p, p + 1)
  BY <1>1, <1>2, Zenon DEF Described
<1> QED
  BY <1>3, <1>4 DEF st

\* A line that is no keyword leaves the stanza as it is.
LEMMA DescribedKeep ==
    ASSUME NEW lines, NEW p \in Nat \ {0}, NEW g \in Nat, NEW st, Described(st, lines, g, p), lines[p].kw \notin Keywords
    PROVE  Described(st, lines, g, p + 1)
<1>1. SUFFICES ASSUME NEW k \in Keywords
      PROVE  IF st.set[k] = None THEN \A i \in g + 1 .. (p + 1) - 1 : Governs(lines, g, i) => ~Gives(lines, i, k)
             ELSE \E i \in g + 1 .. (p + 1) - 1 :
                /\ Governs(lines, g, i) /\ Gives(lines, i, k) /\ st.set[k] = lines[i].args[1]
                /\ \A j \in g + 1 .. i - 1 : ~Gives(lines, j, k)
  BY Zenon DEF Described
<1>2. IF st.set[k] = None THEN \A i \in g + 1 .. p - 1 : Governs(lines, g, i) => ~Gives(lines, i, k)
      ELSE \E i \in g + 1 .. p - 1 :
                /\ Governs(lines, g, i) /\ Gives(lines, i, k) /\ st.set[k] = lines[i].args[1]
                /\ \A j \in g + 1 .. i - 1 : ~Gives(lines, j, k)
  BY Zenon DEF Described
<1>3. ~Gives(lines, p, k)
  BY DEF Gives
<1>4. \A i \in g + 1 .. (p + 1) - 1 : i \in g + 1 .. p - 1 \/ i = p
  OBVIOUS
<1>5. \A i \in g + 1 .. p - 1 : i \in g + 1 .. (p + 1) - 1
  OBVIOUS
<1>6. CASE st.set[k] = None
  BY <1>2, <1>3, <1>4, <1>6, Zenon
<1>7. CASE st.set[k] # None
  BY <1>2, <1>5, <1>7, Zenon
<1> QED
  BY <1>6, <1>7

\* apply: the first value given in the block is the one that stays.
LEMMA DescribedApply ==
    ASSUME NEW lines, NEW p \in Nat \ {0}, NEW g \in Nat, NEW st \in StanzaRecords, Described(st, lines, g, p),
           Governs(lines, g, p), lines[p].kw \in Keywords, lines[p].args \in Seq(Values)
    PROVE  /\ ApplyDirective(st, lines[p]) \in StanzaRecords
           /\ Described(ApplyDirective(st, lines[p]), lines, g, p + 1)
<1> DEFINE d == lines[p]
<1> DEFINE new == ApplyDirective(st, d)
<1>1. st.set \in [Keywords -> Values \cup {None}] /\ st.patterns \in Seq(Patterns)
  BY DEF StanzaRecords
<1>2. d.args # <<>> => Parsed(d.kw, d.args[1]) \in Values \cup {None}
  BY DEF Parsed
<1>3. /\ new.patterns = st.patterns
      /\ new.set = IF d.args = <<>> \/ st.set[d.kw] # None THEN st.set
                   ELSE [st.set EXCEPT ![d.kw] = Parsed(d.kw, d.args[1])]
      /\ new \in StanzaRecords
  BY <1>1, <1>2 DEF ApplyDirective, StanzaRecords
<1> HIDE DEF new
<1>4. ASSUME NEW k \in Keywords
      PROVE  new.set[k] = IF k = d.kw /\ st.set[k] = None /\ Gives(lines, p, k) THEN d.args[1] ELSE st.set[k]
  <2>1. CASE k # d.kw
    BY <1>1, <1>3, <2>1
  <2>2. CASE k = d.kw /\ (d.args = <<>> \/ st.set[k] # None)
    BY <1>3, <2>2 DEF Gives
  <2>3. CASE k = d.kw /\ d.args # <<>> /\ st.set[k] = None
    <3>1. new.set[k] = Parsed(k, d.args[1])
      BY <1>1, <1>3, <2>3
    <3>2. Parsed(k, d.args[1]) \in {None, d.args[1]}
      BY DEF Parsed
    <3> QED
      BY <2>3, <3>1, <3>2 DEF Gives
  <2> QED
    BY <2>1, <2>2, <2>3
<1>5. new.patterns = lines[g].args
  BY <1>3 DEF Described
<1>6. ASSUME NEW k \in Keywords
      PROVE  IF new.set[k] = None THEN \A i \in g + 1 .. (p + 1) - 1 : Governs(lines, g, i) => ~Gives(lines, i, k)
             ELSE \E i \in g + 1 .. (p + 1) - 1 :
                /\ Governs(lines, g, i) /\ Gives(lines, i, k) /\ new.set[k] = lines[i].args[1]
                /\ \A j \in g + 1 .. i - 1 : ~Gives(lines, j, k)
  <2>1. IF st.set[k] = None THEN \A i \in g + 1 .. p - 1 : Governs(lines, g, i) => ~Gives(lines, i, k)
        ELSE \E i \in g + 1 .. p - 1 :
                /\ Governs(lines, g, i) /\ Gives(lines, i, k) /\ st.set[k] = lines[i].args[1]
                /\ \A j \in g + 1 .. i - 1 : ~Gives(lines, j, k)
    BY Zenon DEF Described
  <2>2. \A i \in g + 1 .. (p + 1) - 1 : i \in g + 1 .. p - 1 \/ i = p
    OBVIOUS
  <2>3. /\ \A i \in g + 1 .. p - 1 : i \in g + 1 .. (p + 1) - 1 /\ i \in g + 1 .. p
        /\ p \in g + 1 .. (p + 1) - 1
    BY DEF Governs
  <2>4. CASE st.set[k] # None
    <3>1. new.set[k] = st.set[k]
      BY <1>4, <2>4
    <3> QED
      BY <2>1, <2>3, <2>4, <3>1, Zenon
  <2>5. CASE st.set[k] = None /\ ~Gives(lines, p, k)
    <3>1. new.set[k] = None
      BY <1>4, <2>5
    <3> QED
      BY <2>1, <2>2, <2>5, <3>1, Zenon
  <2>6. CASE st.set[k] = None /\ Gives(lines, p, k)
    <3>1. k = d.kw
      BY <2>6 DEF Gives
    <3>2. new.set[k] = d.args[1] /\ d.args # <<>>
      BY <1>4, <2>6, <3>1 DEF Gives
    <3>3. d.args[1] \in Values
      BY <3>2
    <3>4. new.set[k] # None
      BY <3>2, <3>3, WordsAssumption
    <3>5. \A i \in g + 1 .. p - 1 : Governs(lines, g, i)
      BY <2>3, GovernsBetween
    <3>6. \A i \in g + 1 .. p - 1 : ~Gives(lines, i, k)
      BY <2>1, <2>6, <3>5, Zenon
    <3> QED
      BY <2>3, <2>6, <3>2, <3>4, <3>6, Zenon
  <2> QED
    BY <2>4, <2>5, <2>6
<1>7. Described(new, lines, g, p + 1)
  BY <1>5, <1>6, Zenon DEF Described
<1> QED
  BY <1>3, <1>7 DEF new

\* A stanza that is pushed at the next header, or at the end of the file, holds
\* what its whole block says.
LEMMA DescribedEnd ==
    ASSUME NEW lines \in Seq(Directives), NEW p \in 1 .. Len(lines) + 1, NEW g \in Nat, NEW st,
           Described(st, lines, g, p), Governs(lines, g, p), p \in DOMAIN lines => lines[p].kw \in Headers
    PROVE  Described(st, lines, g, Len(lines) + 1)
<1>1. Len(lines) \in Nat /\ p \in Nat /\ g < p /\ DOMAIN lines = 1 .. Len(lines)
  BY DEF Governs
<1>2. CASE p = Len(lines) + 1
  BY <1>2
<1>3. CASE p \in DOMAIN lines
  <2>1. lines[p].kw \in Headers /\ \A k \in Keywords : ~Gives(lines, p, k)
    BY <1>3, WordsAssumption DEF Gives, Headers
  <2>2. \A i \in Nat : i > p => ~Governs(lines, g, i)
    BY <1>1, <2>1, GovernsEnds
  <2>3. \A i \in g + 1 .. (Len(lines) + 1) - 1 : i \in g + 1 .. p - 1 \/ i = p \/ (i \in Nat /\ i > p)
    BY <1>1
  <2>4. \A i \in g + 1 .. p - 1 : i \in g + 1 .. (Len(lines) + 1) - 1
    BY <1>1
  <2>5. ASSUME NEW k \in Keywords
        PROVE  IF st.set[k] = None
               THEN \A i \in g + 1 .. (Len(lines) + 1) - 1 : Governs(lines, g, i) => ~Gives(lines, i, k)
               ELSE \E i \in g + 1 .. (Len(lines) + 1) - 1 :
                /\ Governs(lines, g, i) /\ Gives(lines, i, k) /\ st.set[k] = lines[i].args[1]
                /\ \A j \in g + 1 .. i - 1 : ~Gives(lines, j, k)
    <3>1. IF st.set[k] = None THEN \A i \in g + 1 .. p - 1 : Governs(lines, g, i) => ~Gives(lines, i, k)
          ELSE \E i \in g + 1 .. p - 1 :
                /\ Governs(lines, g, i) /\ Gives(lines, i, k) /\ st.set[k] = lines[i].args[1]
                /\ \A j \in g + 1 .. i - 1 : ~Gives(lines, j, k)
      BY Zenon DEF Described
    <3>2. CASE st.set[k] = None
      BY <2>1, <2>2, <2>3, <3>1, <3>2, Zenon
    <3>3. CASE st.set[k] # None
      BY <2>4, <3>1, <3>3, Zenon
    <3> QED
      BY <3>2, <3>3
  <2> QED
    BY <2>5, Zenon DEF Described
<1> QED
  BY <1>1, <1>2, <1>3

-----------------------------------------------------------------------------
(* glob_paths.                                                               *)

Lists(out, s, n) ==
    IF n = 0 THEN <<>> ELSE IF IsFile(s[n]) THEN Append(out[n - 1], s[n]) ELSE out[n - 1]
Listing(out, s, m) == out = [n \in 0 .. m |-> Lists(out, s, n)]

\* The recursion of glob_paths has a solution.
LEMMA ListingExists ==
    ASSUME NEW s, NEW n \in Nat
    PROVE  \E f : Listing(f, s, n)
<1> DEFINE P == {m \in Nat : \E f : Listing(f, s, m)}
<1>1. 0 \in P
  <2>1. PICK f : f = [i \in 0 .. 0 |-> <<>>]
    OBVIOUS
  <2>2. \A i \in 0 .. 0 : Lists(f, s, i) = <<>>
    BY DEF Lists
  <2>3. Listing(f, s, 0)
    BY <2>1, <2>2 DEF Listing
  <2> QED
    BY <2>3
<1>2. ASSUME NEW m \in Nat, m \in P
      PROVE  m + 1 \in P
  <2>1. PICK f : Listing(f, s, m)
    BY <1>2
  <2>2. PICK g : g = [i \in 0 .. m + 1 |-> IF i = m + 1 THEN Lists(f, s, m + 1) ELSE f[i]]
    OBVIOUS
  <2>3. ASSUME NEW i \in 0 .. m + 1
        PROVE  g[i] = Lists(g, s, i)
    <3>1. i \in Nat /\ (i # 0 => i - 1 \in 0 .. m + 1 /\ i - 1 # m + 1)
      OBVIOUS
    <3>2. i # 0 => g[i - 1] = f[i - 1]
      BY <2>2, <3>1
    <3>3. Lists(g, s, i) = Lists(f, s, i)
      BY <3>1, <3>2, Zenon DEF Lists
    <3>4. i # m + 1 => i \in 0 .. m
      OBVIOUS
    <3>5. i \in 0 .. m => f[i] = Lists(f, s, i)
      BY <2>1, Zenon DEF Listing
    <3>6. g[i] = IF i = m + 1 THEN Lists(f, s, m + 1) ELSE f[i]
      BY <2>2, Zenon
    <3> QED
      BY <3>3, <3>4, <3>5, <3>6, Zenon
  <2>4. g = [i \in 0 .. m + 1 |-> g[i]]
    BY <2>2, Zenon
  <2>5. Listing(g, s, m + 1)
    BY <2>3, <2>4, Zenon DEF Listing
  <2>6. m + 1 \in Nat
    OBVIOUS
  <2> QED
    BY <2>5, <2>6, Zenon
<1>3. Nat \subseteq P
  <2> HIDE DEF P
  <2> QED
    BY <1>1, <1>2, SetInduction, Zenon
<1> QED
  BY <1>3, Zenon

\* glob_paths lists files only.
LEMMA GlobPathsAreFiles ==
    ASSUME NEW t \in Targets
    PROVE  GlobPaths(t) \in Seq(Paths) /\ \A i \in DOMAIN GlobPaths(t) : IsFile(GlobPaths(t)[i])
<1> DEFINE A == {p \in Paths : IsFile(p)}
<1>0. PICK s \in Seq(Paths) : s = Expand[t] /\ Len(s) \in Nat
  BY WordsAssumption
<1> DEFINE f == CHOOSE f : Listing(f, s, Len(s))
<1>2. Listing(f, s, Len(s))
  BY <1>0, ListingExists, Zenon
<1>3. GlobPaths(t) = f[Len(s)]
  BY <1>0, Zenon DEF GlobPaths, Listing, Lists
<1> HIDE DEF f
<1>4. \A n \in 0 .. Len(s) : f[n] = Lists(f, s, n)
  BY <1>2, Zenon DEF Listing
<1> DEFINE P == {n \in Nat : n <= Len(s) => f[n] \in Seq(A)}
<1>5. 0 \in P
  <2>1. 0 \in 0 .. Len(s)
    BY <1>0
  <2>2. f[0] = <<>>
    BY <1>4, <2>1, Zenon DEF Lists
  <2>3. <<>> \in Seq(A) /\ 0 \in Nat
    OBVIOUS
  <2> QED
    BY <2>2, <2>3, Zenon
<1>6. ASSUME NEW n \in Nat, n \in P
      PROVE  n + 1 \in P
  <2>1. SUFFICES ASSUME n + 1 <= Len(s) PROVE f[n + 1] \in Seq(A)
    OBVIOUS
  <2>2. PICK m \in 0 .. Len(s) : m = n + 1 /\ m # 0 /\ m - 1 = n /\ m \in 1 .. Len(s)
    BY <1>0, <2>1
  <2>3. f[n] \in Seq(A)
    BY <1>0, <1>6, <2>1
  <2>4. f[m] = IF IsFile(s[m]) THEN Append(f[n], s[m]) ELSE f[n]
    BY <1>4, <2>2, Zenon DEF Lists
  <2>5. IsFile(s[m]) => s[m] \in A
    BY <2>2
  <2> HIDE DEF A
  <2>6. IsFile(s[m]) => Append(f[n], s[m]) \in Seq(A)
    BY <2>3, <2>5
  <2> QED
    BY <2>2, <2>3, <2>4, <2>6, Zenon
<1>7. Nat \subseteq P
  <2> HIDE DEF P
  <2> QED
    BY <1>5, <1>6, SetInduction, Zenon
<1>8. GlobPaths(t) \in Seq(A)
  BY <1>0, <1>3, <1>7
<1> QED
  BY <1>8

-----------------------------------------------------------------------------
(* The stanzas and the blocks they come from.                               *)

\* The stanza of a block below all the others of its file may be pushed last.
LEMMA OriginExtend ==
    ASSUME NEW o, NEW sz \in Seq(StanzaRecords), NEW fs, NEW C, Origin(o, sz, fs, C),
           NEW st \in StanzaRecords, NEW f, NEW g \in Nat, C \subseteq Paths \X Nat,
           \A c \in C : c[1] = f => c[2] < g,
           Described(st, fs[f], g, Len(fs[f]) + 1)
    PROVE  \E o2 : Origin(o2, Append(sz, st), fs, C \cup {<<f, g>>})
<1> DEFINE b == <<f, g>>
<1>1. b[1] = f /\ b[2] = g
  OBVIOUS
<1> HIDE DEF b
<1>2. PICK N \in Nat : N = Len(sz)
  OBVIOUS
<1>3. PICK sz2 : sz2 = Append(sz, st)
  OBVIOUS
<1>4. Len(sz2) = N + 1 /\ sz2[N + 1] = st /\ \A n \in 1 .. N : sz2[n] = sz[n]
  BY <1>2, <1>3
<1>5. PICK o2 : o2 = [n \in 1 .. N + 1 |-> IF n = N + 1 THEN b ELSE o[n]]
  OBVIOUS
<1>6. o2[N + 1] = b /\ \A n \in 1 .. N : o2[n] = o[n]
  BY <1>5
<1>7. /\ o \in [1 .. N -> C] /\ C \subseteq {o[n] : n \in 1 .. N}
      /\ \A m, n \in 1 .. N : m < n /\ o[m][1] = o[n][1] => o[m][2] < o[n][2]
      /\ \A n \in 1 .. N : Described(sz[n], fs[o[n][1]], o[n][2], Len(fs[o[n][1]]) + 1)
  BY <1>2, Zenon DEF Origin
<1>8. /\ \A n \in 1 .. N + 1 : n \in 1 .. N \/ n = N + 1
      /\ \A n \in 1 .. N : n \in 1 .. N + 1 /\ n # N + 1 /\ ~(N + 1 < n)
      /\ N + 1 \in 1 .. N + 1 /\ ~(N + 1 < N + 1)
  OBVIOUS
<1>9. o2 \in [1 .. N + 1 -> C \cup {b}]
  BY <1>5, <1>7
<1>10. C \cup {b} \subseteq {o2[n] : n \in 1 .. N + 1}
  <2>1. ASSUME NEW c \in C PROVE c \in {o2[n] : n \in 1 .. N + 1}
    <3>1. PICK n \in 1 .. N : c = o[n]
      BY <1>7, Zenon
    <3>2. o2[n] = c /\ n \in 1 .. N + 1
      BY <1>6, <1>8, <3>1, Zenon
    <3> QED
      BY <3>2, Zenon
  <2>2. b \in {o2[n] : n \in 1 .. N + 1}
    BY <1>6, <1>8, Zenon
  <2> QED
    BY <2>1, <2>2
<1>11. ASSUME NEW m \in 1 .. N + 1, NEW n \in 1 .. N + 1, m < n, o2[m][1] = o2[n][1]
       PROVE  o2[m][2] < o2[n][2]
  <2>1. m \in 1 .. N
    BY <1>11
  <2>2. o2[m] = o[m] /\ o[m] \in C
    BY <1>6, <1>7, <2>1
  <2>3. CASE n \in 1 .. N
    BY <1>6, <1>7, <1>11, <2>1, <2>2, <2>3, Zenon
  <2>4. CASE n = N + 1
    <3>1. o2[n] = b
      BY <1>6, <2>4
    <3>2. o[m][1] = f
      BY <1>1, <1>11, <2>2, <3>1, Zenon
    <3>3. o[m][2] < g
      BY <2>2, <3>2, Zenon
    <3> QED
      BY <1>1, <2>2, <3>1, <3>3, Zenon
  <2> QED
    BY <1>8, <2>3, <2>4, Zenon
<1>12. ASSUME NEW n \in 1 .. N + 1
       PROVE  Described(sz2[n], fs[o2[n][1]], o2[n][2], Len(fs[o2[n][1]]) + 1)
  <2>1. CASE n \in 1 .. N
    BY <1>4, <1>6, <1>7, <2>1, Zenon
  <2>2. CASE n = N + 1
    BY <1>1, <1>4, <1>6, <2>2, Zenon
  <2> QED
    BY <1>8, <2>1, <2>2, Zenon
<1>13. Origin(o2, sz2, fs, C \cup {b})
  BY <1>4, <1>9, <1>10, <1>11, <1>12, Zenon DEF Origin
<1> QED
  BY <1>3, <1>13, Zenon DEF b

-----------------------------------------------------------------------------
(* What a step does to the frames.                                          *)

\* The frame of the file being absorbed, and what the invariant says of it.
LEMMA TopFacts ==
    ASSUME FilesOK, StackOK, stack # <<>>
    PROVE  /\ 1 \in DOMAIN stack /\ Top = stack[1] /\ Top \in Frames /\ Read(Top.file) /\ Top.file \in Paths
           /\ files[Top.file] \in Seq(Directives) /\ DOMAIN files[Top.file] = 1 .. Len(files[Top.file])
           /\ Len(files[Top.file]) \in Nat /\ Top.pos \in Nat \ {0} /\ Top.pos <= Len(files[Top.file]) + 1
           /\ \A s \in DOMAIN stack : s # 1 => stack[s].file # Top.file
<1>1. 1 \in DOMAIN stack /\ Top = stack[1] /\ Top \in Frames
  BY DEF StackOK, Top
<1>2. Read(Top.file) /\ Top.pos <= Len(files[Top.file]) + 1
  BY <1>1, Zenon DEF StackOK
<1>3. \A s \in DOMAIN stack : s # 1 => stack[s].file # Top.file
  BY <1>1, Zenon DEF StackOK
<1>4. Top.pos \in Nat \ {0}
  BY <1>1 DEF Frames
<1> QED
  BY <1>1, <1>2, <1>3, <1>4, LinesOf

\* The position of the file on top of the stack decides for its lines.
LEMMA TopDecides ==
    ASSUME FilesOK, StackOK, stack # <<>>
    PROVE  \A i \in Nat : /\ Passed(Top.file, i) <=> i < Top.pos
                          /\ Left(Top.file, i) <=> i < Top.pos /\ ~Governs(files[Top.file], i, Top.pos)
BY TopFacts, Zenon DEF Passed, Left

\* A step that replaces the top frame with one of the same file keeps what the
\* invariant says of the stack.
LEMMA BecomeFacts ==
    ASSUME FilesOK, StackOK, FramesTrue, stack # <<>>, files' = files, \A f : Read(f)' <=> Read(f),
           NEW hf, hf = Top.file, NEW fr \in Frames, fr.file = hf, fr.pos <= Len(files[hf]) + 1,
           \A i \in DOMAIN fr.todo : IsFile(fr.todo[i]), FrameTrue(fr, files[hf]),
           stack' = Become(fr)
    PROVE  /\ StackOK' /\ FramesTrue'
           /\ \A f \in Paths, i \in Nat : f # hf => (Passed(f, i)' <=> Passed(f, i)) /\ (Left(f, i)' <=> Left(f, i))
           /\ \A i \in Nat : /\ Passed(hf, i)' <=> i < fr.pos
                             /\ Left(hf, i)' <=> i < fr.pos /\ ~Governs(files[hf], i, fr.pos)
<1>1. /\ 1 \in DOMAIN stack /\ Top = stack[1] /\ Read(Top.file)
      /\ \A s \in DOMAIN stack : s # 1 => stack[s].file # Top.file
  BY TopFacts, Zenon
<1>2. PICK r : r = stack'
  OBVIOUS
<1>3. stack \in Seq(Frames)
  BY DEF StackOK
<1>4. /\ r \in Seq(Frames) /\ DOMAIN r = DOMAIN stack
      /\ r[1] = fr /\ \A i \in DOMAIN stack : i # 1 => r[i] = stack[i]
  <2>1. r = <<fr>> \o Tail(stack)
    BY <1>2 DEF Become
  <2> QED
    BY <1>3, <2>1, Replaced
<1>6. \A s \in DOMAIN stack : r[s].file = stack[s].file
  BY <1>1, <1>4, Zenon
<1>8. \A f : IsFile(f)' <=> IsFile(f)
  BY DEF IsFile
<1>9. StackOK'
  <2>1. \A s \in DOMAIN r : /\ Read(r[s].file) /\ r[s].pos <= Len(files[r[s].file]) + 1
                            /\ \A i \in DOMAIN r[s].todo : IsFile(r[s].todo[i])
    <3>1. SUFFICES ASSUME NEW s \in DOMAIN stack
          PROVE  /\ Read(r[s].file) /\ r[s].pos <= Len(files[r[s].file]) + 1
                 /\ \A i \in DOMAIN r[s].todo : IsFile(r[s].todo[i])
      BY <1>4, Zenon
    <3>2. CASE s = 1
      BY <1>1, <1>4, <3>2, Zenon
    <3>3. CASE s # 1
      BY <1>4, <3>3, Zenon DEF StackOK
    <3> QED
      BY <3>2, <3>3
  <2>2. \A s, t \in DOMAIN r : r[s].file = r[t].file => s = t
    BY <1>4, <1>6, Zenon DEF StackOK
  <2> QED
    BY <1>2, <1>4, <1>8, <2>1, <2>2, Zenon DEF StackOK
<1>10. FramesTrue'
  <2>1. \A s \in DOMAIN r : FrameTrue(r[s], files[r[s].file])
    BY <1>1, <1>4, Zenon DEF FramesTrue
  <2> QED
    BY <1>2, <2>1, Zenon DEF FramesTrue
<1>11. ASSUME NEW f \in Paths, NEW i \in Nat, f # hf
       PROVE  (Passed(f, i)' <=> Passed(f, i)) /\ (Left(f, i)' <=> Left(f, i))
  <2>1. \A s \in DOMAIN stack : r[s].file = f => s # 1 /\ r[s] = stack[s]
    BY <1>1, <1>4, <1>6, <1>11, Zenon
  <2>2. \A s \in DOMAIN stack : stack[s].file = f => s # 1 /\ r[s] = stack[s]
    BY <1>1, <1>4, <1>11, Zenon
  <2>3. (\A s \in DOMAIN r : r[s].file = f => i < r[s].pos) <=> (\A s \in DOMAIN stack : stack[s].file = f => i < stack[s].pos)
    BY <1>4, <2>1, <2>2, Zenon
  <2>4. (\A s \in DOMAIN r : r[s].file = f => i < r[s].pos /\ ~Governs(files[f], i, r[s].pos))
        <=> (\A s \in DOMAIN stack : stack[s].file = f => i < stack[s].pos /\ ~Governs(files[f], i, stack[s].pos))
    BY <1>4, <2>1, <2>2, Zenon
  <2> QED
    BY <1>2, <2>3, <2>4, Zenon DEF Passed, Left
<1>12. ASSUME NEW i \in Nat
       PROVE  /\ Passed(hf, i)' <=> i < fr.pos
              /\ Left(hf, i)' <=> i < fr.pos /\ ~Governs(files[hf], i, fr.pos)
  <2>1. \A s \in DOMAIN r : r[s].file = hf => r[s] = fr
    BY <1>1, <1>4, <1>6, Zenon
  <2>2. 1 \in DOMAIN r /\ r[1].file = hf /\ r[1] = fr
    BY <1>1, <1>4, Zenon
  <2>3. (\A s \in DOMAIN r : r[s].file = hf => i < r[s].pos) <=> i < fr.pos
    BY <2>1, <2>2, Zenon
  <2>4. (\A s \in DOMAIN r : r[s].file = hf => i < r[s].pos /\ ~Governs(files[hf], i, r[s].pos))
        <=> i < fr.pos /\ ~Governs(files[hf], i, fr.pos)
    BY <2>1, <2>2, Zenon
  <2> QED
    BY <1>2, <2>3, <2>4, Zenon DEF Passed, Left
<1> QED
  BY <1>9, <1>10, <1>11, <1>12, Zenon

\* absorb returns: the file on top is through.
LEMMA PopFacts ==
    ASSUME FilesOK, StackOK, FramesTrue, stack # <<>>, files' = files, visited' = visited,
           NEW hf, hf = Top.file, stack' = Tail(stack)
    PROVE  /\ StackOK' /\ FramesTrue'
           /\ \A f \in Paths, i \in Nat : f # hf => (Passed(f, i)' <=> Passed(f, i)) /\ (Left(f, i)' <=> Left(f, i))
           /\ \A i \in Nat : Passed(hf, i)' /\ Left(hf, i)'
<1>1. /\ 1 \in DOMAIN stack /\ Top = stack[1] /\ Read(Top.file)
      /\ \A s \in DOMAIN stack : s # 1 => stack[s].file # Top.file
  BY TopFacts, Zenon
<1>2. PICK r : r = stack'
  OBVIOUS
<1>3. stack \in Seq(Frames)
  BY DEF StackOK
<1>4. /\ r \in Seq(Frames) /\ \A i \in DOMAIN r : i + 1 \in DOMAIN stack /\ i + 1 # 1 /\ r[i] = stack[i + 1]
      /\ \A i \in DOMAIN stack : i # 1 => i - 1 \in DOMAIN r /\ r[i - 1] = stack[i]
  BY <1>2, <1>3, Popped
<1>5. ASSUME NEW s \in DOMAIN r PROVE r[s].file # hf
  <2>1. s + 1 \in DOMAIN stack /\ s + 1 # 1 /\ r[s] = stack[s + 1]
    BY <1>4, Zenon
  <2> QED
    BY <1>1, <2>1, Zenon
<1>7. \A f : Read(f)' <=> Read(f)
  BY DEF Read
<1>8. \A f : IsFile(f)' <=> IsFile(f)
  BY DEF IsFile
<1>9. StackOK'
  <2>1. \A s \in DOMAIN r : /\ Read(r[s].file) /\ r[s].pos <= Len(files[r[s].file]) + 1
                            /\ \A i \in DOMAIN r[s].todo : IsFile(r[s].todo[i])
    BY <1>4, Zenon DEF StackOK
  <2>2. ASSUME NEW s \in DOMAIN r, NEW t \in DOMAIN r, r[s].file = r[t].file
        PROVE  s = t
    <3>0. /\ s + 1 \in DOMAIN stack /\ r[s] = stack[s + 1]
          /\ t + 1 \in DOMAIN stack /\ r[t] = stack[t + 1]
      BY <1>4, Zenon
    <3>1. s + 1 = t + 1
      BY <2>2, <3>0, Zenon DEF StackOK
    <3>2. s \in Nat /\ t \in Nat
      BY <1>4
    <3> QED
      BY <3>1, <3>2
  <2> QED
    BY <1>2, <1>4, <1>7, <1>8, <2>1, <2>2, Zenon DEF StackOK
<1>10. FramesTrue'
  <2>1. \A s \in DOMAIN r : FrameTrue(r[s], files[r[s].file])
    BY <1>4, Zenon DEF FramesTrue
  <2> QED
    BY <1>2, <2>1, Zenon DEF FramesTrue
<1>11. ASSUME NEW f \in Paths, NEW i \in Nat, f # hf
       PROVE  (Passed(f, i)' <=> Passed(f, i)) /\ (Left(f, i)' <=> Left(f, i))
  <2>1. \A s \in DOMAIN stack : stack[s].file = f => \E t \in DOMAIN r : r[t] = stack[s]
    BY <1>1, <1>4, <1>11, Zenon
  <2>2. \A t \in DOMAIN r : \E s \in DOMAIN stack : stack[s] = r[t]
    BY <1>4, Zenon
  <2>3. (\A s \in DOMAIN r : r[s].file = f => i < r[s].pos) <=> (\A s \in DOMAIN stack : stack[s].file = f => i < stack[s].pos)
    BY <2>1, <2>2, Zenon
  <2>4. (\A s \in DOMAIN r : r[s].file = f => i < r[s].pos /\ ~Governs(files[f], i, r[s].pos))
        <=> (\A s \in DOMAIN stack : stack[s].file = f => i < stack[s].pos /\ ~Governs(files[f], i, stack[s].pos))
    BY <2>1, <2>2, ZenonT(40)
  <2> QED
    BY <1>2, <2>3, <2>4, Zenon DEF Passed, Left
<1>12. \A i \in Nat : Passed(hf, i)' /\ Left(hf, i)'
  BY <1>2, <1>5, Zenon DEF Passed, Left
<1> QED
  BY <1>9, <1>10, <1>11, <1>12, Zenon

\* A frame for a file is new: nothing of the file has been read.
LEMMA NewFrame ==
    ASSUME NEW p \in Paths, NEW lines
    PROVE  /\ Frame(p) \in Frames /\ Frame(p).file = p /\ Frame(p).pos = 1 /\ Frame(p).todo = <<>>
           /\ FrameTrue(Frame(p), lines)
<1>1. Frame(p).file = p /\ Frame(p).pos = 1 /\ Frame(p).todo = <<>> /\ Frame(p).open = FALSE
  BY DEF Frame
<1>2. Stanza(<<>>) \in StanzaRecords
  BY DEF Stanza, StanzaRecords
<1>3. Frame(p) \in Frames
  BY <1>2 DEF Frame, Frames
<1>4. FrameTrue(Frame(p), lines)
  BY <1>1 DEF FrameTrue, Governs
<1> QED
  BY <1>1, <1>3, <1>4

\* parse_into opens a file that was not visited yet.
LEMMA PushFacts ==
    ASSUME FilesOK, StackOK, FramesTrue, stack # <<>>, files' = files,
           NEW p \in Paths, p \notin visited, visited' = visited \cup {p}, files[p] \notin {Missing, Unreadable},
           NEW fr \in Frames, fr.file = Top.file, fr.pos = Top.pos,
           \A i \in DOMAIN fr.todo : IsFile(fr.todo[i]), FrameTrue(fr, files[fr.file]),
           stack' = <<Frame(p)>> \o Become(fr)
    PROVE  /\ StackOK' /\ FramesTrue'
           /\ \A f \in Paths, i \in Nat : f # p => (Passed(f, i)' <=> Passed(f, i)) /\ (Left(f, i)' <=> Left(f, i))
           /\ \A i \in Nat \ {0} : ~Passed(p, i)' /\ ~Left(p, i)'
<1>1. /\ 1 \in DOMAIN stack /\ Top = stack[1] /\ Read(Top.file) /\ Top.pos <= Len(files[Top.file]) + 1
      /\ \A s \in DOMAIN stack : s # 1 => stack[s].file # Top.file
  BY TopFacts, Zenon
<1>2. PICK r : r = stack'
  OBVIOUS
<1>3. stack \in Seq(Frames)
  BY DEF StackOK
<1>4. PICK c : c = Become(fr)
  OBVIOUS
<1>5. /\ c \in Seq(Frames) /\ DOMAIN c = DOMAIN stack /\ Len(c) = Len(stack)
      /\ c[1] = fr /\ \A i \in DOMAIN stack : i # 1 => c[i] = stack[i]
  <2>1. c = <<fr>> \o Tail(stack)
    BY <1>4 DEF Become
  <2> QED
    BY <1>3, <2>1, Replaced
<1>6. Frame(p) \in Frames /\ Frame(p).file = p /\ Frame(p).pos = 1 /\ Frame(p).todo = <<>> /\ FrameTrue(Frame(p), files[p])
  BY NewFrame
<1>7. PICK new \in Frames : new = Frame(p)
  BY <1>6
<1>8. /\ r \in Seq(Frames) /\ 1 \in DOMAIN r
      /\ r[1] = new /\ \A i \in DOMAIN r : i # 1 => i - 1 \in DOMAIN c /\ r[i] = c[i - 1]
      /\ \A i \in DOMAIN c : i + 1 \in DOMAIN r /\ r[i + 1] = c[i]
  <2>1. r = <<new>> \o c
    BY <1>2, <1>4, <1>7
  <2> QED
    BY <1>5, <2>1, Pushed
<1>9. \A s \in DOMAIN c : /\ c[s].file = stack[s].file /\ c[s].pos = stack[s].pos /\ Read(c[s].file)
                          /\ c[s].file # p /\ FrameTrue(c[s], files[c[s].file])
                          /\ c[s].pos <= Len(files[c[s].file]) + 1 /\ \A i \in DOMAIN c[s].todo : IsFile(c[s].todo[i])
  <2>1. \A s \in DOMAIN stack : c[s].file = stack[s].file /\ c[s].pos = stack[s].pos
    BY <1>1, <1>5, Zenon
  <2>2. \A s \in DOMAIN stack : Read(stack[s].file) /\ stack[s].file # p /\ stack[s].pos <= Len(files[stack[s].file]) + 1
    BY Zenon DEF StackOK, Read
  <2>3. \A s \in DOMAIN stack : FrameTrue(c[s], files[c[s].file])
    BY <1>5, Zenon DEF FramesTrue
  <2>4. \A s \in DOMAIN stack : \A i \in DOMAIN c[s].todo : IsFile(c[s].todo[i])
    BY <1>5, Zenon DEF StackOK
  <2> QED
    BY <1>5, <2>1, <2>2, <2>3, <2>4, Zenon
<1>10. \A f : (Read(f)' <=> Read(f) \/ f = p) /\ (IsFile(f)' <=> IsFile(f))
  BY DEF Read, IsFile
<1>11. StackOK'
  <2>1. ASSUME NEW s \in DOMAIN r
        PROVE  /\ Read(r[s].file)' /\ r[s].pos <= Len(files[r[s].file]) + 1
               /\ \A i \in DOMAIN r[s].todo : IsFile(r[s].todo[i])
    <3>1. CASE s = 1
      <4>1. files[p] \in Seq(Directives)
        BY DisksAssumption DEF FilesOK
      <4>2. 1 <= Len(files[p]) + 1
        BY <4>1
      <4>3. \A i \in DOMAIN <<>> : FALSE
        OBVIOUS
      <4> QED
        BY <1>6, <1>7, <1>8, <1>10, <3>1, <4>2, <4>3, ZenonT(40)
    <3>2. CASE s # 1
      BY <1>8, <1>9, <1>10, <3>2, Zenon
    <3> QED
      BY <3>1, <3>2
  <2>2. ASSUME NEW s \in DOMAIN r, NEW t \in DOMAIN r, r[s].file = r[t].file
        PROVE  s = t
    <3>0. s \in Nat /\ t \in Nat
      BY <1>8
    <3>1. CASE s # 1 /\ t # 1
      <4>1. s - 1 \in DOMAIN stack /\ t - 1 \in DOMAIN stack /\ stack[s - 1].file = stack[t - 1].file
        BY <1>5, <1>8, <1>9, <2>2, <3>1, Zenon
      <4>2. s - 1 = t - 1
        BY <4>1, Zenon DEF StackOK
      <4> QED
        BY <3>0, <4>2
    <3>2. CASE s = 1 \/ t = 1
      <4>1. \A u \in DOMAIN r : u # 1 => r[u].file # p
        <5>1. SUFFICES ASSUME NEW u \in DOMAIN r, u # 1 PROVE r[u].file # p
          OBVIOUS
        <5>2. u - 1 \in DOMAIN c /\ r[u] = c[u - 1]
          BY <1>8, <5>1, Zenon
        <5> QED
          BY <1>9, <5>2, Zenon
      <4>2. r[1].file = p
        BY <1>6, <1>7, <1>8, Zenon
      <4> QED
        BY <2>2, <3>2, <4>1, <4>2, Zenon
    <3> QED
      BY <3>1, <3>2
  <2> QED
    BY <1>2, <1>8, <1>10, <2>1, <2>2, Zenon DEF StackOK
<1>12. FramesTrue'
  <2>1. ASSUME NEW s \in DOMAIN r PROVE FrameTrue(r[s], files[r[s].file])
    <3>1. CASE s = 1
      <4>1. r[s] = new /\ new.file = p /\ FrameTrue(new, files[p])
        BY <1>6, <1>7, <1>8, <3>1
      <4> QED
        BY <4>1
    <3>2. CASE s # 1
      <4>1. s - 1 \in DOMAIN c /\ r[s] = c[s - 1]
        BY <1>8, <3>2, Zenon
      <4> QED
        BY <1>9, <4>1, Zenon
    <3> QED
      BY <3>1, <3>2
  <2> QED
    BY <1>2, <2>1, Zenon DEF FramesTrue
<1>13. ASSUME NEW f \in Paths, NEW i \in Nat, f # p
       PROVE  (Passed(f, i)' <=> Passed(f, i)) /\ (Left(f, i)' <=> Left(f, i))
  <2>1. \A s \in DOMAIN stack : stack[s].file = f => \E t \in DOMAIN r : r[t].file = stack[s].file /\ r[t].pos = stack[s].pos
    <3>1. SUFFICES ASSUME NEW s \in DOMAIN stack
          PROVE  \E t \in DOMAIN r : r[t].file = stack[s].file /\ r[t].pos = stack[s].pos
      OBVIOUS
    <3>2. s + 1 \in DOMAIN r /\ r[s + 1] = c[s] /\ c[s].file = stack[s].file /\ c[s].pos = stack[s].pos
      BY <1>5, <1>8, <1>9, Zenon
    <3> QED
      BY <3>2, Zenon
  <2>2. \A t \in DOMAIN r : r[t].file = f => \E s \in DOMAIN stack : r[t].file = stack[s].file /\ r[t].pos = stack[s].pos
    <3>1. SUFFICES ASSUME NEW t \in DOMAIN r, r[t].file = f
          PROVE  \E s \in DOMAIN stack : r[t].file = stack[s].file /\ r[t].pos = stack[s].pos
      OBVIOUS
    <3>2. t # 1
      BY <1>6, <1>7, <1>8, <1>13, <3>1, Zenon
    <3>3. t - 1 \in DOMAIN c /\ r[t] = c[t - 1]
      BY <1>8, <3>2, Zenon
    <3>4. c[t - 1].file = stack[t - 1].file /\ c[t - 1].pos = stack[t - 1].pos /\ t - 1 \in DOMAIN stack
      BY <1>5, <1>9, <3>3, Zenon
    <3> QED
      BY <3>3, <3>4, Zenon
  <2>3. (\A s \in DOMAIN r : r[s].file = f => i < r[s].pos) <=> (\A s \in DOMAIN stack : stack[s].file = f => i < stack[s].pos)
    BY <2>1, <2>2, Zenon
  <2>4. (\A s \in DOMAIN r : r[s].file = f => i < r[s].pos /\ ~Governs(files[f], i, r[s].pos))
        <=> (\A s \in DOMAIN stack : stack[s].file = f => i < stack[s].pos /\ ~Governs(files[f], i, stack[s].pos))
    BY <2>1, <2>2, ZenonT(40)
  <2> QED
    BY <1>2, <2>3, <2>4, Zenon DEF Passed, Left
<1>14. ASSUME NEW i \in Nat \ {0} PROVE ~Passed(p, i)' /\ ~Left(p, i)'
  <2>1. ~(i < 1)
    OBVIOUS
  <2>2. 1 \in DOMAIN r /\ r[1].file = p /\ ~(i < r[1].pos)
    BY <1>6, <1>7, <1>8, <2>1, Zenon
  <2> QED
    BY <1>2, <2>2, Zenon DEF Passed, Left
<1> QED
  BY <1>11, <1>12, <1>13, <1>14, Zenon

-----------------------------------------------------------------------------
(* What a step does to the blocks that have been left and the lines passed. *)

\* A step that leaves no block and pushes nothing.
LEMMA NoBlockLeft ==
    ASSUME PushedOnce, files' = files, stanzas' = stanzas,
           \A f \in Paths, g \in Nat : g \in DOMAIN files[f] /\ files[f][g].kw = "host"
                                        => (Read(f)' /\ Left(f, g)' <=> Read(f) /\ Left(f, g))
    PROVE  PushedOnce'
<1>1. PICK C2 : C2 = Closed'
  OBVIOUS
<1>2. ASSUME NEW b \in Paths \X Nat
      PROVE  b \in C2 <=> b \in Closed
  <2>1. PICK f \in Paths, g \in Nat : b[1] = f /\ b[2] = g
    OBVIOUS
  <2>2. b \in C2 <=> /\ Read(f)' /\ g \in DOMAIN files[f]
                     /\ files[f][g].kw = "host" /\ files[f][g].args # <<>>
                     /\ Left(f, g)'
    BY <1>1, <2>1, Zenon DEF Closed
  <2>3. b \in Closed <=> /\ Read(f) /\ g \in DOMAIN files[f]
                         /\ files[f][g].kw = "host" /\ files[f][g].args # <<>>
                         /\ Left(f, g)
    BY <2>1, Zenon DEF Closed
  <2> QED
    BY <2>2, <2>3, Zenon
<1>3. C2 \subseteq Paths \X Nat /\ Closed \subseteq Paths \X Nat
  BY <1>1 DEF Closed
<1>4. C2 = Closed
  BY <1>2, <1>3, Zenon
<1> QED
  BY <1>1, <1>4, Zenon DEF PushedOnce

\* A step that leaves the block the parser is in, and pushes its stanza.
LEMMA BlockLeft ==
    ASSUME FilesOK, StackOK, FramesTrue, PushedOnce, stack # <<>>, files' = files, visited' = visited,
           NEW hf, hf = Top.file, stanzas' = Flush(Top),
           Top.pos \in DOMAIN files[hf] => files[hf][Top.pos].kw \in Headers,
           \A f \in Paths, g \in Nat : f # hf => (Left(f, g)' <=> Left(f, g)),
           \A g \in DOMAIN files[hf] : files[hf][g].kw = "host" => (Left(hf, g)' <=> g < Top.pos)
    PROVE  PushedOnce' /\ FilesOK'
<1>1. PICK C : C = Closed
  OBVIOUS
<1>2. PICK C2 : C2 = Closed'
  OBVIOUS
<1>3. PICK top \in Frames : top = Top
  BY TopFacts
<1>4. PICK lines \in Seq(Directives) : lines = files[hf]
  BY TopFacts
<1>5. PICK p \in Nat \ {0} : p = top.pos
  BY <1>3 DEF Frames
<1>6. Len(lines) \in Nat /\ DOMAIN lines = 1 .. Len(lines) /\ p \in 1 .. Len(lines) + 1 /\ Read(hf) /\ hf \in Paths
  BY <1>3, <1>4, <1>5, TopFacts
<1>7. FrameTrue(top, lines)
  BY <1>3, <1>4, TopFacts, Zenon DEF FramesTrue
<1>8. p \in DOMAIN lines => lines[p].kw \in Headers
  BY <1>3, <1>4, <1>5
<1>9. \A g \in Nat : Left(hf, g) <=> g < p /\ ~Governs(lines, g, p)
  BY <1>3, <1>4, <1>5, TopDecides, Zenon
<1>10. \A f : Read(f)' <=> Read(f)
  BY DEF Read
<1>11. C \subseteq Paths \X Nat /\ C2 \subseteq Paths \X Nat
  BY <1>1, <1>2 DEF Closed
\* Another file's blocks stay as they are, and the top file's are those above p.
<1>12. ASSUME NEW f \in Paths, NEW g \in Nat
       PROVE  <<f, g>> \in C2 <=> IF f # hf THEN <<f, g>> \in C
                                  ELSE g \in DOMAIN lines /\ lines[g].kw = "host" /\ lines[g].args # <<>> /\ g < p
  <2>1. <<f, g>>[1] = f /\ <<f, g>>[2] = g /\ <<f, g>> \in Paths \X Nat
    OBVIOUS
  <2>2. <<f, g>> \in C2 <=> /\ Read(f) /\ g \in DOMAIN files[f]
                            /\ files[f][g].kw = "host" /\ files[f][g].args # <<>>
                            /\ Left(f, g)'
    BY <1>2, <1>10, <2>1, Zenon DEF Closed
  <2>3. <<f, g>> \in C <=> /\ Read(f) /\ g \in DOMAIN files[f]
                           /\ files[f][g].kw = "host" /\ files[f][g].args # <<>>
                           /\ Left(f, g)
    BY <1>1, <2>1, Zenon DEF Closed
  <2>4. CASE f # hf
    BY <2>2, <2>3, <2>4, Zenon
  <2>5. CASE f = hf
    <3>1. g \in DOMAIN files[hf] /\ files[hf][g].kw = "host" => (Left(hf, g)' <=> g < p)
      BY <1>3, <1>5, Zenon
    <3> QED
      BY <1>4, <1>6, <2>2, <2>5, <3>1, Zenon
  <2> QED
    BY <2>4, <2>5
<1>13. ASSUME NEW g \in Nat
       PROVE  <<hf, g>> \in C <=> /\ g \in DOMAIN lines /\ lines[g].kw = "host" /\ lines[g].args # <<>>
                                  /\ g < p /\ ~Governs(lines, g, p)
  <2>1. <<hf, g>>[1] = hf /\ <<hf, g>>[2] = g /\ <<hf, g>> \in Paths \X Nat
    BY <1>6
  <2> QED
    BY <1>1, <1>4, <1>6, <1>9, <2>1, Zenon DEF Closed
<1>14. PICK o : Origin(o, stanzas, files, C)
  BY <1>1, Zenon DEF PushedOnce
<1>15. stanzas \in Seq(StanzaRecords) /\ top.current \in StanzaRecords /\ top.open \in BOOLEAN
  BY DEF FilesOK, Frames
<1>16. CASE top.open /\ top.current.patterns # <<>>
  <2>1. PICK g \in DOMAIN lines : Governs(lines, g, p) /\ Described(top.current, lines, g, p)
    BY <1>5, <1>7, <1>16, Zenon DEF FrameTrue
  <2>2. g \in Nat /\ g < p /\ lines[g].kw = "host"
    BY <1>6, <2>1 DEF Governs
  <2>3. lines[g].args # <<>>
    BY <1>16, <2>1, Zenon DEF Described
  <2>4. Described(top.current, lines, g, Len(lines) + 1)
    BY <1>6, <1>8, <2>1, <2>2, DescribedEnd
  <2>5. stanzas' = Append(stanzas, top.current)
    BY <1>3, <1>16, Zenon DEF Flush
  <2>6. \A c \in C : c[1] = hf => c[2] < g
    <3>1. SUFFICES ASSUME NEW c \in C, c[1] = hf PROVE c[2] < g
      OBVIOUS
    <3>2. PICK j \in Nat : c = <<hf, j>> /\ c[2] = j
      BY <1>11, <3>1
    <3>3. j \in DOMAIN lines /\ lines[j].kw = "host" /\ j < p /\ ~Governs(lines, j, p)
      BY <1>13, <3>2, Zenon
    <3>4. j # g
      BY <2>1, <3>3, Zenon
    <3>5. ~(j > g)
      BY <1>6, <2>1, <2>2, <3>3 DEF Governs, Headers
    <3> QED
      BY <2>2, <3>2, <3>4, <3>5
  <2>7. \E o2 : Origin(o2, Append(stanzas, top.current), files, C \cup {<<hf, g>>})
    BY <1>4, <1>11, <1>14, <1>15, <2>2, <2>4, <2>6, OriginExtend, Zenon
  <2>8. C2 = C \cup {<<hf, g>>}
    <3>1. ASSUME NEW f \in Paths, NEW j \in Nat
          PROVE  <<f, j>> \in C2 <=> <<f, j>> \in C \/ (f = hf /\ j = g)
      <4>1. CASE f # hf
        BY <1>12, <4>1, Zenon
      <4>2. CASE f = hf
        <5>1. Governs(lines, j, p) => j = g
          BY <2>1, <2>2, GovernsUnique
        <5> QED
          BY <1>12, <1>13, <2>1, <2>2, <2>3, <4>2, <5>1, Zenon
      <4> QED
        BY <4>1, <4>2
    <3>2. ASSUME NEW b \in Paths \X Nat
          PROVE  b \in C2 <=> b \in C \cup {<<hf, g>>}
      <4>1. PICK f \in Paths, j \in Nat : b = <<f, j>>
        OBVIOUS
      <4>2. <<f, j>> = <<hf, g>> <=> f = hf /\ j = g
        OBVIOUS
      <4> QED
        BY <3>1, <4>1, <4>2, Zenon
    <3>3. <<hf, g>> \in Paths \X Nat
      BY <1>6, <2>2
    <3> QED
      BY <1>11, <3>2, <3>3
  <2>9. Append(stanzas, top.current) \in Seq(StanzaRecords)
    BY <1>15
  <2> QED
    BY <1>2, <2>5, <2>7, <2>8, <2>9, Zenon DEF PushedOnce, FilesOK
<1>17. CASE ~(top.open /\ top.current.patterns # <<>>)
  <2>1. stanzas' = stanzas
    BY <1>3, <1>17, Zenon DEF Flush
  <2>2. ASSUME NEW j \in DOMAIN lines, Governs(lines, j, p), lines[j].args # <<>>
        PROVE  FALSE
    <3>1. top.open
      BY <1>5, <1>7, <1>15, <2>2, Zenon DEF FrameTrue
    <3>2. PICK g \in DOMAIN lines : Governs(lines, g, p) /\ Described(top.current, lines, g, p)
      BY <1>5, <1>7, <3>1, Zenon DEF FrameTrue
    <3>3. j \in Nat /\ g \in Nat
      BY <1>6
    <3>4. j = g
      BY <2>2, <3>2, <3>3, GovernsUnique
    <3> QED
      BY <1>17, <2>2, <3>1, <3>2, <3>4, Zenon DEF Described
  <2>3. ASSUME NEW f \in Paths, NEW j \in Nat
        PROVE  <<f, j>> \in C2 <=> <<f, j>> \in C
    BY <1>12, <1>13, <2>2, Zenon
  <2>4. C2 = C
    <3>1. ASSUME NEW b \in Paths \X Nat PROVE b \in C2 <=> b \in C
      <4>1. PICK f \in Paths, j \in Nat : b = <<f, j>>
        OBVIOUS
      <4> QED
        BY <2>3, <4>1, Zenon
    <3> QED
      BY <1>11, <3>1
  <2> QED
    BY <1>2, <1>14, <2>1, <2>4, Zenon DEF PushedOnce, FilesOK
<1> QED
  BY <1>16, <1>17

\* What is passed in a step is listed in it, and nothing listed is forgotten.
LEMMA ReportedKept ==
    ASSUME Reported, files' = files, warnings \subseteq warnings',
           \A f \in Paths : Read(f)' => \A i \in DOMAIN files[f] :
               Passed(f, i)' => (Read(f) /\ Passed(f, i)) \/ Listed(f, i)'
    PROVE  Reported'
<1>1. ASSUME NEW f \in Paths, NEW i, Listed(f, i) PROVE Listed(f, i)'
  BY <1>1, Zenon DEF Listed, Warn
<1>2. ASSUME NEW f \in Paths, Read(f)', NEW i \in DOMAIN files[f], Passed(f, i)'
      PROVE  Listed(f, i)'
  BY <1>1, <1>2, Zenon DEF Reported
<1> QED
  BY <1>2, Zenon DEF Reported

-----------------------------------------------------------------------------
(* The steps.                                                               *)

\* What a directive step knows of the line it handles.
LEMMA AtLine ==
    ASSUME FilesOK, StackOK, NEW kw, AtDirective(kw)
    PROVE  /\ stack # <<>> /\ Top.pos \in DOMAIN files[Top.file] /\ Directive = files[Top.file][Top.pos]
           /\ Directive \in Directives /\ Directive.kw = kw /\ Top.pos + 1 <= Len(files[Top.file]) + 1
           /\ Top.todo = <<>>
<1>1. stack # <<>> /\ Top.pos <= Len(files[Top.file]) /\ Directive.kw = kw /\ Top.todo = <<>>
  BY DEF AtDirective
<1>2. /\ files[Top.file] \in Seq(Directives) /\ Len(files[Top.file]) \in Nat /\ Top.pos \in Nat \ {0}
      /\ DOMAIN files[Top.file] = 1 .. Len(files[Top.file])
  BY <1>1, TopFacts, Zenon
<1>3. Top.pos \in DOMAIN files[Top.file] /\ Top.pos + 1 <= Len(files[Top.file]) + 1
  BY <1>1, <1>2
<1>4. Directive = files[Top.file][Top.pos]
  BY DEF Directive
<1> QED
  BY <1>1, <1>2, <1>3, <1>4

\* A line that starts no block leaves the blocks as they are.
LEMMA LineInBlock ==
    ASSUME FilesOK, StackOK, FramesTrue, PushedOnce, Reported, NEW kw, AtDirective(kw), kw \notin Headers,
           files' = files, visited' = visited, stanzas' = stanzas, warnings \subseteq warnings',
           NEW fr \in Frames, fr.file = Top.file, fr.pos = Top.pos + 1, fr.todo = <<>>,
           FrameTrue(fr, files[Top.file]), stack' = Become(fr),
           kw = "unsupported" /\ (\E g \in DOMAIN files[Top.file] : Governs(files[Top.file], g, Top.pos))
             => Warn("unsupported", Top.file, Top.pos) \in warnings'
    PROVE  FilesOK' /\ StackOK' /\ FramesTrue' /\ PushedOnce' /\ Reported'
<1>0. PICK hf : hf = Top.file
  OBVIOUS
<1>1. /\ stack # <<>> /\ Top.pos \in DOMAIN files[hf] /\ files[hf][Top.pos].kw = kw /\ Top.pos + 1 <= Len(files[hf]) + 1
  BY <1>0, AtLine, Zenon
<1>2. hf \in Paths /\ Read(hf) /\ Top.pos \in Nat \ {0} /\ DOMAIN files[hf] = 1 .. Len(files[hf]) /\ Len(files[hf]) \in Nat
  BY <1>0, <1>1, TopFacts, Zenon
<1>3. /\ StackOK' /\ FramesTrue'
      /\ \A f \in Paths, i \in Nat : f # hf => (Passed(f, i)' <=> Passed(f, i)) /\ (Left(f, i)' <=> Left(f, i))
      /\ \A i \in Nat : /\ Passed(hf, i)' <=> i < fr.pos
                        /\ Left(hf, i)' <=> i < fr.pos /\ ~Governs(files[hf], i, fr.pos)
  <2>1. \A i \in DOMAIN fr.todo : FALSE
    OBVIOUS
  <2>2. \A i \in DOMAIN fr.todo : IsFile(fr.todo[i])
    BY <2>1, Zenon
  <2>3. fr.pos <= Len(files[hf]) + 1
    BY <1>1
  <2>4. \A f : Read(f)' <=> Read(f)
    BY DEF Read
  <2> QED
    BY <1>0, <1>1, <2>2, <2>3, <2>4, BecomeFacts, Zenon
<1>4. \A i \in Nat : /\ Passed(hf, i) <=> i < Top.pos
                     /\ Left(hf, i) <=> i < Top.pos /\ ~Governs(files[hf], i, Top.pos)
  BY <1>0, <1>1, TopDecides, Zenon
<1>5. \A f : Read(f)' <=> Read(f)
  BY DEF Read
<1>6. \A i \in Nat : i < fr.pos => i < Top.pos \/ i = Top.pos
  BY <1>2
<1>6a. \A i \in Nat : i < Top.pos => i < fr.pos
  BY <1>2
<1>7. PushedOnce'
  <2>1. ASSUME NEW f \in Paths, NEW g \in Nat, g \in DOMAIN files[f], files[f][g].kw = "host"
        PROVE  Left(f, g)' <=> Left(f, g)
    <3>1. CASE f # hf
      BY <1>3, <3>1, Zenon
    <3>2. CASE f = hf
      <4>1. g # Top.pos
        BY <1>1, <2>1, <3>2 DEF Headers
      <4>2. Governs(files[hf], g, fr.pos) <=> Governs(files[hf], g, Top.pos)
        BY <1>1, <1>2, GovernsStep
      <4> QED
        BY <1>3, <1>4, <1>6, <1>6a, <3>2, <4>1, <4>2, Zenon
    <3> QED
      BY <3>1, <3>2
  <2> QED
    BY <1>5, <2>1, NoBlockLeft, Zenon
<1>8. Reported'
  <2>1. ASSUME NEW f \in Paths, Read(f)', NEW i \in DOMAIN files[f], Passed(f, i)'
        PROVE  (Read(f) /\ Passed(f, i)) \/ Listed(f, i)'
    <3>1. Read(f) /\ i \in Nat
      BY <1>5, <2>1, LinesOf
    <3>2. CASE f # hf
      BY <1>3, <2>1, <3>1, <3>2, Zenon
    <3>3. CASE f = hf /\ i # Top.pos
      BY <1>3, <1>4, <1>6, <2>1, <3>1, <3>3, Zenon
    <3>4. CASE f = hf /\ i = Top.pos
      <4>1. files'[f][i].kw = kw /\ kw # "match"
        BY <1>1, <3>4 DEF Headers
      <4>2. kw = "unsupported" /\ (\E g \in DOMAIN files[f] : Governs(files[f], g, i)) => Warn("unsupported", f, i) \in warnings'
        BY <1>0, <3>4, Zenon
      <4>3. Listed(f, i)'
        BY <4>1, <4>2, Zenon DEF Listed, Warn
      <4> QED
        BY <4>3
    <3> QED
      BY <3>2, <3>3, <3>4
  <2> QED
    BY <2>1, ReportedKept, Zenon
<1>9. FilesOK'
  BY DEF FilesOK
<1> QED
  BY <1>3, <1>7, <1>8, <1>9

\* A frame that moves on to the next line.
LEMMA FrameNext ==
    ASSUME NEW mid \in Frames, NEW q, q = [mid EXCEPT !.pos = @ + 1]
    PROVE  /\ q \in Frames /\ q.file = mid.file /\ q.pos = mid.pos + 1 /\ q.open = mid.open
           /\ q.current = mid.current /\ q.inMatch = mid.inMatch /\ q.todo = mid.todo
BY DEF Frames

\* The frame as it moves on over a line that is no keyword of a stanza.
LEMMA FrameKeep ==
    ASSUME NEW lines \in Seq(Directives), NEW fr \in Frames, NEW q \in Frames, FrameTrue(fr, lines),
           q.open = fr.open, q.current = fr.current, q.inMatch = fr.inMatch, q.pos = fr.pos + 1,
           lines[fr.pos].kw \notin Headers, fr.open => lines[fr.pos].kw \notin Keywords
    PROVE  FrameTrue(q, lines)
<1>1. fr.pos \in Nat \ {0} /\ fr.open \in BOOLEAN /\ DOMAIN lines \subseteq Nat
  BY DEF Frames
<1>2. \A g \in DOMAIN lines : Governs(lines, g, fr.pos + 1) <=> Governs(lines, g, fr.pos)
  BY <1>1, GovernsStep
<1>3. CASE fr.open
  <2>1. PICK g \in DOMAIN lines : ~fr.inMatch /\ Governs(lines, g, fr.pos) /\ Described(fr.current, lines, g, fr.pos)
    BY <1>3, Zenon DEF FrameTrue
  <2>2. Described(fr.current, lines, g, fr.pos + 1)
    BY <1>1, <1>3, <2>1, DescribedKeep
  <2>3. ~q.inMatch /\ Governs(lines, g, q.pos) /\ Described(q.current, lines, g, q.pos)
    BY <1>2, <2>1, <2>2, Zenon
  <2> QED
    BY <1>3, <2>3, Zenon DEF FrameTrue
<1>4. CASE ~fr.open
  BY <1>2, <1>4, Zenon DEF FrameTrue
<1> QED
  BY <1>1, <1>3, <1>4

\* An Include line opens its arguments and leaves the block open.
LEMMA IncludeLineKeeps ==
    ASSUME ConfigInv, IncludeLine
    PROVE  ConfigInv'
<1>1. FilesOK /\ WarningsOK /\ StackOK /\ FramesTrue /\ PushedOnce /\ Reported
  BY DEF ConfigInv
<1>2. /\ AtDirective("include") /\ stack' = Advance([Top EXCEPT !.targets = Directive.args])
      /\ files' = files /\ visited' = visited /\ stanzas' = stanzas /\ warnings' = warnings
  BY DEF IncludeLine
<1>3. PICK top \in Frames, lines \in Seq(Directives) :
        /\ top = Top /\ lines = files[Top.file] /\ lines[top.pos] = Directive /\ Directive \in Directives
        /\ Directive.kw = "include" /\ top.todo = <<>> /\ FrameTrue(top, lines)
  <2>1. stack # <<>> /\ Directive = files[Top.file][Top.pos] /\ Directive \in Directives /\ Directive.kw = "include" /\ Top.todo = <<>>
    BY <1>1, <1>2, AtLine, Zenon
  <2>2. Top \in Frames /\ files[Top.file] \in Seq(Directives) /\ FrameTrue(Top, files[Top.file])
    BY <1>1, <2>1, TopFacts, Zenon DEF FramesTrue
  <2> QED
    BY <2>1, <2>2, Zenon
<1>4. PICK d : d = Directive.args /\ d \in Seq(Targets)
  BY <1>3, DirectiveParts
<1>5. PICK fr : fr = [[top EXCEPT !.targets = d] EXCEPT !.pos = @ + 1]
  OBVIOUS
<1>6. /\ fr \in Frames /\ fr.file = top.file /\ fr.pos = top.pos + 1 /\ fr.todo = <<>>
      /\ fr.open = top.open /\ fr.current = top.current /\ fr.inMatch = top.inMatch
  <2>1. PICK mid : mid = [top EXCEPT !.targets = d]
    OBVIOUS
  <2>2. /\ mid \in Frames /\ mid.file = top.file /\ mid.pos = top.pos /\ mid.todo = <<>>
        /\ mid.open = top.open /\ mid.current = top.current /\ mid.inMatch = top.inMatch
    BY <1>3, <1>4, <2>1 DEF Frames
  <2>3. fr = [mid EXCEPT !.pos = @ + 1]
    BY <1>5, <2>1
  <2> QED
    BY <2>2, <2>3, FrameNext, ZenonT(40)
<1>7. stack' = Become(fr)
  BY <1>2, <1>3, <1>4, <1>5 DEF Advance
<1>8. lines[top.pos].kw \notin Headers /\ lines[top.pos].kw \notin Keywords /\ "include" \notin Headers /\ "include" # "unsupported"
  BY <1>3, WordsAssumption DEF Headers
<1>9. FrameTrue(fr, lines)
  BY <1>3, <1>6, <1>8, FrameKeep
<1>10. FilesOK' /\ StackOK' /\ FramesTrue' /\ PushedOnce' /\ Reported'
  BY <1>1, <1>2, <1>3, <1>6, <1>7, <1>8, <1>9, LineInBlock
<1>11. WarningsOK'
  BY <1>1, <1>2 DEF WarningsOK
<1> QED
  BY <1>10, <1>11 DEF ConfigInv

\* A keyword Tern does not understand is listed when a Host line governs it.
LEMMA UnsupportedLineKeeps ==
    ASSUME ConfigInv, UnsupportedLine
    PROVE  ConfigInv'
<1>1. FilesOK /\ WarningsOK /\ StackOK /\ FramesTrue /\ PushedOnce /\ Reported
  BY DEF ConfigInv
<1>2. /\ AtDirective("unsupported") /\ stack' = Advance(Top)
      /\ files' = files /\ visited' = visited /\ stanzas' = stanzas
      /\ warnings' = IF Top.inMatch \/ ~Top.open THEN warnings
                     ELSE warnings \cup {Warn("unsupported", Top.file, Top.pos)}
  BY DEF UnsupportedLine
<1>3. PICK top \in Frames, lines \in Seq(Directives) :
        /\ top = Top /\ lines = files[Top.file] /\ lines[top.pos] = Directive
        /\ Directive.kw = "unsupported" /\ top.todo = <<>> /\ FrameTrue(top, lines) /\ top.file \in Paths
  <2>1. stack # <<>> /\ Directive = files[Top.file][Top.pos] /\ Directive.kw = "unsupported" /\ Top.todo = <<>>
    BY <1>1, <1>2, AtLine, Zenon
  <2>2. Top \in Frames /\ files[Top.file] \in Seq(Directives) /\ FrameTrue(Top, files[Top.file]) /\ Top.file \in Paths
    BY <1>1, <2>1, TopFacts, Zenon DEF FramesTrue
  <2> QED
    BY <2>1, <2>2, Zenon
<1>5. PICK fr : fr = [top EXCEPT !.pos = @ + 1]
  OBVIOUS
<1>6. /\ fr \in Frames /\ fr.file = top.file /\ fr.pos = top.pos + 1 /\ fr.todo = <<>>
      /\ fr.open = top.open /\ fr.current = top.current /\ fr.inMatch = top.inMatch
      /\ top.open \in BOOLEAN /\ top.inMatch \in BOOLEAN /\ top.pos \in Nat
  BY <1>3, <1>5 DEF Frames
<1>7. stack' = Become(fr)
  BY <1>2, <1>3, <1>5 DEF Advance
<1>8. lines[top.pos].kw \notin Headers /\ lines[top.pos].kw \notin Keywords /\ "unsupported" \notin Headers
  BY <1>3, WordsAssumption DEF Headers
<1>9. FrameTrue(fr, lines)
  BY <1>3, <1>6, <1>8, FrameKeep
<1>10. ASSUME NEW g \in DOMAIN lines, Governs(lines, g, top.pos)
       PROVE  Warn("unsupported", top.file, top.pos) \in warnings'
  <2>1. top.open
    BY <1>3, <1>6, <1>10, Zenon DEF FrameTrue
  <2>2. ~top.inMatch
    BY <1>3, <2>1, Zenon DEF FrameTrue
  <2> QED
    BY <1>2, <1>3, <2>1, <2>2
<1>11. warnings \subseteq warnings'
  BY <1>2
<1>12. FilesOK' /\ StackOK' /\ FramesTrue' /\ PushedOnce' /\ Reported'
  BY <1>1, <1>2, <1>3, <1>6, <1>7, <1>8, <1>9, <1>10, <1>11, LineInBlock
<1>13. WarningsOK'
  <2>1. Warn("unsupported", top.file, top.pos) \in [kind : {"match", "unreadable", "cycle", "unsupported"}, file : Paths, line : Nat]
    BY <1>3, <1>6 DEF Warn
  <2> QED
    BY <1>1, <1>2, <1>3, <2>1 DEF WarningsOK
<1> QED
  BY <1>12, <1>13 DEF ConfigInv

\* A keyword goes to the stanza of the block it stands in, and to no other.
LEMMA SettingLineKeeps ==
    ASSUME ConfigInv, SettingLine
    PROVE  ConfigInv'
<1>1. FilesOK /\ WarningsOK /\ StackOK /\ FramesTrue /\ PushedOnce /\ Reported
  BY DEF ConfigInv
<1>2. PICK k \in Keywords : AtDirective(k)
  BY DEF SettingLine
<1>2a. /\ stack' = Advance(IF Top.inMatch \/ ~Top.open THEN Top ELSE [Top EXCEPT !.current = ApplyDirective(@, Directive)])
       /\ files' = files /\ visited' = visited /\ stanzas' = stanzas /\ warnings' = warnings
  BY DEF SettingLine
<1>3. PICK top \in Frames, lines \in Seq(Directives) :
        /\ top = Top /\ lines = files[Top.file] /\ lines[top.pos] = Directive /\ Directive \in Directives
        /\ Directive.kw = k /\ top.todo = <<>> /\ FrameTrue(top, lines)
  <2>1. stack # <<>> /\ Directive = files[Top.file][Top.pos] /\ Directive \in Directives /\ Directive.kw = k /\ Top.todo = <<>>
    BY <1>1, <1>2, AtLine, Zenon
  <2>2. Top \in Frames /\ files[Top.file] \in Seq(Directives) /\ FrameTrue(Top, files[Top.file])
    BY <1>1, <2>1, TopFacts, Zenon DEF FramesTrue
  <2> QED
    BY <2>1, <2>2, Zenon
<1>4. k \notin Headers /\ k # "unsupported"
  BY WordsAssumption DEF Headers
<1>5. top.open \in BOOLEAN /\ top.inMatch \in BOOLEAN /\ top.pos \in Nat \ {0} /\ top.current \in StanzaRecords /\ DOMAIN lines \subseteq Nat
  BY DEF Frames
<1>6. CASE top.inMatch \/ ~top.open
  <2>1. ~top.open
    BY <1>3, <1>5, <1>6, Zenon DEF FrameTrue
  <2>2. PICK fr : fr = [top EXCEPT !.pos = @ + 1]
    OBVIOUS
  <2>3. /\ fr \in Frames /\ fr.file = top.file /\ fr.pos = top.pos + 1 /\ fr.todo = <<>>
        /\ fr.open = top.open /\ fr.current = top.current /\ fr.inMatch = top.inMatch
    BY <1>3, <2>2, SMTT(30) DEF Frames
  <2>4. stack' = Become(fr)
    BY <1>2a, <1>3, <1>6, <2>2 DEF Advance
  <2>5. FrameTrue(fr, lines)
    BY <1>3, <1>4, <2>1, <2>3, FrameKeep
  <2> QED
    BY <1>1, <1>2, <1>2a, <1>3, <1>4, <2>3, <2>4, <2>5, LineInBlock DEF ConfigInv, WarningsOK
<1>7. CASE ~top.inMatch /\ top.open
  <2>1. PICK g \in DOMAIN lines : Governs(lines, g, top.pos) /\ Described(top.current, lines, g, top.pos)
    BY <1>3, <1>7, Zenon DEF FrameTrue
  <2>2. PICK new : new = ApplyDirective(top.current, lines[top.pos])
    OBVIOUS
  <2>3. lines[top.pos].args \in Seq(Values) /\ lines[top.pos].kw \in Keywords /\ g \in Nat
    BY <1>3, <1>5, DirectiveParts
  <2>4. new \in StanzaRecords /\ Described(new, lines, g, top.pos + 1)
    BY <1>5, <2>1, <2>2, <2>3, DescribedApply
  <2>5. PICK fr : fr = [[top EXCEPT !.current = new] EXCEPT !.pos = @ + 1]
    OBVIOUS
  <2>6. /\ fr \in Frames /\ fr.file = top.file /\ fr.pos = top.pos + 1 /\ fr.todo = <<>>
        /\ fr.open = top.open /\ fr.current = new /\ fr.inMatch = top.inMatch
    <3>1. PICK mid : mid = [top EXCEPT !.current = new]
      OBVIOUS
    <3>2. /\ mid \in Frames /\ mid.file = top.file /\ mid.pos = top.pos /\ mid.todo = <<>>
          /\ mid.open = top.open /\ mid.current = new /\ mid.inMatch = top.inMatch
      BY <1>3, <2>4, <3>1 DEF Frames
    <3>3. fr = [mid EXCEPT !.pos = @ + 1]
      BY <2>5, <3>1
    <3> QED
      BY <3>2, <3>3, FrameNext, Zenon
  <2>7. stack' = Become(fr)
    BY <1>2a, <1>3, <1>7, <2>2, <2>5 DEF Advance
  <2>8. Governs(lines, g, top.pos + 1)
    BY <1>3, <1>4, <1>5, <2>1, <2>3, GovernsStep
  <2>9. FrameTrue(fr, lines)
    BY <1>7, <2>4, <2>6, <2>8, Zenon DEF FrameTrue
  <2> QED
    BY <1>1, <1>2, <1>2a, <1>3, <1>4, <2>6, <2>7, <2>9, LineInBlock DEF ConfigInv, WarningsOK
<1> QED
  BY <1>5, <1>6, <1>7

\* A Host or Match line leaves the block above it.
LEMMA HeaderLine ==
    ASSUME FilesOK, StackOK, FramesTrue, PushedOnce, Reported, NEW kw, AtDirective(kw), kw \in Headers,
           files' = files, visited' = visited, stanzas' = Flush(Top), warnings \subseteq warnings',
           NEW fr \in Frames, fr.file = Top.file, fr.pos = Top.pos + 1, fr.todo = <<>>,
           FrameTrue(fr, files[Top.file]), stack' = Become(fr),
           kw = "match" => Warn("match", Top.file, Top.pos) \in warnings'
    PROVE  FilesOK' /\ StackOK' /\ FramesTrue' /\ PushedOnce' /\ Reported'
<1>0. PICK hf : hf = Top.file
  OBVIOUS
<1>1. /\ stack # <<>> /\ Top.pos \in DOMAIN files[hf] /\ files[hf][Top.pos].kw = kw /\ Top.pos + 1 <= Len(files[hf]) + 1
  BY <1>0, AtLine, Zenon
<1>2. hf \in Paths /\ Read(hf) /\ Top.pos \in Nat \ {0} /\ DOMAIN files[hf] = 1 .. Len(files[hf]) /\ Len(files[hf]) \in Nat
  BY <1>0, <1>1, TopFacts, Zenon
<1>3. /\ StackOK' /\ FramesTrue'
      /\ \A f \in Paths, i \in Nat : f # hf => (Passed(f, i)' <=> Passed(f, i)) /\ (Left(f, i)' <=> Left(f, i))
      /\ \A i \in Nat : /\ Passed(hf, i)' <=> i < fr.pos
                        /\ Left(hf, i)' <=> i < fr.pos /\ ~Governs(files[hf], i, fr.pos)
  <2>1. \A i \in DOMAIN fr.todo : FALSE
    OBVIOUS
  <2>2. \A i \in DOMAIN fr.todo : IsFile(fr.todo[i])
    BY <2>1, Zenon
  <2>3. fr.pos <= Len(files[hf]) + 1
    BY <1>1
  <2>4. \A f : Read(f)' <=> Read(f)
    BY DEF Read
  <2> QED
    BY <1>0, <1>1, <2>2, <2>3, <2>4, BecomeFacts, Zenon
<1>4. \A i \in Nat : Passed(hf, i) <=> i < Top.pos
  BY <1>0, <1>1, TopDecides, Zenon
<1>5. \A f : Read(f)' <=> Read(f)
  BY DEF Read
<1>6. \A i \in Nat : i < fr.pos => i < Top.pos \/ i = Top.pos
  BY <1>2
<1>7. PushedOnce' /\ FilesOK'
  <2>1. ASSUME NEW g \in DOMAIN files[hf], files[hf][g].kw = "host"
        PROVE  Left(hf, g)' <=> g < Top.pos
    <3>1. g \in Nat
      BY <1>2
    <3>2. CASE g < Top.pos
      <4>1. ~Governs(files[hf], g, fr.pos) /\ g < fr.pos
        BY <1>1, <1>2, <3>1, <3>2, GovernsEnds
      <4> QED
        BY <1>3, <3>1, <3>2, <4>1, Zenon
    <3>3. CASE g = Top.pos
      <4>1. Governs(files[hf], g, fr.pos) /\ ~(g < Top.pos)
        BY <1>2, <2>1, <3>3, GovernsHost
      <4> QED
        BY <1>3, <3>1, <4>1, Zenon
    <3>4. CASE g > Top.pos
      <4>1. ~(g < Top.pos) /\ ~(g < fr.pos)
        BY <1>2, <3>1, <3>4
      <4> QED
        BY <1>3, <3>1, <4>1, Zenon
    <3> QED
      BY <1>2, <3>1, <3>2, <3>3, <3>4
  <2>2. Top.pos \in DOMAIN files[hf] => files[hf][Top.pos].kw \in Headers
    BY <1>1
  <2> QED
    BY <1>0, <1>1, <1>3, <2>1, <2>2, BlockLeft, Zenon
<1>8. Reported'
  <2>1. ASSUME NEW f \in Paths, Read(f)', NEW i \in DOMAIN files[f], Passed(f, i)'
        PROVE  (Read(f) /\ Passed(f, i)) \/ Listed(f, i)'
    <3>1. Read(f) /\ i \in Nat
      BY <1>5, <2>1, LinesOf
    <3>2. CASE f # hf
      BY <1>3, <2>1, <3>1, <3>2, Zenon
    <3>3. CASE f = hf /\ i # Top.pos
      BY <1>3, <1>4, <1>6, <2>1, <3>1, <3>3, Zenon
    <3>4. CASE f = hf /\ i = Top.pos
      <4>1. files'[f][i].kw = kw /\ kw # "unsupported"
        BY <1>1, <3>4 DEF Headers
      <4>2. kw = "match" => Warn("match", f, i) \in warnings'
        BY <1>0, <3>4, Zenon
      <4>3. Listed(f, i)'
        BY <4>1, <4>2, Zenon DEF Listed, Warn
      <4> QED
        BY <4>3
    <3> QED
      BY <3>2, <3>3, <3>4
  <2> QED
    BY <2>1, ReportedKept, Zenon
<1> QED
  BY <1>3, <1>7, <1>8

\* A Host line pushes the stanza of the block it ends and starts its own.
LEMMA HostLineKeeps ==
    ASSUME ConfigInv, HostLine
    PROVE  ConfigInv'
<1>1. FilesOK /\ WarningsOK /\ StackOK /\ FramesTrue /\ PushedOnce /\ Reported
  BY DEF ConfigInv
<1>2. /\ AtDirective("host") /\ stanzas' = Flush(Top)
      /\ stack' = Advance([Top EXCEPT !.open = TRUE, !.current = Stanza(Directive.args), !.inMatch = FALSE])
      /\ files' = files /\ visited' = visited /\ warnings' = warnings
  BY DEF HostLine
<1>3. PICK top \in Frames, lines \in Seq(Directives) :
        /\ top = Top /\ lines = files[Top.file] /\ lines[top.pos] = Directive /\ Directive \in Directives
        /\ Directive.kw = "host" /\ top.todo = <<>> /\ top.pos \in Nat \ {0} /\ top.pos \in DOMAIN lines
  <2>1. /\ stack # <<>> /\ Directive = files[Top.file][Top.pos] /\ Directive \in Directives /\ Directive.kw = "host"
        /\ Top.todo = <<>> /\ Top.pos \in DOMAIN files[Top.file]
    BY <1>1, <1>2, AtLine, Zenon
  <2>2. Top \in Frames /\ files[Top.file] \in Seq(Directives) /\ Top.pos \in Nat \ {0}
    BY <1>1, <2>1, TopFacts, Zenon
  <2> QED
    BY <2>1, <2>2, Zenon
<1>4. PICK st : st = Stanza(Directive.args)
  OBVIOUS
<1>5. st \in StanzaRecords /\ Described(st, lines, top.pos, top.pos + 1)
  <2>1. lines[top.pos].args \in Seq(Patterns)
    BY <1>3, DirectiveParts
  <2> QED
    BY <1>3, <1>4, <2>1, DescribedNew
<1>6. PICK mid : mid = [top EXCEPT !.open = TRUE, !.current = st, !.inMatch = FALSE]
  OBVIOUS
<1>7. /\ mid \in Frames /\ mid.file = top.file /\ mid.pos = top.pos /\ mid.todo = <<>>
      /\ mid.open = TRUE /\ mid.current = st /\ mid.inMatch = FALSE
  BY <1>3, <1>5, <1>6 DEF Frames
<1>8. PICK fr : fr = [mid EXCEPT !.pos = @ + 1]
  OBVIOUS
<1>9. /\ fr \in Frames /\ fr.file = top.file /\ fr.pos = top.pos + 1 /\ fr.todo = <<>>
      /\ fr.open = TRUE /\ fr.current = st /\ fr.inMatch = FALSE
  BY <1>7, <1>8, FrameNext
<1>10. stack' = Become(fr)
  BY <1>2, <1>3, <1>4, <1>6, <1>8 DEF Advance
<1>11. FrameTrue(fr, lines)
  <2>1. Governs(lines, top.pos, top.pos + 1)
    BY <1>3, GovernsHost
  <2> QED
    BY <1>3, <1>5, <1>9, <2>1 DEF FrameTrue
<1>12. "host" \in Headers /\ "host" # "match"
  BY DEF Headers
<1>13. FilesOK' /\ StackOK' /\ FramesTrue' /\ PushedOnce' /\ Reported'
  BY <1>1, <1>2, <1>3, <1>9, <1>10, <1>11, <1>12, HeaderLine
<1>14. WarningsOK'
  BY <1>1, <1>2 DEF WarningsOK
<1> QED
  BY <1>13, <1>14 DEF ConfigInv

\* A Match line pushes the stanza of the block it ends, starts none, and is listed.
LEMMA MatchLineKeeps ==
    ASSUME ConfigInv, MatchLine
    PROVE  ConfigInv'
<1>1. FilesOK /\ WarningsOK /\ StackOK /\ FramesTrue /\ PushedOnce /\ Reported
  BY DEF ConfigInv
<1>2. /\ AtDirective("match") /\ stanzas' = Flush(Top)
      /\ stack' = Advance([Top EXCEPT !.open = FALSE, !.inMatch = TRUE])
      /\ warnings' = warnings \cup {Warn("match", Top.file, Top.pos)}
      /\ files' = files /\ visited' = visited
  BY DEF MatchLine
<1>3. PICK top \in Frames, lines \in Seq(Directives) :
        /\ top = Top /\ lines = files[Top.file] /\ lines[top.pos] = Directive
        /\ Directive.kw = "match" /\ top.todo = <<>> /\ top.pos \in Nat \ {0} /\ top.file \in Paths
  <2>1. stack # <<>> /\ Directive = files[Top.file][Top.pos] /\ Directive.kw = "match" /\ Top.todo = <<>>
    BY <1>1, <1>2, AtLine, Zenon
  <2>2. Top \in Frames /\ files[Top.file] \in Seq(Directives) /\ Top.pos \in Nat \ {0} /\ Top.file \in Paths
    BY <1>1, <2>1, TopFacts, Zenon
  <2> QED
    BY <2>1, <2>2, Zenon
<1>6. PICK mid : mid = [top EXCEPT !.open = FALSE, !.inMatch = TRUE]
  OBVIOUS
<1>7. mid \in Frames /\ mid.file = top.file /\ mid.pos = top.pos /\ mid.todo = <<>> /\ mid.open = FALSE
  BY <1>3, <1>6 DEF Frames
<1>8. PICK fr : fr = [mid EXCEPT !.pos = @ + 1]
  OBVIOUS
<1>9. fr \in Frames /\ fr.file = top.file /\ fr.pos = top.pos + 1 /\ fr.todo = <<>> /\ fr.open = FALSE
  BY <1>7, <1>8, FrameNext, Zenon
<1>10. stack' = Become(fr)
  BY <1>2, <1>3, <1>6, <1>8 DEF Advance
<1>11. FrameTrue(fr, lines)
  <2>1. \A g \in DOMAIN lines : ~Governs(lines, g, top.pos + 1)
    BY <1>3, GovernsMatch
  <2> QED
    BY <1>9, <2>1 DEF FrameTrue
<1>12. "match" \in Headers /\ warnings \subseteq warnings'
  BY <1>2 DEF Headers
<1>13. FilesOK' /\ StackOK' /\ FramesTrue' /\ PushedOnce' /\ Reported'
  BY <1>1, <1>2, <1>3, <1>9, <1>10, <1>11, <1>12, HeaderLine
<1>14. WarningsOK'
  <2>1. Warn("match", top.file, top.pos) \in [kind : {"match", "unreadable", "cycle", "unsupported"}, file : Paths, line : Nat]
    BY <1>3 DEF Warn
  <2> QED
    BY <1>1, <1>2, <1>3, <2>1 DEF WarningsOK
<1> QED
  BY <1>13, <1>14 DEF ConfigInv

\* The end of a file pushes the stanza of its last block.
LEMMA EndOfFileKeeps ==
    ASSUME ConfigInv, EndOfFile
    PROVE  ConfigInv'
<1>1. FilesOK /\ WarningsOK /\ StackOK /\ FramesTrue /\ PushedOnce /\ Reported
  BY DEF ConfigInv
<1>2. /\ stack # <<>> /\ Top.pos > Len(files[Top.file]) /\ stanzas' = Flush(Top) /\ stack' = Tail(stack)
      /\ files' = files /\ visited' = visited /\ warnings' = warnings
  BY DEF EndOfFile
<1>3. PICK hf : hf = Top.file
  OBVIOUS
<1>4. hf \in Paths /\ Top.pos \in Nat \ {0} /\ DOMAIN files[hf] = 1 .. Len(files[hf]) /\ Len(files[hf]) \in Nat
  BY <1>1, <1>2, <1>3, TopFacts, Zenon
<1>5. /\ StackOK' /\ FramesTrue'
      /\ \A f \in Paths, i \in Nat : f # hf => (Passed(f, i)' <=> Passed(f, i)) /\ (Left(f, i)' <=> Left(f, i))
      /\ \A i \in Nat : Passed(hf, i)' /\ Left(hf, i)'
  BY <1>1, <1>2, <1>3, PopFacts, Zenon
<1>6. \A g \in DOMAIN files[hf] : g \in Nat /\ g < Top.pos
  BY <1>2, <1>3, <1>4
<1>7. Top.pos \notin DOMAIN files[hf]
  BY <1>2, <1>3, <1>4
<1>8. PushedOnce' /\ FilesOK'
  BY <1>1, <1>2, <1>3, <1>5, <1>6, <1>7, BlockLeft, Zenon
<1>9. \A f : Read(f)' <=> Read(f)
  BY <1>2 DEF Read
<1>10. Reported'
  <2>1. ASSUME NEW f \in Paths, Read(f)', NEW i \in DOMAIN files[f], Passed(f, i)'
        PROVE  Read(f) /\ Passed(f, i)
    <3>1. Read(f) /\ i \in Nat
      BY <1>1, <1>9, <2>1, LinesOf
    <3>2. \A j \in Nat : Passed(hf, j) <=> j < Top.pos
      BY <1>1, <1>2, <1>3, TopDecides, Zenon
    <3> QED
      BY <1>5, <1>6, <2>1, <3>1, <3>2, Zenon
  <2> QED
    BY <1>1, <1>2, <2>1, ReportedKept, Zenon
<1>11. WarningsOK'
  BY <1>1, <1>2 DEF WarningsOK
<1> QED
  BY <1>5, <1>8, <1>10, <1>11 DEF ConfigInv

\* A step that only changes what the Include at hand has left to do.
LEMMA IncludeBecomes ==
    ASSUME FilesOK, StackOK, FramesTrue, PushedOnce, Reported, stack # <<>>,
           files' = files, visited' \subseteq Paths, \A f : Read(f)' <=> Read(f), stanzas' = stanzas, warnings \subseteq warnings',
           NEW fr \in Frames, fr.file = Top.file, fr.pos = Top.pos, fr.open = Top.open, fr.current = Top.current,
           fr.inMatch = Top.inMatch, \A i \in DOMAIN fr.todo : IsFile(fr.todo[i]), stack' = Become(fr)
    PROVE  FilesOK' /\ StackOK' /\ FramesTrue' /\ PushedOnce' /\ Reported'
<1>0. PICK hf : hf = Top.file
  OBVIOUS
<1>1. Read(hf) /\ Top.pos <= Len(files[hf]) + 1 /\ 1 \in DOMAIN stack /\ Top = stack[1]
  BY <1>0, TopFacts, Zenon
<1>2. FrameTrue(fr, files[hf])
  BY <1>0, <1>1, Zenon DEF FramesTrue, FrameTrue
<1>3. /\ StackOK' /\ FramesTrue'
      /\ \A f \in Paths, i \in Nat : f # hf => (Passed(f, i)' <=> Passed(f, i)) /\ (Left(f, i)' <=> Left(f, i))
      /\ \A i \in Nat : /\ Passed(hf, i)' <=> i < fr.pos
                        /\ Left(hf, i)' <=> i < fr.pos /\ ~Governs(files[hf], i, fr.pos)
  BY <1>0, <1>1, <1>2, BecomeFacts
<1>4. \A i \in Nat : /\ Passed(hf, i) <=> i < Top.pos
                     /\ Left(hf, i) <=> i < Top.pos /\ ~Governs(files[hf], i, Top.pos)
  BY <1>0, TopDecides, Zenon
<1>6. \A f \in Paths, i \in Nat : (Passed(f, i)' <=> Passed(f, i)) /\ (Left(f, i)' <=> Left(f, i))
  BY <1>3, <1>4, Zenon
<1>7. \A f \in Paths : Read(f) => DOMAIN files[f] \subseteq Nat
  BY LinesOf
<1>8. PushedOnce'
  BY <1>6, NoBlockLeft, Zenon
<1>9. Reported'
  BY <1>6, <1>7, ReportedKept, Zenon
<1>10. FilesOK'
  BY DEF FilesOK
<1> QED
  BY <1>3, <1>8, <1>9, <1>10

\* Expanding an argument of an Include gives files that exist, or a warning.
LEMMA IncludeKeeps ==
    ASSUME ConfigInv, Include
    PROVE  ConfigInv'
<1>1. FilesOK /\ WarningsOK /\ StackOK /\ FramesTrue /\ PushedOnce /\ Reported
  BY DEF ConfigInv
<1>2. PICK named : named = GlobPaths(Head(Top.targets))
  OBVIOUS
<1>3. /\ stack # <<>> /\ Top.targets # <<>>
      /\ stack' = Become([Top EXCEPT !.targets = Tail(@), !.todo = named])
      /\ warnings' = warnings \cup IF named = <<>> THEN {Warn("unreadable", Top.file, Top.pos - 1)} ELSE {}
      /\ files' = files /\ visited' = visited /\ stanzas' = stanzas
  BY <1>2, Zenon DEF Include
<1>4. PICK top \in Frames : top = Top /\ top.file \in Paths /\ top.pos \in Nat \ {0}
  BY <1>1, <1>3, TopFacts, Zenon
<1>5. top.targets \in Seq(Targets) /\ top.targets # <<>>
  BY <1>3, <1>4 DEF Frames
<1>6. Head(top.targets) \in Targets /\ Tail(top.targets) \in Seq(Targets)
  BY <1>5
<1>7. named \in Seq(Paths) /\ \A i \in DOMAIN named : IsFile(named[i])
  BY <1>2, <1>4, <1>6, GlobPathsAreFiles, Zenon
<1>8. PICK fr : fr = [top EXCEPT !.targets = Tail(@), !.todo = named]
  OBVIOUS
<1>9. /\ fr \in Frames /\ fr.file = top.file /\ fr.pos = top.pos /\ fr.open = top.open /\ fr.current = top.current
      /\ fr.inMatch = top.inMatch /\ fr.todo = named
  BY <1>6, <1>7, <1>8 DEF Frames
<1>10. stack' = Become(fr) /\ warnings \subseteq warnings'
  BY <1>3, <1>4, <1>8
<1>11. FilesOK' /\ StackOK' /\ FramesTrue' /\ PushedOnce' /\ Reported'
  <2>1. (\A f : Read(f)' <=> Read(f)) /\ visited' \subseteq Paths
    BY <1>1, <1>3 DEF Read, FilesOK
  <2> QED
    BY <1>1, <1>3, <1>4, <1>7, <1>9, <1>10, <2>1, IncludeBecomes
<1>12. WarningsOK'
  <2>1. top.pos - 1 \in Nat
    BY <1>4
  <2>2. Warn("unreadable", top.file, top.pos - 1) \in [kind : {"match", "unreadable", "cycle", "unsupported"}, file : Paths, line : Nat]
    BY <1>4, <2>1 DEF Warn
  <2> QED
    BY <1>1, <1>3, <1>4, <2>2 DEF WarningsOK
<1> QED
  BY <1>11, <1>12 DEF ConfigInv

\* An included file is absorbed from its first line, or not at all.
LEMMA ParseIntoKeeps ==
    ASSUME ConfigInv, ParseInto
    PROVE  ConfigInv'
<1>1. FilesOK /\ WarningsOK /\ StackOK /\ FramesTrue /\ PushedOnce /\ Reported
  BY DEF ConfigInv
<1>2. PICK p : p = Head(Top.todo)
  OBVIOUS
<1>3. stack # <<>> /\ Top.todo # <<>> /\ files' = files /\ stanzas' = stanzas
  BY DEF ParseInto
<1>4. PICK top \in Frames : top = Top /\ top.file \in Paths /\ top.pos \in Nat \ {0}
  BY <1>1, <1>3, TopFacts, Zenon
<1>5. PICK fr : fr = [top EXCEPT !.todo = Tail(@)]
  OBVIOUS
<1>6. IF MayEnter(p)
      THEN /\ visited' = visited \cup {p}
           /\ stack' = IF files[p] = Unreadable THEN Become(fr) ELSE <<Frame(p)>> \o Become(fr)
           /\ warnings' = warnings
      ELSE /\ warnings' = warnings \cup {Warn("cycle", p, 0)} /\ stack' = Become(fr) /\ visited' = visited
  BY <1>2, <1>4, <1>5, Zenon DEF ParseInto, Visit
<1>7. top.todo \in Seq(Paths) /\ top.todo # <<>> /\ \A i \in DOMAIN top.todo : IsFile(top.todo[i])
  <2>1. top.todo \in Seq(Paths) /\ top.todo # <<>>
    BY <1>3, <1>4 DEF Frames
  <2>2. 1 \in DOMAIN stack /\ Top = stack[1]
    BY <1>1, <1>3, TopFacts, Zenon
  <2>3. \A i \in DOMAIN top.todo : IsFile(top.todo[i])
    BY <1>1, <1>4, <2>2, Zenon DEF StackOK
  <2> QED
    BY <2>1, <2>3
<1>8. PICK todo : todo = top.todo
  OBVIOUS
<1>9. /\ todo \in Seq(Paths) /\ todo # <<>> /\ Tail(todo) \in Seq(Paths) /\ Head(todo) = todo[1] /\ 1 \in DOMAIN todo
      /\ \A i \in DOMAIN Tail(todo) : i + 1 \in DOMAIN todo /\ Tail(todo)[i] = todo[i + 1]
  BY <1>7, <1>8
<1>10. p \in Paths /\ IsFile(p)
  BY <1>2, <1>4, <1>7, <1>8, <1>9
<1>11. \A i \in DOMAIN Tail(todo) : IsFile(Tail(todo)[i])
  BY <1>7, <1>8, <1>9, Zenon
<1>12. /\ fr \in Frames /\ fr.file = top.file /\ fr.pos = top.pos /\ fr.open = top.open /\ fr.current = top.current
       /\ fr.inMatch = top.inMatch /\ fr.todo = Tail(todo)
  BY <1>5, <1>8, <1>9 DEF Frames
<1>13. \A i \in DOMAIN fr.todo : IsFile(fr.todo[i])
  BY <1>11, <1>12, Zenon
<1>14. CASE ~MayEnter(p)
  <2>1. /\ warnings' = warnings \cup {Warn("cycle", p, 0)} /\ stack' = Become(fr) /\ visited' = visited
    BY <1>6, <1>14
  <2>2. FilesOK' /\ StackOK' /\ FramesTrue' /\ PushedOnce' /\ Reported'
    <3>1. (\A f : Read(f)' <=> Read(f)) /\ visited' \subseteq Paths /\ warnings \subseteq warnings'
      BY <1>1, <1>3, <2>1 DEF Read, FilesOK
    <3> QED
      BY <1>1, <1>3, <1>4, <1>12, <1>13, <2>1, <3>1, IncludeBecomes
  <2>3. Warn("cycle", p, 0) \in [kind : {"match", "unreadable", "cycle", "unsupported"}, file : Paths, line : Nat]
    BY <1>10 DEF Warn
  <2>4. WarningsOK'
    BY <1>1, <2>1, <2>3 DEF WarningsOK
  <2> QED
    BY <2>2, <2>4 DEF ConfigInv
<1>15. CASE MayEnter(p) /\ files[p] = Unreadable
  <2>1. visited' = visited \cup {p} /\ stack' = Become(fr) /\ warnings' = warnings
    BY <1>6, <1>15
  <2>2. \A f : Read(f)' <=> Read(f)
    BY <1>3, <1>15, <2>1 DEF Read
  <2>3. FilesOK' /\ StackOK' /\ FramesTrue' /\ PushedOnce' /\ Reported'
    <3>1. visited' \subseteq Paths /\ warnings \subseteq warnings'
      BY <1>1, <1>10, <2>1 DEF FilesOK
    <3> QED
      BY <1>1, <1>3, <1>4, <1>12, <1>13, <2>1, <2>2, <3>1, IncludeBecomes
  <2>4. WarningsOK'
    BY <1>1, <2>1 DEF WarningsOK
  <2> QED
    BY <2>3, <2>4 DEF ConfigInv
<1>16. CASE MayEnter(p) /\ files[p] # Unreadable
  <2>1. /\ visited' = visited \cup {p} /\ p \notin visited /\ warnings' = warnings
        /\ stack' = <<Frame(p)>> \o Become(fr) /\ files[p] \notin {Missing, Unreadable}
    BY <1>6, <1>10, <1>16 DEF MayEnter, IsFile
  <2>2. FrameTrue(fr, files[fr.file])
    <3>1. 1 \in DOMAIN stack /\ Top = stack[1]
      BY <1>1, <1>3, TopFacts, Zenon
    <3>2. FrameTrue(top, files[top.file])
      BY <1>1, <1>4, <3>1, Zenon DEF FramesTrue
    <3> QED
      BY <1>12, <3>2, Zenon DEF FrameTrue
  <2>3. /\ StackOK' /\ FramesTrue'
        /\ \A f \in Paths, i \in Nat : f # p => (Passed(f, i)' <=> Passed(f, i)) /\ (Left(f, i)' <=> Left(f, i))
        /\ \A i \in Nat \ {0} : ~Passed(p, i)' /\ ~Left(p, i)'
    BY <1>1, <1>3, <1>4, <1>10, <1>12, <1>13, <2>1, <2>2, PushFacts
  <2>4. (\A f : f # p => (Read(f)' <=> Read(f))) /\ ~Read(p)
    BY <1>3, <2>1 DEF Read
  <2>5. DOMAIN files[p] \subseteq Nat \ {0}
    <3>1. files[p] \in Seq(Directives)
      BY <1>1, <1>10, <2>1, DisksAssumption DEF FilesOK
    <3> QED
      BY <3>1
  <2>6. PushedOnce'
    <3>1. ASSUME NEW f \in Paths, NEW g \in Nat, g \in DOMAIN files[f]
          PROVE  Read(f)' /\ Left(f, g)' <=> Read(f) /\ Left(f, g)
      BY <2>3, <2>4, <2>5, <3>1, Zenon
    <3> QED
      BY <1>1, <1>3, <3>1, NoBlockLeft, Zenon
  <2>7. Reported'
    <3>1. ASSUME NEW f \in Paths, Read(f)', NEW i \in DOMAIN files[f], Passed(f, i)'
          PROVE  Read(f) /\ Passed(f, i)
      <4>1. f # p
        BY <2>3, <2>5, <3>1, Zenon
      <4>2. Read(f)
        BY <2>4, <3>1, <4>1, Zenon
      <4>3. i \in Nat
        BY <1>1, <3>1, <4>2, LinesOf
      <4> QED
        BY <2>3, <3>1, <4>1, <4>2, <4>3, Zenon
    <3> QED
      BY <1>1, <1>3, <2>1, <3>1, ReportedKept, Zenon
  <2>8. FilesOK' /\ WarningsOK'
    BY <1>1, <1>3, <1>10, <2>1 DEF FilesOK, WarningsOK
  <2> QED
    BY <2>3, <2>6, <2>7, <2>8 DEF ConfigInv
<1> QED
  BY <1>14, <1>15, <1>16

-----------------------------------------------------------------------------
(* The invariant.                                                           *)

\* Before anything is pushed there is nothing to come from anywhere.
LEMMA NothingPushed ==
    ASSUME NEW fs
    PROVE  \E o : Origin(o, <<>>, fs, {})
<1>1. PICK o : o = [n \in 1 .. 0 |-> n]
  OBVIOUS
<1>2. 1 .. 0 = {} /\ Len(<<>>) = 0
  OBVIOUS
<1>3. o \in [1 .. 0 -> {}]
  BY <1>1, <1>2
<1>4. Origin(o, <<>>, fs, {})
  BY <1>2, <1>3, Zenon DEF Origin
<1> QED
  BY <1>4

\* The scan starts with the invariant.
LEMMA ConfigInit == ScanInit => ConfigInv
<1> SUFFICES ASSUME ScanInit PROVE ConfigInv
  OBVIOUS
<1>1. files \in Disks /\ visited = {Main} /\ stanzas = <<>> /\ warnings = {}
  BY DEF ScanInit
<1>2. FilesOK /\ WarningsOK /\ Main \in Paths
  BY <1>1, ConfigAssumption DEF FilesOK, WarningsOK
<1>3. PICK new : new = Frame(Main)
  OBVIOUS
<1>4. new \in Frames /\ new.file = Main /\ new.pos = 1 /\ new.todo = <<>> /\ FrameTrue(new, files[Main])
  BY <1>2, <1>3, NewFrame
<1>5. \/ stack = <<>> /\ ~Read(Main)
      \/ stack = <<new>> /\ Read(Main)
  BY <1>1, <1>3, Zenon DEF ScanInit, Read
<1>6. \A f : Read(f) => f = Main
  BY <1>1 DEF Read
<1>7. CASE stack = <<>> /\ ~Read(Main)
  <2>1. DOMAIN stack = {} /\ stack \in Seq(Frames)
    BY <1>7
  <2>2. StackOK /\ FramesTrue /\ Reported
    BY <1>6, <1>7, <2>1, Zenon DEF StackOK, FramesTrue, Reported
  <2>3. Closed = {}
    BY <1>6, <1>7, Zenon DEF Closed
  <2> QED
    BY <1>1, <1>2, <2>2, <2>3, NothingPushed, Zenon DEF ConfigInv, PushedOnce
<1>8. CASE stack = <<new>> /\ Read(Main)
  <2>1. DOMAIN stack = {1} /\ stack \in Seq(Frames) /\ stack[1] = new
    BY <1>4, <1>8
  <2>2. files[Main] \in Seq(Directives) /\ 1 <= Len(files[Main]) + 1 /\ DOMAIN files[Main] \subseteq Nat \ {0}
    BY <1>2, <1>8, LinesOf
  <2>3. \A i \in DOMAIN <<>> : FALSE
    OBVIOUS
  <2>4. StackOK
    BY <1>4, <1>8, <2>1, <2>2, <2>3, Zenon DEF StackOK
  <2>5. FramesTrue
    BY <1>4, <2>1, Zenon DEF FramesTrue
  <2>6. \A i \in Nat \ {0} : ~(i < 1)
    OBVIOUS
  <2>7. \A i \in Nat \ {0} : ~Passed(Main, i) /\ ~Left(Main, i)
    BY <1>4, <2>1, <2>6, Zenon DEF Passed, Left
  <2>8. Reported
    BY <1>6, <2>2, <2>7, Zenon DEF Reported
  <2>9. Closed = {}
    BY <1>6, <2>2, <2>7, Zenon DEF Closed
  <2> QED
    BY <1>1, <1>2, <2>4, <2>5, <2>8, <2>9, NothingPushed, Zenon DEF ConfigInv, PushedOnce
<1> QED
  BY <1>5, <1>7, <1>8

\* Every step of the scan keeps the invariant.
LEMMA ConfigNext == ConfigInv /\ [ScanNext]_scanVars => ConfigInv'
<1> SUFFICES ASSUME ConfigInv, [ScanNext]_scanVars PROVE ConfigInv'
  OBVIOUS
<1>1. CASE UNCHANGED scanVars
  <2>1. files' = files /\ stack' = stack /\ visited' = visited /\ stanzas' = stanzas /\ warnings' = warnings
    BY <1>1 DEF scanVars
  <2>2. /\ \A f : (Read(f)' <=> Read(f)) /\ (IsFile(f)' <=> IsFile(f))
        /\ \A f, i : (Passed(f, i)' <=> Passed(f, i)) /\ (Left(f, i)' <=> Left(f, i)) /\ (Listed(f, i)' <=> Listed(f, i))
    BY <2>1, Zenon DEF Read, IsFile, Passed, Left, Listed
  <2>3. Closed' = Closed
    BY <2>1, <2>2 DEF Closed
  <2>4. FilesOK' /\ WarningsOK'
    BY <2>1 DEF ConfigInv, FilesOK, WarningsOK
  <2>5. StackOK' /\ FramesTrue'
    BY <2>1, <2>2, Zenon DEF ConfigInv, StackOK, FramesTrue
  <2>6. PushedOnce' /\ Reported'
    BY <2>1, <2>2, <2>3, Zenon DEF ConfigInv, PushedOnce, Reported
  <2> QED
    BY <2>4, <2>5, <2>6 DEF ConfigInv
<1>2. CASE ScanNext
  BY <1>1, <1>2, HostLineKeeps, MatchLineKeeps, IncludeLineKeeps, IncludeKeeps, ParseIntoKeeps, SettingLineKeeps,
     UnsupportedLineKeeps, EndOfFileKeeps, Zenon DEF ScanNext, Done
<1> QED
  BY <1>1, <1>2

\* The invariant holds throughout.
LEMMA ConfigAlways == ScanSpec => []ConfigInv
BY ConfigInit, ConfigNext, PTL DEF ScanSpec

-----------------------------------------------------------------------------
(* What the invariant says once the stack is empty.                         *)

\* A set of numbers that are all at most n has a largest one, and Max finds it.
LEMMA MaxOfBounded ==
    ASSUME NEW n \in Nat, NEW S, S \subseteq 0 .. n, S # {}
    PROVE  Max(S) \in S /\ \A y \in S : Max(S) >= y
<1> DEFINE Bounds == {u \in Nat : \A y \in S : u >= y}
<1> DEFINE Less == {ss \in Nat \X Nat : ss[1] < ss[2]}
<1>1. n \in Bounds /\ Bounds \subseteq Nat
  OBVIOUS
<1>0. IsWellFoundedOn(Less, Nat)
  BY NatLessThanWellFounded, Zenon DEF OpToRel
<1> HIDE DEF Bounds, Less
<1>2. PICK m \in Bounds : \A u \in Bounds : ~ (<<u, m>> \in Less)
  BY <1>0, <1>1, WFMin, Zenon
<1> USE DEF Bounds, Less
<1>3. ASSUME NEW u \in Bounds, u < m
      PROVE  FALSE
  <2>1. u \in Nat /\ m \in Nat
    OBVIOUS
  <2>2. <<u, m>>[1] = u /\ <<u, m>>[2] = m /\ <<u, m>> \in Nat \X Nat
    BY <2>1
  <2>3. <<u, m>> \in Less
    BY <1>3, <2>2
  <2> QED
    BY <1>2, <2>3, Zenon
<1>4. m \in S
  <2>1. SUFFICES ASSUME m \notin S PROVE FALSE
    OBVIOUS
  <2>2. PICK y \in S : y \in Nat /\ y <= m
    <3>1. PICK y \in S : TRUE
      OBVIOUS
    <3>2. y \in Nat /\ m >= y
      BY <3>1
    <3> QED
      BY <3>1, <3>2
  <2>3. m - 1 \in Nat /\ \A z \in S : m - 1 >= z
    BY <2>1, <2>2
  <2>4. m - 1 \in Bounds
    BY <2>3
  <2> QED
    BY <1>3, <2>3, <2>4
<1>5. \E x \in S : \A y \in S : x >= y
  BY <1>4
<1> QED
  BY <1>5 DEF Max

\* Governor finds the line that governs, where there is one.
LEMMA GovernorGoverns ==
    ASSUME FilesOK, NEW f, Read(f), NEW i \in DOMAIN files[f]
    PROVE  /\ Governor(f, i) # 0 => Governor(f, i) \in DOMAIN files[f] /\ Governs(files[f], Governor(f, i), i)
           /\ \A g \in Nat : Governs(files[f], g, i) => Governor(f, i) = g /\ g # 0
<1>1. PICK lines \in Seq(Directives) : lines = files[f] /\ Len(lines) \in Nat /\ DOMAIN lines = 1 .. Len(lines)
  BY LinesOf
<1>2. PICK heads : heads = {j \in 1 .. i - 1 : lines[j].kw \in Headers}
  OBVIOUS
<1>3. i \in Nat /\ i - 1 \in Nat /\ heads \subseteq 0 .. i - 1 /\ heads \subseteq 1 .. i - 1 /\ i \in 1 .. Len(lines)
  BY <1>1, <1>2
<1>4. PICK m : m = Max(heads)
  OBVIOUS
<1>5. Governor(f, i) = IF heads # {} /\ lines[m].kw = "host" THEN m ELSE 0
  BY <1>1, <1>2, <1>4, Zenon DEF Governor
<1>6. heads # {} => m \in heads /\ \A y \in heads : m >= y
  BY <1>3, <1>4, MaxOfBounded
<1>7. ASSUME Governor(f, i) # 0
      PROVE  Governor(f, i) \in DOMAIN files[f] /\ Governs(files[f], Governor(f, i), i)
  <2>1. heads # {} /\ lines[m].kw = "host" /\ Governor(f, i) = m
    BY <1>5, <1>7
  <2>2. m \in 1 .. i - 1 /\ \A y \in heads : m >= y
    BY <1>3, <1>6, <2>1
  <2>3. m \in DOMAIN lines
    BY <1>1, <1>3, <2>2
  <2>4. \A j \in m + 1 .. i - 1 : lines[j].kw \notin Headers
    BY <1>2, <1>3, <2>2
  <2>5. Governs(lines, m, i)
    BY <2>1, <2>2, <2>4 DEF Governs
  <2> QED
    BY <1>1, <2>1, <2>3, <2>5
<1>8. ASSUME NEW g \in Nat, Governs(lines, g, i)
      PROVE  Governor(f, i) = g /\ g # 0
  <2>1. g \in 1 .. i - 1 /\ lines[g].kw = "host" /\ \A j \in g + 1 .. i - 1 : lines[j].kw \notin Headers
    BY <1>8 DEF Governs
  <2>2. g \in heads
    BY <1>2, <2>1 DEF Headers
  <2>3. m \in heads /\ m >= g
    BY <1>6, <2>2
  <2>4. m = g
    BY <1>2, <1>3, <2>1, <2>3
  <2> QED
    BY <1>5, <2>1, <2>2, <2>4
<1> QED
  BY <1>1, <1>7, <1>8

\* A finished scan has passed every line and left every block.
LEMMA AllPassed ==
    ASSUME stack = <<>>
    PROVE  \A f, i : Passed(f, i) /\ Left(f, i)
<1>1. DOMAIN stack = {}
  OBVIOUS
<1> QED
  BY <1>1, Zenon DEF Passed, Left

\* Once the scan has ended, what had to be listed is.
LEMMA ListedAtEnd ==
    ASSUME ConfigInv
    PROVE  ListedInHosts
<1>1. FilesOK /\ Reported
  BY DEF ConfigInv
<1>2. SUFFICES ASSUME stack = <<>>, NEW f \in Paths, Read(f), NEW i \in DOMAIN files[f]
      PROVE  /\ files[f][i].kw = "match" => Warn("match", f, i) \in warnings
             /\ files[f][i].kw = "unsupported" /\ Governor(f, i) # 0 => Warn("unsupported", f, i) \in warnings
  BY Zenon DEF ListedInHosts
<1>3. Listed(f, i)
  BY <1>1, <1>2, AllPassed, Zenon DEF Reported
<1>4. Governor(f, i) # 0 => \E g \in DOMAIN files[f] : Governs(files[f], g, i)
  BY <1>1, <1>2, GovernorGoverns, Zenon
<1> QED
  BY <1>3, <1>4, Zenon DEF Listed

\* At the end the stanzas and the blocks of the files read are one to one.
LEMMA BlocksAtEnd ==
    ASSUME ConfigInv
    PROVE  EachBlockOnce
<1>1. FilesOK /\ PushedOnce
  BY DEF ConfigInv
<1> DEFINE blocks == UNION {{<<f, i>> : i \in {j \in DOMAIN files[f] : files[f][j].kw = "host" /\ files[f][j].args # <<>>}} :
                         f \in {g \in Paths : Read(g)}}
<1> SUFFICES ASSUME stack = <<>>
             PROVE  /\ Len(stanzas) = Cardinality(blocks)
                    /\ Offered = UNION {ConcreteNames(files[b[1]][b[2]].args) : b \in blocks}
  BY Zenon DEF EachBlockOnce
<1>2. ASSUME NEW b
      PROVE  b \in blocks <=> b \in Closed
  <2>1. ASSUME b \in blocks PROVE b \in Closed
    <3>0. PICK f \in Paths : Read(f) /\ b \in {<<f, i>> : i \in {j \in DOMAIN files[f] : files[f][j].kw = "host" /\ files[f][j].args # <<>>}}
      BY <2>1, Zenon
    <3>1. PICK i \in DOMAIN files[f] :
            Read(f) /\ files[f][i].kw = "host" /\ files[f][i].args # <<>> /\ b = <<f, i>>
      BY <3>0, Zenon
    <3>2. i \in Nat
      BY <1>1, <3>1, LinesOf
    <3>3. b \in Paths \X Nat /\ b[1] = f /\ b[2] = i
      BY <3>1, <3>2
    <3> QED
      BY <3>1, <3>3, AllPassed, Zenon DEF Closed
  <2>2. ASSUME b \in Closed PROVE b \in blocks
    <3>1. /\ b \in Paths \X Nat /\ Read(b[1]) /\ b[2] \in DOMAIN files[b[1]]
          /\ files[b[1]][b[2]].kw = "host" /\ files[b[1]][b[2]].args # <<>>
      BY <2>2, Zenon DEF Closed
    <3>2. PICK f \in Paths, i \in Nat : b = <<f, i>> /\ f = b[1] /\ i = b[2]
      BY <3>1
    <3>3. <<f, i>> \in {<<f, k>> : k \in {j \in DOMAIN files[f] : files[f][j].kw = "host" /\ files[f][j].args # <<>>}}
      BY <3>1, <3>2, Zenon
    <3>4. f \in {g \in Paths : Read(g)}
      BY <3>1, <3>2, Zenon
    <3> QED
      BY <3>2, <3>3, <3>4, Zenon
  <2> QED
    BY <2>1, <2>2
<1>3. blocks = Closed
  BY <1>2, Zenon
<1> HIDE DEF blocks
<1>4. PICK o : Origin(o, stanzas, files, blocks)
  BY <1>1, <1>3, Zenon DEF PushedOnce
<1>5. PICK N \in Nat : N = Len(stanzas) /\ DOMAIN stanzas = 1 .. N
  BY <1>1 DEF FilesOK
<1>6. /\ o \in [1 .. N -> blocks] /\ blocks \subseteq {o[n] : n \in 1 .. N}
      /\ \A m, n \in 1 .. N : m < n /\ o[m][1] = o[n][1] => o[m][2] < o[n][2]
      /\ \A n \in 1 .. N : stanzas[n].patterns = files[o[n][1]][o[n][2]].args
  BY <1>4, <1>5, Zenon DEF Origin, Described
<1>7. \A b \in blocks : b[2] \in Nat
  BY <1>3 DEF Closed
<1>8. ASSUME NEW m \in 1 .. N, NEW n \in 1 .. N, o[m] = o[n]
      PROVE  m = n
  <2>1. o[m][2] \in Nat /\ o[n][2] \in Nat
    BY <1>6, <1>7
  <2>2. ~(o[m][2] < o[n][2]) /\ ~(o[n][2] < o[m][2])
    BY <1>8, <2>1
  <2>3. ~(m < n) /\ ~(n < m)
    BY <1>6, <1>8, <2>2, Zenon
  <2> QED
    BY <2>3
<1>9. Cardinality(blocks) = N
  <2>1. o \in Bijection(1 .. N, blocks)
    BY <1>6, <1>8 DEF Bijection, Injection, Surjection, IsInjective
  <2>2. ExistsBijection(1 .. N, blocks)
    BY <2>1, Zenon DEF ExistsBijection
  <2> QED
    BY <2>2, FS_CountingElements
<1>10. ASSUME NEW x
       PROVE  x \in Offered <=> x \in UNION {ConcreteNames(files[b[1]][b[2]].args) : b \in blocks}
  <2>1. ASSUME x \in Offered PROVE x \in UNION {ConcreteNames(files[b[1]][b[2]].args) : b \in blocks}
    <3>1. PICK n \in 1 .. N : x \in ConcreteNames(stanzas[n].patterns)
      BY <1>5, <2>1, Zenon DEF Offered
    <3>2. PICK b \in blocks : b = o[n]
      BY <1>6
    <3>3. x \in ConcreteNames(files[b[1]][b[2]].args)
      BY <1>6, <3>1, <3>2, Zenon
    <3> QED
      BY <3>3, Zenon
  <2>2. ASSUME x \in UNION {ConcreteNames(files[b[1]][b[2]].args) : b \in blocks} PROVE x \in Offered
    <3>1. PICK b \in blocks : x \in ConcreteNames(files[b[1]][b[2]].args)
      BY <2>2, Zenon
    <3>2. PICK n \in 1 .. N : b = o[n]
      BY <1>6, Zenon
    <3>3. x \in ConcreteNames(stanzas[n].patterns)
      BY <1>6, <3>1, <3>2, Zenon
    <3> QED
      BY <1>5, <3>3, Zenon DEF Offered
  <2> QED
    BY <2>1, <2>2
<1>11. Offered = UNION {ConcreteNames(files[b[1]][b[2]].args) : b \in blocks}
  BY <1>10, Zenon
<1> QED
  BY <1>5, <1>9, <1>11, Zenon

\* Every Host block of a file that was read is imported once, whatever the files
\* include, and every Match line and unknown keyword of a Host block is listed.
THEOREM BlocksAccountedAlways == ScanSpec => []BlocksAccounted
<1>1. ConfigInv => BlocksAccounted
  BY ListedAtEnd, BlocksAtEnd DEF BlocksAccounted
<1> QED
  BY <1>1, ConfigAlways, PTL

-----------------------------------------------------------------------------
(* resolve.                                                                 *)

Fills(f, alias, n) ==
    IF n = 0 THEN [k \in Keywords |-> None]
    ELSE IF Matches(stanzas[n], alias) THEN InheritFrom(f[n - 1], stanzas[n].set)
    ELSE f[n - 1]
Filled(f, alias, m) == f = [n \in 0 .. m |-> Fills(f, alias, n)]

\* The recursion of resolve has a solution.
LEMMA FilledExists ==
    ASSUME NEW alias, NEW n \in Nat
    PROVE  \E f : Filled(f, alias, n)
<1> DEFINE P == {m \in Nat : \E f : Filled(f, alias, m)}
<1>1. 0 \in P
  <2>1. PICK f : f = [i \in 0 .. 0 |-> [k \in Keywords |-> None]]
    OBVIOUS
  <2>2. \A i \in 0 .. 0 : Fills(f, alias, i) = [k \in Keywords |-> None]
    BY DEF Fills
  <2>3. Filled(f, alias, 0)
    BY <2>1, <2>2 DEF Filled
  <2> QED
    BY <2>3
<1>2. ASSUME NEW m \in Nat, m \in P
      PROVE  m + 1 \in P
  <2>1. PICK f : Filled(f, alias, m)
    BY <1>2
  <2>2. PICK g : g = [i \in 0 .. m + 1 |-> IF i = m + 1 THEN Fills(f, alias, m + 1) ELSE f[i]]
    OBVIOUS
  <2>3. ASSUME NEW i \in 0 .. m + 1
        PROVE  g[i] = Fills(g, alias, i)
    <3>1. i \in Nat /\ (i # 0 => i - 1 \in 0 .. m + 1 /\ i - 1 # m + 1)
      OBVIOUS
    <3>2. i # 0 => g[i - 1] = f[i - 1]
      BY <2>2, <3>1
    <3>3. Fills(g, alias, i) = Fills(f, alias, i)
      BY <3>1, <3>2, Zenon DEF Fills
    <3>4. i # m + 1 => i \in 0 .. m
      OBVIOUS
    <3>5. i \in 0 .. m => f[i] = Fills(f, alias, i)
      BY <2>1, Zenon DEF Filled
    <3>6. g[i] = IF i = m + 1 THEN Fills(f, alias, m + 1) ELSE f[i]
      BY <2>2, Zenon
    <3> QED
      BY <3>3, <3>4, <3>5, <3>6, Zenon
  <2>4. g = [i \in 0 .. m + 1 |-> g[i]]
    BY <2>2, Zenon
  <2>5. Filled(g, alias, m + 1)
    BY <2>3, <2>4, Zenon DEF Filled
  <2>6. m + 1 \in Nat
    OBVIOUS
  <2> QED
    BY <2>5, <2>6, Zenon
<1>3. Nat \subseteq P
  <2> HIDE DEF P
  <2> QED
    BY <1>1, <1>2, SetInduction, Zenon
<1> QED
  BY <1>3, Zenon

\* v is what the first n stanzas give k: the value of the first of them that
\* covers the alias and sets it, or nothing.
FirstOf(v, alias, k, n) ==
    \/ v = None /\ \A j \in 1 .. n : Matches(stanzas[j], alias) => stanzas[j].set[k] = None
    \/ \E i \in 1 .. n : /\ Matches(stanzas[i], alias) /\ stanzas[i].set[k] = v /\ v # None
                         /\ \A j \in 1 .. i - 1 : Matches(stanzas[j], alias) => stanzas[j].set[k] = None

\* inherit_from over the stanzas in turn keeps, of every keyword, the first value.
LEMMA ResolveFirst ==
    ASSUME NEW alias, FilesOK, NEW k \in Keywords
    PROVE  FirstOf(Resolve(alias)[k], alias, k, Len(stanzas))
<1>0. PICK N \in Nat : N = Len(stanzas)
  BY DEF FilesOK
<1> DEFINE f == CHOOSE f : Filled(f, alias, N)
<1>2. Filled(f, alias, N)
  BY FilledExists, Zenon
<1>3. Resolve(alias) = f[N]
  BY <1>0, Zenon DEF Resolve, Filled, Fills
<1> HIDE DEF f
<1>4. \A n \in 0 .. N : f[n] = Fills(f, alias, n)
  BY <1>2, Zenon DEF Filled
<1> DEFINE P == {n \in Nat : n <= N => FirstOf(f[n][k], alias, k, n)}
<1>5. 0 \in P
  <2>1. 0 \in 0 .. N /\ \A j \in 1 .. 0 : FALSE
    OBVIOUS
  <2>2. f[0] = [kk \in Keywords |-> None]
    BY <1>4, <2>1, Zenon DEF Fills
  <2>3. f[0][k] = None
    BY <2>2
  <2>4. FirstOf(f[0][k], alias, k, 0)
    BY <2>1, <2>3, Zenon DEF FirstOf
  <2> QED
    BY <2>4
<1>6. ASSUME NEW n \in Nat, n \in P
      PROVE  n + 1 \in P
  <2>1. SUFFICES ASSUME n + 1 <= N PROVE FirstOf(f[n + 1][k], alias, k, n + 1)
    OBVIOUS
  <2>2. PICK m \in 0 .. N : m = n + 1 /\ m # 0 /\ m - 1 = n /\ m \in 1 .. N
    BY <2>1
  <2>3. FirstOf(f[n][k], alias, k, n)
    BY <1>6, <2>1
  <2>4. f[m] = IF Matches(stanzas[m], alias) THEN InheritFrom(f[n], stanzas[m].set) ELSE f[n]
    BY <1>4, <2>2, Zenon DEF Fills
  <2>5. f[m][k] = IF Matches(stanzas[m], alias) /\ f[n][k] = None THEN stanzas[m].set[k] ELSE f[n][k]
    BY <2>4 DEF InheritFrom
  <2>6. /\ \A j \in 1 .. n : j \in 1 .. m
        /\ \A j \in 1 .. m : j \in 1 .. n \/ j = m
        /\ m \in 1 .. m /\ \A j \in 1 .. m - 1 : j \in 1 .. n
    BY <2>2
  <2>7. CASE f[n][k] # None
    <3>1. f[m][k] = f[n][k]
      BY <2>5, <2>7, Zenon
    <3>2. PICK i \in 1 .. n : /\ Matches(stanzas[i], alias) /\ stanzas[i].set[k] = f[n][k] /\ f[n][k] # None
                              /\ \A j \in 1 .. i - 1 : Matches(stanzas[j], alias) => stanzas[j].set[k] = None
      BY <2>3, <2>7, Zenon DEF FirstOf
    <3>3. FirstOf(f[m][k], alias, k, m)
      BY <2>6, <3>1, <3>2, Zenon DEF FirstOf
    <3> QED
      BY <2>2, <3>3, Zenon
  <2>8. CASE f[n][k] = None
    <3>1. \A j \in 1 .. n : Matches(stanzas[j], alias) => stanzas[j].set[k] = None
      BY <2>3, <2>8, Zenon DEF FirstOf
    <3>2. CASE Matches(stanzas[m], alias) /\ stanzas[m].set[k] # None
      <4>1. f[m][k] = stanzas[m].set[k]
        BY <2>5, <2>8, <3>2, Zenon
      <4>2. FirstOf(f[m][k], alias, k, m)
        BY <2>6, <3>1, <3>2, <4>1, Zenon DEF FirstOf
      <4> QED
        BY <2>2, <4>2, Zenon
    <3>3. CASE Matches(stanzas[m], alias) => stanzas[m].set[k] = None
      <4>1. f[m][k] = None
        BY <2>5, <2>8, <3>3, Zenon
      <4>2. FirstOf(f[m][k], alias, k, m)
        BY <2>6, <3>1, <3>3, <4>1, Zenon DEF FirstOf
      <4> QED
        BY <2>2, <4>2, Zenon
    <3> QED
      BY <3>2, <3>3, Zenon
  <2> QED
    BY <2>7, <2>8
<1>7. Nat \subseteq P
  <2> HIDE DEF P
  <2> QED
    BY <1>5, <1>6, SetInduction, Zenon
<1>8. FirstOf(f[N][k], alias, k, N)
  BY <1>7
<1> QED
  BY <1>0, <1>3, <1>8, Zenon

\* The state of the parser has its shape.
LEMMA ConfigTyped ==
    ASSUME ConfigInv
    PROVE  ScanTypeOK
<1>1. FilesOK /\ WarningsOK /\ StackOK
  BY DEF ConfigInv
<1>2. DOMAIN files = Paths /\ visited \subseteq Paths
  BY <1>1, DisksAssumption DEF FilesOK
<1>3. ASSUME NEW i \in DOMAIN stack
      PROVE  stack[i].file \in visited /\ stack[i].pos \in Nat
  <2>1. stack[i] \in Frames /\ Read(stack[i].file)
    BY <1>1 DEF StackOK
  <2> QED
    BY <2>1 DEF Frames, Read
<1>4. ASSUME NEW i \in DOMAIN stanzas
      PROVE  stanzas[i].set \in [Keywords -> Values \cup {None}]
  <2>1. stanzas[i] \in StanzaRecords
    BY <1>1 DEF FilesOK
  <2> QED
    BY <2>1 DEF StanzaRecords
<1> QED
  BY <1>1, <1>2, <1>3, <1>4, Zenon DEF ScanTypeOK, WarningsOK

\* A line sets k for an alias when the block it lies in covers the alias and
\* the line gives k a value.
LEMMA SetsInBlock ==
    ASSUME FilesOK, NEW f, Read(f), NEW i \in DOMAIN files[f], NEW k, NEW alias
    PROVE  Sets(f, i, k, alias) <=>
             \E g \in DOMAIN files[f] : /\ Governs(files[f], g, i) /\ Gives(files[f], i, k)
                                        /\ ListMatches(files[f][g].args, {alias})
<1>1. /\ Governor(f, i) # 0 => Governor(f, i) \in DOMAIN files[f] /\ Governs(files[f], Governor(f, i), i)
      /\ \A g \in Nat : Governs(files[f], g, i) => Governor(f, i) = g /\ g # 0
  BY GovernorGoverns, Zenon
<1>2. DOMAIN files[f] \subseteq Nat
  BY LinesOf
<1>3. ASSUME Sets(f, i, k, alias)
      PROVE  \E g \in DOMAIN files[f] : /\ Governs(files[f], g, i) /\ Gives(files[f], i, k)
                                        /\ ListMatches(files[f][g].args, {alias})
  BY <1>1, <1>3, Zenon DEF Sets, Gives
<1>4. ASSUME NEW g \in DOMAIN files[f], Governs(files[f], g, i), Gives(files[f], i, k), ListMatches(files[f][g].args, {alias})
      PROVE  Sets(f, i, k, alias)
  <2>1. Governor(f, i) = g /\ g # 0
    BY <1>1, <1>2, <1>4, Zenon
  <2> QED
    BY <1>4, <2>1, Zenon DEF Sets, Gives
<1> QED
  BY <1>3, <1>4, Zenon

\* FirstIn is the first line, where there is one.
LEMMA FirstInIs ==
    ASSUME FilesOK, NEW f, Read(f), NEW k, NEW alias, NEW i \in DOMAIN files[f], Sets(f, i, k, alias),
           \A j \in 1 .. i - 1 : ~Sets(f, j, k, alias)
    PROVE  FirstIn(f, k, alias) = i
<1>1. PICK N \in Nat : DOMAIN files[f] = 1 .. N
  BY LinesOf
<1>2. ASSUME NEW h \in DOMAIN files[f], Sets(f, h, k, alias), \A j \in 1 .. h - 1 : ~Sets(f, j, k, alias)
      PROVE  h = i
  <2>1. h \in Nat /\ i \in Nat /\ 1 <= h /\ 1 <= i
    BY <1>1
  <2>2. ~(h \in 1 .. i - 1) /\ ~(i \in 1 .. h - 1)
    BY <1>2, Zenon
  <2> QED
    BY <2>1, <2>2
<1> QED
  BY <1>2, Zenon DEF FirstIn

\* A stanza that covers the alias and sets k stands for a line of its block that
\* sets k for the alias, and one of the two can only be missing with the other.
LEMMA StanzaSets ==
    ASSUME FilesOK, NEW f, Read(f), NEW g \in DOMAIN files[f], NEW st, NEW k \in Keywords, NEW alias,
           Described(st, files[f], g, Len(files[f]) + 1), Matches(st, alias)
    PROVE  /\ st.set[k] = None =>
                \A i \in DOMAIN files[f] : Governs(files[f], g, i) => ~Sets(f, i, k, alias)
           /\ st.set[k] # None =>
                \E i \in DOMAIN files[f] : /\ g < i /\ Governs(files[f], g, i) /\ Sets(f, i, k, alias)
                                           /\ st.set[k] = files[f][i].args[1]
                                           /\ \A j \in g + 1 .. i - 1 : ~Sets(f, j, k, alias)
<1>1. PICK N \in Nat : DOMAIN files[f] = 1 .. N /\ N = Len(files[f])
  BY LinesOf
<1>2. g \in Nat /\ g + 1 .. N + 1 - 1 \subseteq DOMAIN files[f]
  BY <1>1
<1>3. st.patterns = files[f][g].args /\ ListMatches(files[f][g].args, {alias})
  BY Zenon DEF Described, Matches
<1>4. IF st.set[k] = None THEN \A i \in g + 1 .. N + 1 - 1 : Governs(files[f], g, i) => ~Gives(files[f], i, k)
      ELSE \E i \in g + 1 .. N + 1 - 1 :
                /\ Governs(files[f], g, i) /\ Gives(files[f], i, k) /\ st.set[k] = files[f][i].args[1]
                /\ \A j \in g + 1 .. i - 1 : ~Gives(files[f], j, k)
  <2>1. PICK p : p = N + 1 /\ Described(st, files[f], g, p)
    BY <1>1, Zenon
  <2>2. IF st.set[k] = None THEN \A i \in g + 1 .. p - 1 : Governs(files[f], g, i) => ~Gives(files[f], i, k)
        ELSE \E i \in g + 1 .. p - 1 :
                /\ Governs(files[f], g, i) /\ Gives(files[f], i, k) /\ st.set[k] = files[f][i].args[1]
                /\ \A j \in g + 1 .. i - 1 : ~Gives(files[f], j, k)
    BY <2>1 DEF Described
  <2> QED
    BY <2>1, <2>2
<1>5. ASSUME NEW i \in DOMAIN files[f], Sets(f, i, k, alias)
      PROVE  Gives(files[f], i, k)
  BY <1>5, SetsInBlock, Zenon
<1>6. ASSUME st.set[k] = None, NEW i \in DOMAIN files[f], Governs(files[f], g, i)
      PROVE  ~Sets(f, i, k, alias)
  <2>1. i \in g + 1 .. N + 1 - 1
    BY <1>1, <1>2, <1>6 DEF Governs
  <2> QED
    BY <1>4, <1>5, <1>6, <2>1, Zenon
<1>7. ASSUME st.set[k] # None
      PROVE  \E i \in DOMAIN files[f] : /\ g < i /\ Governs(files[f], g, i) /\ Sets(f, i, k, alias)
                                           /\ st.set[k] = files[f][i].args[1]
                                           /\ \A j \in g + 1 .. i - 1 : ~Sets(f, j, k, alias)
  <2>1. PICK i \in g + 1 .. N + 1 - 1 :
                /\ Governs(files[f], g, i) /\ Gives(files[f], i, k) /\ st.set[k] = files[f][i].args[1]
                /\ \A j \in g + 1 .. i - 1 : ~Gives(files[f], j, k)
    BY <1>4, <1>7, Zenon
  <2>2. i \in DOMAIN files[f] /\ g < i /\ g + 1 .. i - 1 \subseteq DOMAIN files[f]
    BY <1>1, <1>2
  <2>3. Sets(f, i, k, alias)
    BY <1>3, <2>1, <2>2, SetsInBlock, Zenon
  <2>4. \A j \in g + 1 .. i - 1 : ~Sets(f, j, k, alias)
    BY <1>5, <2>1, <2>2, Zenon
  <2> QED
    BY <2>1, <2>2, <2>3, <2>4, Zenon
<1> QED
  BY <1>6, <1>7, Zenon

\* At the end, every block with patterns of a file that was read has its stanza.
LEMMA OriginAtEnd ==
    ASSUME ConfigInv, stack = <<>>, NEW o, Origin(o, stanzas, files, Closed)
    PROVE  /\ \A n \in DOMAIN stanzas : \E f \in Paths : \E g \in DOMAIN files[f] :
                o[n] = <<f, g>> /\ Read(f) /\ files[f][g].kw = "host" /\ Described(stanzas[n], files[f], g, Len(files[f]) + 1)
           /\ \A f \in Paths : Read(f) => \A g \in DOMAIN files[f] :
                files[f][g].kw = "host" /\ files[f][g].args # <<>> => \E n \in DOMAIN stanzas : o[n] = <<f, g>>
<1>1. FilesOK
  BY DEF ConfigInv
<1>2. PICK N \in Nat : N = Len(stanzas) /\ DOMAIN stanzas = 1 .. N
  BY <1>1 DEF FilesOK
<1>3. /\ o \in [1 .. N -> Closed] /\ Closed \subseteq {o[n] : n \in 1 .. N}
      /\ \A n \in 1 .. N : Described(stanzas[n], files[o[n][1]], o[n][2], Len(files[o[n][1]]) + 1)
  BY <1>2, Zenon DEF Origin
<1>4. ASSUME NEW n \in DOMAIN stanzas
      PROVE  \E f \in Paths : \E g \in DOMAIN files[f] :
                o[n] = <<f, g>> /\ Read(f) /\ files[f][g].kw = "host" /\ Described(stanzas[n], files[f], g, Len(files[f]) + 1)
  <2>1. o[n] \in Closed
    BY <1>2, <1>3
  <2>2. /\ o[n] \in Paths \X Nat /\ Read(o[n][1]) /\ o[n][2] \in DOMAIN files[o[n][1]]
        /\ files[o[n][1]][o[n][2]].kw = "host"
    BY <2>1, Zenon DEF Closed
  <2>3. PICK f \in Paths, g \in Nat : o[n] = <<f, g>> /\ o[n][1] = f /\ o[n][2] = g
    BY <2>2
  <2>4. Described(stanzas[n], files[f], g, Len(files[f]) + 1)
    BY <1>2, <1>3, <2>3, Zenon
  <2> QED
    BY <2>2, <2>3, <2>4, Zenon
<1>5. ASSUME NEW f \in Paths, Read(f), NEW g \in DOMAIN files[f], files[f][g].kw = "host", files[f][g].args # <<>>
      PROVE  \E n \in DOMAIN stanzas : o[n] = <<f, g>>
  <2>1. g \in Nat
    BY <1>1, <1>5, LinesOf
  <2>0. <<f, g>> \in Paths \X Nat /\ <<f, g>>[1] = f /\ <<f, g>>[2] = g
    BY <2>1
  <2>2. PICK b : b = <<f, g>> /\ b \in Paths \X Nat /\ b[1] = f /\ b[2] = g
    BY <2>0, Zenon
  <2>3. b \in Closed
    BY <1>5, <2>2, AllPassed, Zenon DEF Closed
  <2> QED
    BY <1>2, <1>3, <2>2, <2>3, Zenon
<1> QED
  BY <1>4, <1>5, Zenon

\* A stanza made from the block of line i of f covers the alias and sets k.
SetByStanza(o, f, i, k, alias) ==
    \E n \in DOMAIN stanzas : \E g \in DOMAIN files[f] :
        o[n] = <<f, g>> /\ Governs(files[f], g, i) /\ Matches(stanzas[n], alias) /\ stanzas[n].set[k] # None

\* A line that sets k for the alias has its block's stanza, which covers the
\* alias and sets k.
LEMMA SetterHasStanza ==
    ASSUME ConfigInv, stack = <<>>, NEW o, Origin(o, stanzas, files, Closed),
           NEW f \in Paths, Read(f), NEW i \in DOMAIN files[f], NEW k \in Keywords, NEW alias, Sets(f, i, k, alias)
    PROVE  SetByStanza(o, f, i, k, alias)
<1>1. FilesOK
  BY DEF ConfigInv
<1>2. PICK g \in DOMAIN files[f] : Governs(files[f], g, i) /\ Gives(files[f], i, k) /\ ListMatches(files[f][g].args, {alias})
  BY <1>1, SetsInBlock, Zenon
<1>3. files[f][g].kw = "host" /\ files[f][g].args # <<>>
  <2>1. files[f][g].kw = "host"
    BY <1>2 DEF Governs
  <2>2. DOMAIN files[f][g].args # {}
    BY <1>2, Zenon DEF ListMatches
  <2> QED
    BY <2>1, <2>2
<1>4. PICK n \in DOMAIN stanzas : o[n] = <<f, g>>
  BY <1>2, <1>3, OriginAtEnd, Zenon
<1>5. Described(stanzas[n], files[f], g, Len(files[f]) + 1)
  <2>1. PICK ff \in Paths : \E gg \in DOMAIN files[ff] :
          o[n] = <<ff, gg>> /\ Described(stanzas[n], files[ff], gg, Len(files[ff]) + 1)
    BY OriginAtEnd, ZenonT(40)
  <2>2. PICK gg \in DOMAIN files[ff] : o[n] = <<ff, gg>> /\ Described(stanzas[n], files[ff], gg, Len(files[ff]) + 1)
    BY <2>1, Zenon
  <2>3. ff = f /\ gg = g
    BY <1>4, <2>2
  <2> QED
    BY <2>2, <2>3, Zenon
<1>6. Matches(stanzas[n], alias)
  BY <1>2, <1>5, Zenon DEF Matches, Described
<1>7. stanzas[n].set[k] # None
  BY <1>1, <1>2, <1>5, <1>6, StanzaSets, Zenon
<1> QED
  BY <1>2, <1>4, <1>6, <1>7, Zenon DEF SetByStanza

\* What resolve answers once the scan has ended.
LEMMA ResolvedAtEnd ==
    ASSUME ConfigInv, stack = <<>>, NEW alias, NEW k \in Keywords, NEW v, v = Resolve(alias)[k]
    PROVE  IF Setters(k, alias) = {} THEN v = None
           ELSE v \in {files[f][FirstIn(f, k, alias)].args[1] : f \in Setters(k, alias)}
<1>1. FilesOK /\ PushedOnce
  BY DEF ConfigInv
<1>2. PICK o : Origin(o, stanzas, files, Closed)
  BY <1>1, Zenon DEF PushedOnce
<1>3. PICK N \in Nat : N = Len(stanzas) /\ DOMAIN stanzas = 1 .. N
  BY <1>1 DEF FilesOK
<1>4. FirstOf(v, alias, k, N)
  BY <1>1, <1>3, ResolveFirst, Zenon
<1>5. CASE v = None
  <2>1. \A j \in 1 .. N : Matches(stanzas[j], alias) => stanzas[j].set[k] = None
    BY <1>4, <1>5, Zenon DEF FirstOf
  <2>2. ASSUME NEW f \in Paths, Read(f), NEW i \in DOMAIN files[f], Sets(f, i, k, alias)
        PROVE  FALSE
    <3>1. SetByStanza(o, f, i, k, alias)
      BY <1>2, <2>2, SetterHasStanza, Zenon
    <3> QED
      BY <1>3, <2>1, <3>1, Zenon DEF SetByStanza
  <2>3. Setters(k, alias) = {}
    BY <2>2, Zenon DEF Setters
  <2> QED
    BY <1>5, <2>3
<1>6. CASE v # None
  <2>1. PICK n \in 1 .. N : /\ Matches(stanzas[n], alias) /\ stanzas[n].set[k] = v
                            /\ \A j \in 1 .. n - 1 : Matches(stanzas[j], alias) => stanzas[j].set[k] = None
    BY <1>4, <1>6, Zenon DEF FirstOf
  <2>2. PICK f \in Paths : \E g \in DOMAIN files[f] :
          o[n] = <<f, g>> /\ Read(f) /\ files[f][g].kw = "host" /\ Described(stanzas[n], files[f], g, Len(files[f]) + 1)
    BY <1>2, <1>3, <2>1, OriginAtEnd
  <2>3. PICK g \in DOMAIN files[f] :
          o[n] = <<f, g>> /\ Read(f) /\ files[f][g].kw = "host" /\ Described(stanzas[n], files[f], g, Len(files[f]) + 1)
    BY <2>2, Zenon
  <2>4. PICK i \in DOMAIN files[f] : /\ g < i /\ Governs(files[f], g, i) /\ Sets(f, i, k, alias)
                                     /\ v = files[f][i].args[1]
                                     /\ \A j \in g + 1 .. i - 1 : ~Sets(f, j, k, alias)
    <3>1. stanzas[n].set[k] # None
      BY <1>6, <2>1, Zenon
    <3>2. \E i \in DOMAIN files[f] : /\ g < i /\ Governs(files[f], g, i) /\ Sets(f, i, k, alias)
                                     /\ stanzas[n].set[k] = files[f][i].args[1]
                                     /\ \A j \in g + 1 .. i - 1 : ~Sets(f, j, k, alias)
      BY <1>1, <2>1, <2>3, <3>1, StanzaSets
    <3> QED
      BY <2>1, <3>2, Zenon
  <2>5. PICK L \in Nat : DOMAIN files[f] = 1 .. L
    BY <1>1, <2>3, LinesOf
  <2>6. ASSUME NEW h \in 1 .. i - 1, Sets(f, h, k, alias)
        PROVE  FALSE
    <3>1. h \in DOMAIN files[f] /\ h \in Nat /\ i \in Nat /\ g \in Nat
      BY <2>5
    <3>2. ~(h \in g + 1 .. i - 1)
      BY <2>4, <2>6, Zenon
    <3>3. h <= g
      BY <2>6, <3>1, <3>2
    <3>4. PICK m \in DOMAIN stanzas : \E gg \in DOMAIN files[f] :
            o[m] = <<f, gg>> /\ Governs(files[f], gg, h) /\ Matches(stanzas[m], alias) /\ stanzas[m].set[k] # None
      <4>1. SetByStanza(o, f, h, k, alias)
        BY <1>2, <2>3, <2>6, <3>1, SetterHasStanza, Zenon
      <4> QED
        BY <4>1, Zenon DEF SetByStanza
    <3>5. PICK gg \in DOMAIN files[f] :
            o[m] = <<f, gg>> /\ Governs(files[f], gg, h) /\ Matches(stanzas[m], alias) /\ stanzas[m].set[k] # None
      BY <3>4, Zenon
    <3>6. gg \in Nat /\ gg < g
      BY <2>5, <3>1, <3>3, <3>5 DEF Governs
    <3>7. o[m][1] = f /\ o[m][2] = gg /\ o[n][1] = f /\ o[n][2] = g
      BY <2>3, <3>5
    <3>8. \A a, b \in 1 .. N : a < b /\ o[a][1] = o[b][1] => o[a][2] < o[b][2]
      BY <1>2, <1>3, Zenon DEF Origin
    <3>9. m \in 1 .. N /\ n \in 1 .. N
      BY <1>3, <2>1
    <3>10. ~(n < m)
      BY <3>1, <3>6, <3>7, <3>8, <3>9
    <3>11. m # n
      BY <3>6, <3>7
    <3>12. m \in 1 .. n - 1
      BY <1>3, <3>9, <3>10, <3>11
    <3> QED
      BY <2>1, <3>5, <3>12, Zenon
  <2>7. FirstIn(f, k, alias) = i
    BY <1>1, <2>3, <2>4, <2>6, FirstInIs, Zenon
  <2>8. f \in Setters(k, alias)
    BY <2>3, <2>4, Zenon DEF Setters
  <2>9. v \in {files[ff][FirstIn(ff, k, alias)].args[1] : ff \in Setters(k, alias)}
    BY <2>4, <2>7, <2>8, Zenon
  <2> QED
    BY <2>8, <2>9, Zenon
<1> QED
  BY <1>5, <1>6

\* resolve answers what the files say, for every file system and whatever its
\* files include: a keyword is set exactly when a file that was read sets it for
\* the alias in one of its Host blocks, and then to the first such value of one.
THEOREM ResolveFaithfulAlways == ScanSpec => []ResolveFaithful
<1>1. ConfigInv => ResolveFaithful
  BY ConfigTyped, ResolvedAtEnd, Zenon DEF ResolveFaithful
<1> QED
  BY <1>1, ConfigAlways, PTL

\* For every pattern, text and line: the host-pattern matcher accepts what the
\* pattern means, and the lexer reads the spellings of a directive alike and
\* ends a line at a `#` outside quotes.
THEOREM HelpersAgreeAlways == ScanSpec => []HelpersAgree
<1>1. GlobAgrees
  <2>1. SUFFICES ASSUME NEW p \in Globs, NEW v \in Texts PROVE GlobMatch(p, v) = Denotes(p, v)
    BY Zenon DEF GlobAgrees
  <2>2. p \in Seq(Characters) /\ v \in Seq(Characters) /\ \A i \in DOMAIN v : v[i] # "*"
    BY TextsAssumption, Zenon
  <2> QED
    BY <2>2, GlobDecides
<1>2. LexAgrees
  BY TextsAssumption, AlwaysSpelledAlike, AlwaysCommentEnds, Zenon DEF LexAgrees
<1>3. HelpersAgree
  BY <1>1, <1>2, Zenon DEF HelpersAgree
<1> QED
  BY <1>3, PTL
===============================================================================
