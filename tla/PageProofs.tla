------------------------------ MODULE PageProofs ------------------------------
(***************************************************************************)
(* Proofs about the shell's pages, for every value of their constants: the *)
(* files of a task, the artifact viewers, the skills settings, the         *)
(* composer and the conversation on the task page. The lemmas they begin   *)
(* with are about loops: induction over the natural numbers as a fact      *)
(* about a set of them, what a loop makes of a sequence step by step, and  *)
(* what the elements picked from a sequence are.                           *)
(***************************************************************************)
EXTENDS ShellFiles, ShellArtifacts, ShellComposer, ShellSkills, ShellTranscript, Loops,
        FiniteSetTheorems, WellFoundedInduction, TLAPS

-----------------------------------------------------------------------------
(* Loops.                                                                  *)

\* A set of numbers has a least one.
LEMMA LeastNat == ASSUME NEW S, S \subseteq Nat, S # {} PROVE \E p \in S : \A q \in S : p <= q
<1> DEFINE R == OpToRel(<, Nat)
<1>1. IsWellFoundedOn(R, Nat)
  BY Zenon, NatLessThanWellFounded
<1> HIDE DEF R
<1>2. PICK p \in S : \A q \in S : <<q, p>> \notin R
  BY <1>1, WFMin
<1>3. \A q \in S : ~(q < p)
  BY <1>2 DEF OpToRel, R
<1> QED
  BY <1>3

\* Induction: a set of numbers that has 0, and with every number its
\* successor, has them all.
LEMMA AllNats ==
    ASSUME NEW T, 0 \in T, \A n \in Nat : n \in T => n + 1 \in T
    PROVE  Nat \subseteq T
<1> SUFFICES ASSUME Nat \ T # {} PROVE FALSE
  OBVIOUS
<1>1. PICK p \in Nat \ T : \A q \in Nat \ T : p <= q
  <2> DEFINE S == Nat \ T
  <2>1. S \subseteq Nat /\ S # {}
    OBVIOUS
  <2> HIDE DEF S
  <2>2. \E p \in S : \A q \in S : p <= q
    BY <2>1, LeastNat
  <2> QED
    BY <2>2 DEF S
<1>2. p # 0
  BY <1>1
<1>3. p - 1 \in Nat /\ p - 1 \notin Nat \ T
  BY <1>1, <1>2
<1> QED
  BY <1>1, <1>3

\* What a loop is over: steps that keep to A, for elements of B.
LoopOf(step, start, A, B) == step \in [A \X B -> A] /\ start \in A

\* f is what a loop has made after each number of steps.
MadeBy(f, A, step, start, s) ==
    /\ f \in [0 .. Len(s) -> A]
    /\ f[0] = start
    /\ \A n \in 1 .. Len(s) : f[n] = step[<<f[n - 1], s[n]>>]
    /\ Loop(step, start, s) = f[Len(s)]

\* The steps of a loop exist.
LEMMA LoopSteps ==
    ASSUME NEW A, NEW B, NEW step, NEW start, LoopOf(step, start, A, B), NEW s \in Seq(B)
    PROVE  \E f : MadeBy(f, A, step, start, s)
<1> step \in [A \X B -> A] /\ start \in A
  BY DEF LoopOf
<1> DEFINE Eq(f, k) == f = [n \in 0 .. k |-> IF n = 0 THEN start ELSE step[<<f[n - 1], s[n]>>]]
           T == {k \in Nat : k <= Len(s) => \E f \in [0 .. k -> A] : Eq(f, k)}
<1>1. 0 \in T
  <2> DEFINE f == [n \in 0 .. 0 |-> start]
  <2>1. f \in [0 .. 0 -> A] /\ Eq(f, 0)
    OBVIOUS
  <2> QED
    BY <2>1
<1>2. ASSUME NEW k \in Nat, k \in T PROVE k + 1 \in T
  <2> SUFFICES ASSUME k + 1 <= Len(s) PROVE \E f \in [0 .. k + 1 -> A] : Eq(f, k + 1)
    OBVIOUS
  <2>1. PICK f \in [0 .. k -> A] : Eq(f, k)
    BY <1>2
  <2> DEFINE g == [n \in 0 .. k + 1 |-> IF n = k + 1 THEN step[<<f[k], s[k + 1]>>] ELSE f[n]]
  <2>2. s[k + 1] \in B /\ f[k] \in A
    OBVIOUS
  <2>3. step[<<f[k], s[k + 1]>>] \in A
    BY <2>2
  <2>4. g \in [0 .. k + 1 -> A]
    BY <2>3
  <2>5. ASSUME NEW n \in 0 .. k + 1 PROVE g[n] = IF n = 0 THEN start ELSE step[<<g[n - 1], s[n]>>]
    <3>1. CASE n = k + 1
      <4>1. n # 0 /\ n - 1 = k /\ n - 1 \in 0 .. k + 1 /\ n - 1 # k + 1 /\ g[k] = f[k]
        BY <3>1
      <4>2. g[n] = step[<<f[k], s[k + 1]>>]
        BY <3>1
      <4> QED
        BY <3>1, <4>1, <4>2
    <3>2. CASE n = 0
      BY <3>2, <2>1
    <3>3. CASE n \in 1 .. k
      <4>1. g[n] = f[n] /\ g[n - 1] = f[n - 1] /\ n \in 0 .. k
        BY <3>3
      <4>2. f[n] = IF n = 0 THEN start ELSE step[<<f[n - 1], s[n]>>]
        BY <2>1, <4>1
      <4> QED
        BY <4>1, <4>2
    <3> QED
      BY <3>1, <3>2, <3>3
  <2>6. Eq(g, k + 1)
    BY <2>5
  <2> QED
    BY <2>4, <2>6
<1>3. Nat \subseteq T
  <2> HIDE DEF T
  <2> QED
    BY <1>1, <1>2, AllNats
<1>4. Len(s) \in Nat
  OBVIOUS
<1>5. PICK f \in [0 .. Len(s) -> A] : Eq(f, Len(s))
  BY <1>3, <1>4
<1> DEFINE m == CHOOSE g : Eq(g, Len(s))
<1>6. Eq(m, Len(s)) /\ Loop(step, start, s) = m[Len(s)]
  BY <1>5 DEF Loop
<1>7. /\ m[0] = start /\ f[0] = start
      /\ \A n \in 1 .. Len(s) : m[n] = step[<<m[n - 1], s[n]>>] /\ f[n] = step[<<f[n - 1], s[n]>>]
  <2>1. \A n \in 0 .. Len(s) : f[n] = IF n = 0 THEN start ELSE step[<<f[n - 1], s[n]>>]
    BY <1>5, <1>4
  <2>2. \A n \in 0 .. Len(s) : m[n] = IF n = 0 THEN start ELSE step[<<m[n - 1], s[n]>>]
    <3> HIDE DEF m
    <3> QED
      BY <1>6, <1>4
  <2>3. 0 \in 0 .. Len(s) /\ \A n \in 1 .. Len(s) : n \in 0 .. Len(s) /\ n # 0
    BY <1>4
  <2> HIDE DEF m, Eq
  <2>4. m[0] = start /\ f[0] = start
    BY <2>1, <2>2, <2>3
  <2>5. ASSUME NEW n \in 1 .. Len(s) PROVE m[n] = step[<<m[n - 1], s[n]>>] /\ f[n] = step[<<f[n - 1], s[n]>>]
    BY <2>1, <2>2, <2>3
  <2> QED
    BY <2>4, <2>5
<1> HIDE DEF m
<1>8. m[Len(s)] = f[Len(s)]
  <2> DEFINE U == {k \in Nat : k <= Len(s) => m[k] = f[k]}
  <2>1. 0 \in U
    BY <1>7
  <2>2. ASSUME NEW k \in Nat, k \in U PROVE k + 1 \in U
    <3> SUFFICES ASSUME k + 1 <= Len(s) PROVE m[k + 1] = f[k + 1]
      OBVIOUS
    <3>1. m[k] = f[k] /\ k + 1 \in 1 .. Len(s) /\ (k + 1) - 1 = k
      BY <2>2, <1>4
    <3> QED
      BY <3>1, <1>7
  <2>3. Nat \subseteq U
    <3> HIDE DEF U
    <3> QED
      BY <2>1, <2>2, AllNats
  <2> QED
    BY <2>3, <1>4
<1> QED
  BY <1>5, <1>6, <1>7, <1>8 DEF MadeBy

\* f is what was picked after each number of elements.
PickedBy(f, B, s, S) ==
    /\ f \in [0 .. Len(s) -> Seq(B)]
    /\ f[0] = <<>>
    /\ \A n \in 1 .. Len(s) : f[n] = IF s[n] \in S THEN Append(f[n - 1], s[n]) ELSE f[n - 1]
    /\ Picked(s, S) = f[Len(s)]

\* The steps of picking exist.
LEMMA PickedSteps ==
    ASSUME NEW B, NEW S, NEW s \in Seq(B)
    PROVE  \E f : PickedBy(f, B, s, S)
<1> DEFINE Eq(f, k) == f = [n \in 0 .. k |-> IF n = 0 THEN <<>> ELSE (IF s[n] \in S THEN Append(f[n - 1], s[n]) ELSE f[n - 1])]
           T == {k \in Nat : k <= Len(s) => \E f \in [0 .. k -> Seq(B)] : Eq(f, k)}
<1> HIDE DEF Eq
<1>1. 0 \in T
  <2> DEFINE f == [n \in 0 .. 0 |-> <<>>]
  <2>1. f \in [0 .. 0 -> Seq(B)] /\ Eq(f, 0)
    BY DEF Eq
  <2> QED
    BY <2>1
<1>2. ASSUME NEW k \in Nat, k \in T PROVE k + 1 \in T
  <2> SUFFICES ASSUME k + 1 <= Len(s) PROVE \E f \in [0 .. k + 1 -> Seq(B)] : Eq(f, k + 1)
    OBVIOUS
  <2>1. PICK f \in [0 .. k -> Seq(B)] : Eq(f, k)
    BY <1>2
  <2> DEFINE g == [n \in 0 .. k + 1 |-> IF n = k + 1 THEN (IF s[k + 1] \in S THEN Append(f[k], s[k + 1]) ELSE f[k]) ELSE f[n]]
  <2>2. s[k + 1] \in B /\ f[k] \in Seq(B)
    OBVIOUS
  <2>3. (IF s[k + 1] \in S THEN Append(f[k], s[k + 1]) ELSE f[k]) \in Seq(B)
    BY <2>2
  <2>4. g \in [0 .. k + 1 -> Seq(B)]
    BY <2>3
  <2>5. ASSUME NEW n \in 0 .. k + 1 PROVE g[n] = IF n = 0 THEN <<>> ELSE (IF s[n] \in S THEN Append(g[n - 1], s[n]) ELSE g[n - 1])
    <3>1. CASE n = k + 1
      <4>1. n # 0 /\ n - 1 = k /\ n - 1 \in 0 .. k + 1 /\ n - 1 # k + 1 /\ g[k] = f[k]
        BY <3>1
      <4>2. g[n] = (IF s[k + 1] \in S THEN Append(f[k], s[k + 1]) ELSE f[k])
        BY <3>1
      <4> QED
        BY <3>1, <4>1, <4>2
    <3>2. CASE n = 0
      BY <3>2, <2>1 DEF Eq
    <3>3. CASE n \in 1 .. k
      <4>1. g[n] = f[n] /\ g[n - 1] = f[n - 1] /\ n \in 0 .. k
        BY <3>3
      <4>2. f[n] = IF n = 0 THEN <<>> ELSE (IF s[n] \in S THEN Append(f[n - 1], s[n]) ELSE f[n - 1])
        BY <2>1, <4>1 DEF Eq
      <4> QED
        BY <4>1, <4>2
    <3> QED
      BY <3>1, <3>2, <3>3
  <2>6. Eq(g, k + 1)
    BY <2>5 DEF Eq
  <2> QED
    BY <2>4, <2>6
<1>3. Nat \subseteq T
  <2> HIDE DEF T
  <2> QED
    BY <1>1, <1>2, AllNats
<1>4. Len(s) \in Nat
  OBVIOUS
<1>5. PICK f \in [0 .. Len(s) -> Seq(B)] : Eq(f, Len(s))
  BY <1>3, <1>4
<1> DEFINE m == CHOOSE g : Eq(g, Len(s))
<1>6. Eq(m, Len(s)) /\ Picked(s, S) = m[Len(s)]
  BY <1>5 DEF Picked, Eq
<1>7. /\ m[0] = <<>> /\ f[0] = <<>>
      /\ \A n \in 1 .. Len(s) : m[n] = (IF s[n] \in S THEN Append(m[n - 1], s[n]) ELSE m[n - 1]) /\ f[n] = (IF s[n] \in S THEN Append(f[n - 1], s[n]) ELSE f[n - 1])
  <2>1. \A n \in 0 .. Len(s) : f[n] = IF n = 0 THEN <<>> ELSE (IF s[n] \in S THEN Append(f[n - 1], s[n]) ELSE f[n - 1])
    BY <1>5, <1>4 DEF Eq
  <2>2. \A n \in 0 .. Len(s) : m[n] = IF n = 0 THEN <<>> ELSE (IF s[n] \in S THEN Append(m[n - 1], s[n]) ELSE m[n - 1])
    <3> HIDE DEF m
    <3> QED
      BY <1>6, <1>4 DEF Eq
  <2>3. 0 \in 0 .. Len(s) /\ \A n \in 1 .. Len(s) : n \in 0 .. Len(s) /\ n # 0
    BY <1>4
  <2> HIDE DEF m
  <2>4. m[0] = <<>> /\ f[0] = <<>>
    BY <2>1, <2>2, <2>3
  <2>5. ASSUME NEW n \in 1 .. Len(s) PROVE m[n] = (IF s[n] \in S THEN Append(m[n - 1], s[n]) ELSE m[n - 1]) /\ f[n] = (IF s[n] \in S THEN Append(f[n - 1], s[n]) ELSE f[n - 1])
    BY <2>1, <2>2, <2>3
  <2> QED
    BY <2>4, <2>5
<1> HIDE DEF m
<1>8. m[Len(s)] = f[Len(s)]
  <2> DEFINE U == {k \in Nat : k <= Len(s) => m[k] = f[k]}
  <2>1. 0 \in U
    BY <1>7
  <2>2. ASSUME NEW k \in Nat, k \in U PROVE k + 1 \in U
    <3> SUFFICES ASSUME k + 1 <= Len(s) PROVE m[k + 1] = f[k + 1]
      OBVIOUS
    <3>1. m[k] = f[k] /\ k + 1 \in 1 .. Len(s) /\ (k + 1) - 1 = k
      BY <2>2, <1>4
    <3> QED
      BY <3>1, <1>7
  <2>3. Nat \subseteq U
    <3> HIDE DEF U
    <3> QED
      BY <2>1, <2>2, AllNats
  <2> QED
    BY <2>3, <1>4
<1> QED
  BY <1>5, <1>6, <1>7, <1>8 DEF PickedBy


LEMMA LoopStart ==
    ASSUME NEW A, NEW B, NEW step, NEW start, LoopOf(step, start, A, B)
    PROVE  Loop(step, start, <<>>) = start
<1>1. <<>> \in Seq(B) /\ Len(<<>>) = 0
  OBVIOUS
<1>2. PICK f : MadeBy(f, A, step, start, <<>>)
  BY <1>1, LoopSteps
<1> QED
  BY <1>1, <1>2 DEF MadeBy

\* Two loops agree as long as their sequences do.
LEMMA LoopStep ==
    ASSUME NEW A, NEW B, NEW step, NEW start, LoopOf(step, start, A, B), NEW s \in Seq(B), NEW e \in B
    PROVE  /\ Loop(step, start, s) \in A
           /\ Loop(step, start, Append(s, e)) = step[<<Loop(step, start, s), e>>]
<1> DEFINE t == Append(s, e)
<1>1. t \in Seq(B) /\ Len(t) = Len(s) + 1 /\ t[Len(s) + 1] = e /\ Len(s) \in Nat
  OBVIOUS
<1>2. \A i \in 1 .. Len(s) : t[i] = s[i]
  OBVIOUS
<1> HIDE DEF t
<1>3. PICK f : MadeBy(f, A, step, start, s)
  BY LoopSteps
<1>4. PICK g : MadeBy(g, A, step, start, t)
  BY LoopSteps, <1>1
<1> DEFINE U == {k \in Nat : k <= Len(s) => g[k] = f[k]}
<1>5. 0 \in U
  BY <1>3, <1>4 DEF MadeBy
<1>6. ASSUME NEW k \in Nat, k \in U PROVE k + 1 \in U
  <2> SUFFICES ASSUME k + 1 <= Len(s) PROVE g[k + 1] = f[k + 1]
    OBVIOUS
  <2>1. g[k] = f[k] /\ k + 1 \in 1 .. Len(s) /\ k + 1 \in 1 .. Len(t) /\ (k + 1) - 1 = k
    BY <1>1, <1>6 DEF MadeBy
  <2>2. g[k + 1] = step[<<g[k], t[k + 1]>>]
    BY <2>1, <1>4 DEF MadeBy
  <2>3. f[k + 1] = step[<<f[k], s[k + 1]>>]
    BY <2>1, <1>3 DEF MadeBy
  <2>4. t[k + 1] = s[k + 1]
    BY <2>1, <1>2
  <2> HIDE DEF U
  <2> QED
    BY <2>1, <2>2, <2>3, <2>4
<1>7. Nat \subseteq U
  <2> HIDE DEF U
  <2> QED
    BY <1>5, <1>6, AllNats
<1>8. g[Len(s)] = f[Len(s)]
  BY <1>1, <1>7 DEF MadeBy
<1>9. g[Len(t)] = step[<<g[Len(s)], e>>]
  BY <1>1, <1>4 DEF MadeBy
<1>10. f[Len(s)] \in A
  BY <1>1, <1>3 DEF MadeBy
<1> QED
  BY <1>3, <1>4, <1>8, <1>9, <1>10 DEF t, MadeBy

LEMMA PickedEmpty == ASSUME NEW S PROVE Picked(<<>>, S) = <<>>
<1>1. <<>> \in Seq({}) /\ Len(<<>>) = 0
  OBVIOUS
<1>2. PICK f : PickedBy(f, {}, <<>>, S)
  BY <1>1, PickedSteps
<1> QED
  BY <1>1, <1>2 DEF PickedBy

LEMMA PickedAppend ==
    ASSUME NEW B, NEW S, NEW s \in Seq(B), NEW e \in B
    PROVE  /\ Picked(s, S) \in Seq(B)
           /\ Picked(Append(s, e), S) = IF e \in S THEN Append(Picked(s, S), e) ELSE Picked(s, S)
<1> DEFINE t == Append(s, e)
<1>1. t \in Seq(B) /\ Len(t) = Len(s) + 1 /\ t[Len(s) + 1] = e /\ Len(s) \in Nat
  OBVIOUS
<1>2. \A i \in 1 .. Len(s) : t[i] = s[i]
  OBVIOUS
<1> HIDE DEF t
<1>3. PICK f : PickedBy(f, B, s, S)
  BY PickedSteps
<1>4. PICK g : PickedBy(g, B, t, S)
  BY PickedSteps, <1>1
<1> DEFINE U == {k \in Nat : k <= Len(s) => g[k] = f[k]}
<1>5. 0 \in U
  BY <1>3, <1>4 DEF PickedBy
<1>6. ASSUME NEW k \in Nat, k \in U PROVE k + 1 \in U
  <2> SUFFICES ASSUME k + 1 <= Len(s) PROVE g[k + 1] = f[k + 1]
    OBVIOUS
  <2>1. g[k] = f[k] /\ k + 1 \in 1 .. Len(s) /\ k + 1 \in 1 .. Len(t) /\ (k + 1) - 1 = k
    BY <1>1, <1>6 DEF PickedBy
  <2> QED
    BY <2>1, <1>2, <1>3, <1>4 DEF PickedBy
<1>7. Nat \subseteq U
  <2> HIDE DEF U
  <2> QED
    BY <1>5, <1>6, AllNats
<1>8. g[Len(s)] = f[Len(s)]
  BY <1>1, <1>7 DEF PickedBy
<1>9. g[Len(t)] = IF e \in S THEN Append(g[Len(s)], e) ELSE g[Len(s)]
  BY <1>1, <1>4 DEF PickedBy
<1>10. f[Len(s)] \in Seq(B)
  BY <1>1, <1>3 DEF PickedBy
<1> QED
  BY <1>3, <1>4, <1>8, <1>9, <1>10 DEF t, PickedBy

\* What is picked are elements that are in S, each after those before it.
LEMMA PickedAll ==
    ASSUME NEW B, NEW S, NEW s \in Seq(B), \A i \in 1 .. Len(s) : s[i] \in S
    PROVE  Picked(s, S) = s
<1>1. PICK f : PickedBy(f, B, s, S)
  BY PickedSteps
<1>2. Len(s) \in Nat
  OBVIOUS
<1> DEFINE U == {k \in Nat : k <= Len(s) => f[k] = SubSeq(s, 1, k)}
<1>3. 0 \in U
  BY <1>1 DEF PickedBy
<1>4. ASSUME NEW k \in Nat, k \in U PROVE k + 1 \in U
  <2> SUFFICES ASSUME k + 1 <= Len(s) PROVE f[k + 1] = SubSeq(s, 1, k + 1)
    OBVIOUS
  <2>1. f[k] = SubSeq(s, 1, k) /\ k + 1 \in 1 .. Len(s) /\ (k + 1) - 1 = k
    BY <1>2, <1>4 DEF PickedBy
  <2>2. f[k + 1] = Append(SubSeq(s, 1, k), s[k + 1])
    BY <2>1, <1>1 DEF PickedBy
  <2>3. SubSeq(s, 1, k + 1) = Append(SubSeq(s, 1, k), s[k + 1])
    BY <2>1
  <2> QED
    BY <2>2, <2>3
<1>5. Nat \subseteq U
  <2> HIDE DEF U
  <2> QED
    BY <1>3, <1>4, AllNats
<1>6. f[Len(s)] = SubSeq(s, 1, Len(s))
  BY <1>2, <1>5
<1> QED
  BY <1>1, <1>6 DEF PickedBy

LEMMA PickedTyped ==
    ASSUME NEW B, NEW S, NEW s \in Seq(B)
    PROVE  Picked(s, S) \in Seq(B \cap S) /\ Len(Picked(s, S)) <= Len(s)
<1>1. PICK f : PickedBy(f, B, s, S)
  BY PickedSteps
<1>2. Len(s) \in Nat
  OBVIOUS
<1> DEFINE U == {k \in Nat : k <= Len(s) => f[k] \in Seq(B \cap S) /\ Len(f[k]) <= k}
<1>3. 0 \in U
  BY <1>1 DEF PickedBy
<1>4. ASSUME NEW k \in Nat, k \in U PROVE k + 1 \in U
  <2> SUFFICES ASSUME k + 1 <= Len(s) PROVE f[k + 1] \in Seq(B \cap S) /\ Len(f[k + 1]) <= k + 1
    OBVIOUS
  <2>1. f[k] \in Seq(B \cap S) /\ Len(f[k]) <= k /\ k + 1 \in 1 .. Len(s) /\ (k + 1) - 1 = k /\ s[k + 1] \in B
    BY <1>2, <1>4 DEF PickedBy
  <2>2. CASE s[k + 1] \in S
    <3>1. f[k + 1] = Append(f[k], s[k + 1])
      BY <2>1, <2>2, <1>1 DEF PickedBy
    <3> QED
      BY <3>1, <2>1, <2>2
  <2>3. CASE s[k + 1] \notin S
    <3>1. f[k + 1] = f[k]
      BY <2>1, <2>3, <1>1 DEF PickedBy
    <3> QED
      BY <3>1, <2>1
  <2> QED
    BY <2>2, <2>3
<1>5. Nat \subseteq U
  <2> HIDE DEF U
  <2> QED
    BY <1>3, <1>4, AllNats
<1> QED
  BY <1>1, <1>2, <1>5 DEF PickedBy

LEMMA SameSeq ==
    ASSUME NEW A, NEW s \in Seq(A), NEW t \in Seq(A), Len(s) = Len(t), \A i \in 1 .. Len(s) : s[i] = t[i]
    PROVE  s = t
  OBVIOUS

\* The elements of two sequences, one behind the other.
LEMMA ConcatIs ==
    ASSUME NEW A, NEW s \in Seq(A), NEW t \in Seq(A)
    PROVE  /\ Len(s \o t) = Len(s) + Len(t) /\ Len(s) \in Nat /\ Len(t) \in Nat
           /\ \A i \in 1 .. Len(s) : (s \o t)[i] = s[i]
           /\ \A i \in 1 .. Len(t) : (s \o t)[Len(s) + i] = t[i]
           /\ \A i \in 1 .. Len(s \o t) : i \in 1 .. Len(s) \/ i - Len(s) \in 1 .. Len(t)
<1>1. Len(s) \in Nat /\ Len(t) \in Nat /\ Len(s \o t) = Len(s) + Len(t)
  OBVIOUS
<1>2. ASSUME NEW i \in 1 .. Len(s) PROVE (s \o t)[i] = s[i]
  OBVIOUS
<1>3. ASSUME NEW i \in 1 .. Len(t) PROVE (s \o t)[Len(s) + i] = t[i]
  <2>1. Len(s) + i \in 1 .. Len(s) + Len(t) /\ ~(Len(s) + i <= Len(s)) /\ (Len(s) + i) - Len(s) = i
    BY <1>1
  <2> QED
    BY <1>1, <2>1
<1>4. \A i \in 1 .. Len(s \o t) : i \in 1 .. Len(s) \/ i - Len(s) \in 1 .. Len(t)
  BY <1>1
<1> QED
  BY <1>1, <1>2, <1>3, <1>4

LEMMA ConcatTyped == ASSUME NEW A, NEW s \in Seq(A), NEW t \in Seq(A) PROVE s \o t \in Seq(A)
  OBVIOUS

LEMMA ConcatAppends ==
    ASSUME NEW A, NEW s \in Seq(A), NEW t \in Seq(A), NEW x \in A PROVE s \o Append(t, x) = Append(s \o t, x)
<1> DEFINE u == s \o Append(t, x)
           v == Append(s \o t, x)
<1>1. u \in Seq(A) /\ v \in Seq(A) /\ Len(u) = Len(v)
  OBVIOUS
<1>2. ASSUME NEW i \in 1 .. Len(u) PROVE u[i] = v[i]
  OBVIOUS
<1> HIDE DEF u, v
<1>3. u = v
  BY <1>1, <1>2
<1> QED
  BY <1>3 DEF u, v

\* A sequence that is not empty ends with an element.
LEMMA LastOfSeq ==
    ASSUME NEW A, NEW s \in Seq(A), Len(s) # 0
    PROVE  \E t \in Seq(A), e \in A : s = Append(t, e) /\ Len(t) = Len(s) - 1
<1>0. Len(s) \in Nat
  OBVIOUS
<1>9. PICK n \in Nat : n = Len(s) - 1
  BY <1>0
<1> DEFINE t == SubSeq(s, 1, n)
           e == s[Len(s)]
<1>1. t \in Seq(A) /\ Len(t) = Len(s) - 1
  BY <1>9
<1>6. e \in A
  OBVIOUS
<1>2. \A i \in 1 .. Len(t) : t[i] = s[i]
  BY <1>9
<1> HIDE DEF t
<1>3. Append(t, e) \in Seq(A) /\ Len(Append(t, e)) = Len(s)
  BY <1>1, <1>6
<1>4. \A i \in 1 .. Len(s) : Append(t, e)[i] = s[i]
  BY <1>1, <1>2
<1>5. s = Append(t, e)
  BY <1>3, <1>4
<1> QED
  BY <1>1, <1>5, <1>6

LEMMA PickedConcat ==
    ASSUME NEW B, NEW S, NEW s \in Seq(B), NEW t \in Seq(B)
    PROVE  Picked(s \o t, S) = Picked(s, S) \o Picked(t, S)
<1> DEFINE U == {n \in Nat : \A u \in Seq(B) : Len(u) = n => Picked(s \o u, S) = Picked(s, S) \o Picked(u, S)}
<1>0. \A u \in Seq(B) : Picked(u, S) \in Seq(B)
  <2> TAKE u \in Seq(B)
  <2> HIDE DEF U
  <2>1. PICK q \in Seq(B \cap S) : q = Picked(u, S)
    BY PickedTyped
  <2>2. q \in Seq(B)
    OBVIOUS
  <2> QED
    BY <2>1, <2>2
<1>1. 0 \in U
  <2> SUFFICES ASSUME NEW u \in Seq(B), Len(u) = 0 PROVE Picked(s \o u, S) = Picked(s, S) \o Picked(u, S)
    OBVIOUS
  <2>1. u = <<>> /\ s \o u = s
    OBVIOUS
  <2>2. Picked(u, S) = <<>> /\ Picked(s, S) \in Seq(B)
    BY <1>0, <2>1, PickedEmpty
  <2> QED
    BY <2>1, <2>2
<1>2. ASSUME NEW n \in Nat, n \in U PROVE n + 1 \in U
  <2> SUFFICES ASSUME NEW u \in Seq(B), Len(u) = n + 1 PROVE Picked(s \o u, S) = Picked(s, S) \o Picked(u, S)
    OBVIOUS
  <2>0. Len(u) # 0 /\ Len(u) - 1 = n
    OBVIOUS
  <2>1. PICK v \in Seq(B), e \in B : u = Append(v, e) /\ Len(v) = n
    <3> HIDE DEF U
    <3> QED
      BY <2>0, LastOfSeq
  <2>2. Picked(s \o v, S) = Picked(s, S) \o Picked(v, S)
    BY <1>2, <2>1
  <2>3. s \o u = Append(s \o v, e) /\ s \o v \in Seq(B)
    BY <2>1, ConcatAppends, ConcatTyped
  <2> HIDE DEF U
  <2>4. PICK a \in Seq(B), b \in Seq(B) : a = Picked(s, S) /\ b = Picked(v, S)
    BY <1>0
  <2>7. PICK w \in Seq(B) : w = s \o v
    BY <2>3
  <2>8. Picked(Append(w, e), S) = IF e \in S THEN Append(Picked(w, S), e) ELSE Picked(w, S)
    BY PickedAppend
  <2>9. Picked(Append(v, e), S) = IF e \in S THEN Append(Picked(v, S), e) ELSE Picked(v, S)
    BY PickedAppend
  <2>5. Picked(w, S) = a \o b
    BY <2>2, <2>4, <2>7
  <2>6. a \o Append(b, e) = Append(a \o b, e)
    BY SMTT(20), ConcatAppends
  <2>10. Picked(Append(w, e), S) = a \o Picked(Append(v, e), S)
    BY <2>4, <2>5, <2>6, <2>8, <2>9
  <2> QED
    BY <2>1, <2>3, <2>4, <2>7, <2>10
<1>3. Nat \subseteq U
  <2> HIDE DEF U
  <2> QED
    BY <1>1, <1>2, AllNats
<1> QED
  BY <1>3

LEMMA PickedNone ==
    ASSUME NEW B, NEW S, NEW s \in Seq(B), B \cap S = {}
    PROVE  Picked(s, S) = <<>>
<1>1. Picked(s, S) \in Seq({})
  BY PickedTyped
<1> QED
  BY <1>1

\* What is picked depends on nothing but the elements there are.
LEMMA PickedSame ==
    ASSUME NEW B, NEW S, NEW T, NEW s \in Seq(B), \A b \in B : b \in S <=> b \in T
    PROVE  Picked(s, S) = Picked(s, T)
<1> DEFINE U == {n \in Nat : \A u \in Seq(B) : Len(u) = n => Picked(u, S) = Picked(u, T)}
<1>1. 0 \in U
  <2> SUFFICES ASSUME NEW u \in Seq(B), Len(u) = 0 PROVE Picked(u, S) = Picked(u, T)
    OBVIOUS
  <2>1. u = <<>>
    OBVIOUS
  <2> QED
    BY <2>1, PickedEmpty
<1>2. ASSUME NEW n \in Nat, n \in U PROVE n + 1 \in U
  <2> SUFFICES ASSUME NEW u \in Seq(B), Len(u) = n + 1 PROVE Picked(u, S) = Picked(u, T)
    OBVIOUS
  <2>0. Len(u) # 0 /\ Len(u) - 1 = n
    OBVIOUS
  <2>1. PICK v \in Seq(B), e \in B : u = Append(v, e) /\ Len(v) = n
    <3> HIDE DEF U
    <3> QED
      BY <2>0, LastOfSeq
  <2>2. Picked(v, S) = Picked(v, T)
    BY <1>2, <2>1
  <2> HIDE DEF U
  <2>3. Picked(Append(v, e), S) = IF e \in S THEN Append(Picked(v, S), e) ELSE Picked(v, S)
    BY PickedAppend
  <2>4. Picked(Append(v, e), T) = IF e \in T THEN Append(Picked(v, T), e) ELSE Picked(v, T)
    BY PickedAppend
  <2> QED
    BY <2>1, <2>2, <2>3, <2>4
<1>3. Nat \subseteq U
  <2> HIDE DEF U
  <2> QED
    BY <1>1, <1>2, AllNats
<1> QED
  BY <1>3

\* What is picked from what was picked.
LEMMA PickedTwice ==
    ASSUME NEW B, NEW S, NEW T, NEW s \in Seq(B)
    PROVE  Picked(Picked(s, S), T) = Picked(s, S \cap T)
<1> DEFINE V(u) == Picked(Picked(u, S), T) = Picked(u, S \cap T)
           U == {n \in Nat : \A u \in Seq(B) : Len(u) = n => V(u)}
<1> HIDE DEF V
<1>1. 0 \in U
  <2> SUFFICES ASSUME NEW u \in Seq(B), Len(u) = 0 PROVE V(u)
    OBVIOUS
  <2>1. u = <<>>
    OBVIOUS
  <2> QED
    BY <2>1, PickedEmpty DEF V
<1>2. ASSUME NEW n \in Nat, n \in U PROVE n + 1 \in U
  <2> SUFFICES ASSUME NEW u \in Seq(B), Len(u) = n + 1 PROVE V(u)
    OBVIOUS
  <2>0. Len(u) # 0 /\ Len(u) - 1 = n
    OBVIOUS
  <2>1. PICK v \in Seq(B), e \in B : u = Append(v, e) /\ Len(v) = n
    <3> HIDE DEF U
    <3> QED
      BY <2>0, LastOfSeq
  <2>2. Picked(Picked(v, S), T) = Picked(v, S \cap T)
    BY <1>2, <2>1 DEF V
  <2> HIDE DEF U
  <2>3. Picked(Append(v, e), S) = IF e \in S THEN Append(Picked(v, S), e) ELSE Picked(v, S)
    BY PickedAppend
  <2>4. Picked(Append(v, e), S \cap T) = IF e \in S \cap T THEN Append(Picked(v, S \cap T), e) ELSE Picked(v, S \cap T)
    BY PickedAppend
  <2>5. PICK w \in Seq(B) : w = Picked(v, S)
    BY PickedAppend
  <2>6. Picked(Append(w, e), T) = IF e \in T THEN Append(Picked(w, T), e) ELSE Picked(w, T)
    BY PickedAppend
  <2> QED
    BY <2>1, <2>2, <2>3, <2>4, <2>5, <2>6 DEF V
<1>3. Nat \subseteq U
  <2> HIDE DEF U
  <2> QED
    BY <1>1, <1>2, AllNats
<1>4. V(s)
  BY <1>3
<1> QED
  BY <1>4 DEF V

\* The elements of a sequence with one more.
LEMMA AppendHas ==
    ASSUME NEW A, NEW s \in Seq(A), NEW x \in A, NEW t, t = Append(s, x)
    PROVE  {t[i] : i \in DOMAIN t} = {s[i] : i \in DOMAIN s} \cup {x}
<1>2. t \in Seq(A) /\ Len(t) = Len(s) + 1 /\ t[Len(s) + 1] = x /\ Len(s) \in Nat
  OBVIOUS
<1>3. \A i \in 1 .. Len(s) : t[i] = s[i]
  OBVIOUS
<1>4. DOMAIN s = 1 .. Len(s) /\ DOMAIN t = 1 .. Len(s) + 1 /\ 1 .. Len(s) + 1 = (1 .. Len(s)) \cup {Len(s) + 1}
  BY <1>2
<1> QED
  BY <1>2, <1>3, <1>4

\* The elements that are picked are those that are in S.
LEMMA PickedHas ==
    ASSUME NEW B, NEW S, NEW s \in Seq(B), NEW p, p = Picked(s, S)
    PROVE  {p[i] : i \in DOMAIN p} = {s[i] : i \in DOMAIN s} \cap S
<1> DEFINE Of(t) == {t[i] : i \in DOMAIN t}
           U == {n \in Nat : \A u \in Seq(B) : Len(u) = n => Of(Picked(u, S)) = Of(u) \cap S}
<1>0. ASSUME NEW t \in Seq(B), NEW e \in B PROVE Of(Append(t, e)) = Of(t) \cup {e}
  <2> HIDE DEF U
  <2>1. PICK w : w = Append(t, e)
    OBVIOUS
  <2>2. {w[i] : i \in DOMAIN w} = {t[i] : i \in DOMAIN t} \cup {e}
    BY SMTT(20), <2>1, AppendHas
  <2> QED
    BY <2>1, <2>2
<1>1. 0 \in U
  <2> SUFFICES ASSUME NEW u \in Seq(B), Len(u) = 0 PROVE Of(Picked(u, S)) = Of(u) \cap S
    OBVIOUS
  <2>1. u = <<>> /\ Of(<<>>) = {}
    OBVIOUS
  <2>2. Picked(u, S) = <<>>
    BY <2>1, PickedEmpty
  <2> QED
    BY <2>1, <2>2
<1> HIDE DEF Of
<1>2. ASSUME NEW n \in Nat, n \in U PROVE n + 1 \in U
  <2> SUFFICES ASSUME NEW u \in Seq(B), Len(u) = n + 1 PROVE Of(Picked(u, S)) = Of(u) \cap S
    OBVIOUS
  <2>0. Len(u) # 0 /\ Len(u) - 1 = n
    OBVIOUS
  <2>1. PICK v \in Seq(B), e \in B : u = Append(v, e) /\ Len(v) = n
    <3> HIDE DEF U
    <3> QED
      BY <2>0, LastOfSeq
  <2>2. Of(Picked(v, S)) = Of(v) \cap S
    BY <1>2, <2>1
  <2> HIDE DEF U
  <2>3. Picked(Append(v, e), S) = IF e \in S THEN Append(Picked(v, S), e) ELSE Picked(v, S)
    BY PickedAppend
  <2>4. Picked(v, S) \in Seq(B)
    BY PickedAppend
  <2>5. Of(u) = Of(v) \cup {e} /\ Of(Append(Picked(v, S), e)) = Of(Picked(v, S)) \cup {e}
    BY <1>0, <2>1, <2>4
  <2> QED
    BY <2>1, <2>2, <2>3, <2>5
<1>3. Nat \subseteq U
  <2> HIDE DEF U
  <2> QED
    BY <1>1, <1>2, AllNats
<1>4. Of(Picked(s, S)) = Of(s) \cap S
  BY <1>3
<1> QED
  BY <1>4 DEF Of

-----------------------------------------------------------------------------
(* ShellFiles: the last list begun is about what the page shows.           *)

ListLoads == [nth : Nat, task : FileTasks, named : SUBSET TaskFiles, rows : SUBSET TaskFiles]
FindTypes == [at : {"none", "called", "saving", "storing"}, path : FilePaths \cup {0}, inMessage : BOOLEAN]

\* The rows of a task among some.
RowsOf(R, t) == {f \in R : f.task = t}

\* The rows of the task shown do not change any more.
RowsSettled == stage = "over" \/ shownTask # 1

\* A list that is being read will be right.
FitsPage(l) ==
    /\ l.nth = listsBegun /\ l.task = shownTask /\ l.named = named
    /\ RowsSettled => RowsOf(l.rows, shownTask) = RowsOf(fileRows, shownTask)

FilesTyped ==
    /\ shownTask \in FileTasks /\ loadedTo \in {"nothing", "task", "messages"}
    /\ named \subseteq TaskFiles /\ fileRows \subseteq TaskFiles /\ artifacts \subseteq TaskFiles
    /\ stored \in [FileTasks -> SUBSET TaskFiles]
    /\ stage \in {"reading", "over", "stopped"} /\ found \in FindTypes
    /\ finds \in 0 .. MaxFound /\ opens \in 0 .. MaxOpens
    /\ artifactLoads \subseteq ListLoads /\ listsBegun \in Nat
    /\ overtaken \in BOOLEAN /\ visible \in BOOLEAN /\ hasAutoExpanded \in BOOLEAN

\* What is found is saved while the run is not over.
FindsInv ==
    /\ found.at # "none" => found.path \in FilePaths
    /\ found.at \in {"saving", "storing"} => stage # "over"

LoadsInv ==
    /\ \A l \in artifactLoads : l.nth \in 1 .. listsBegun
    /\ \A l, m \in artifactLoads : l.nth = m.nth => l = m
    /\ ~overtaken => artifactLoads = {} \/ \E l \in artifactLoads : l.nth = listsBegun

FileListInv ==
    loadedTo = "messages" /\ RowsSettled /\ ~overtaken =>
        \/ \E l \in artifactLoads : FitsPage(l)
        \/ artifactLoads = {} /\ artifacts = named \cup RowsOf(fileRows, shownTask)

BarInv == expansions \in 0 .. 1 /\ (~hasAutoExpanded => expansions = 0)

FilesInv == FilesTyped /\ FindsInv /\ LoadsInv /\ FileListInv /\ BarInv

LEMMA FilesBegin == ASSUME FilesInit PROVE FilesInv
<1>1. fileRows \subseteq TaskFiles /\ NoFind \in FindTypes /\ NoFind.at = "none"
  BY FilesAssumption DEF FilesInit, TaskFiles, NoFind, FindTypes
<1>2. FilesTyped
  <2>1. stored \in [FileTasks -> SUBSET TaskFiles] /\ 0 \in 0 .. MaxFound /\ 0 \in 0 .. MaxOpens /\ found \in FindTypes
    BY <1>1, FilesAssumption DEF FilesInit
  <2> QED
    BY <1>1, <2>1, FilesAssumption DEF FilesInit, FilesTyped
<1>3. FindsInv /\ BarInv
  BY <1>1 DEF FilesInit, FindsInv, BarInv
<1>4. LoadsInv /\ FileListInv
  BY DEF FilesInit, LoadsInv, FileListInv, RowsSettled
<1> QED
  BY <1>2, <1>3, <1>4 DEF FilesInv

\* The sidebar opens itself at most once.
LEMMA AutoExpandKeeps ==
    ASSUME BarInv, NEW content, AutoExpand(content) \/ UNCHANGED barVars,
           visible \in BOOLEAN, hasAutoExpanded \in BOOLEAN
    PROVE  BarInv' /\ visible' \in BOOLEAN /\ hasAutoExpanded' \in BOOLEAN
<1>1. CASE UNCHANGED barVars
  BY <1>1 DEF barVars, BarInv
<1>2. CASE loadedTo' = "messages" /\ ~hasAutoExpanded /\ content /\ AutoExpand(content)
  <2>1. expansions = 0
    BY <1>2 DEF BarInv
  <2> QED
    BY <1>2, <2>1 DEF AutoExpand, BarInv, Expands
<1> QED
  BY <1>1, <1>2 DEF AutoExpand

\* A new list for what the page shows then.
LEMMA LoadBegun ==
    ASSUME FilesTyped, LoadsInv, NEW names \in SUBSET TaskFiles, LoadArtifacts(names),
           overtaken' = overtaken, shownTask' = shownTask, fileRows' = fileRows, named' = names
    PROVE  /\ artifactLoads' \subseteq ListLoads /\ listsBegun' \in Nat
           /\ LoadsInv' /\ FileListInv'
<1>0. PICK l : l = [nth |-> listsBegun + 1, task |-> shownTask, named |-> names, rows |-> fileRows]
  OBVIOUS
<1>1. l \in ListLoads /\ l.nth = listsBegun + 1 /\ l.task = shownTask /\ l.named = names /\ l.rows = fileRows
  BY <1>0 DEF FilesTyped, ListLoads
<1>2. artifactLoads' = artifactLoads \cup {l} /\ listsBegun' = listsBegun + 1 /\ listsBegun \in Nat
  BY <1>0 DEF LoadArtifacts, FilesTyped
<1>3. artifactLoads' \subseteq ListLoads /\ listsBegun' \in Nat
  BY <1>1, <1>2 DEF FilesTyped
<1>4. \A m \in artifactLoads : m.nth \in 1 .. listsBegun
  BY DEF LoadsInv
<1>5. LoadsInv'
  <2>1. ASSUME NEW a \in artifactLoads', NEW b \in artifactLoads', a.nth = b.nth PROVE a = b
    BY <1>1, <1>2, <1>4, <2>1 DEF LoadsInv
  <2>2. \A a \in artifactLoads' : a.nth \in 1 .. listsBegun'
    BY <1>1, <1>2, <1>4
  <2>3. l \in artifactLoads' /\ l.nth = listsBegun'
    BY <1>1, <1>2
  <2> QED
    BY <2>1, <2>2, <2>3 DEF LoadsInv
<1>6. l \in artifactLoads' /\ FitsPage(l)'
  BY <1>1, <1>2 DEF FitsPage
<1>7. FileListInv'
  BY <1>6 DEF FileListInv
<1> QED
  BY <1>3, <1>5, <1>7

\* A list is answered: it was the last, or the last is still to come.
LEMMA AnswerKeeps == ASSUME FilesInv, ArtifactsAnswered PROVE FilesInv'
<1>0. PICK l \in artifactLoads : \E r \in {l.rows, fileRows} :
         /\ artifactLoads' = artifactLoads \ {l}
         /\ artifacts' = l.named \cup {f \in r : f.task = l.task}
         /\ overtaken' = (overtaken \/ \E m \in artifactLoads : m.nth < l.nth)
         /\ UNCHANGED <<shownTask, loadedTo, named, runVars, listsBegun, opens>>
         /\ AutoExpand(artifacts' # {})
  BY DEF ArtifactsAnswered
<1>1. PICK r \in {l.rows, fileRows} :
         /\ artifactLoads' = artifactLoads \ {l}
         /\ artifacts' = l.named \cup {f \in r : f.task = l.task}
         /\ overtaken' = (overtaken \/ \E m \in artifactLoads : m.nth < l.nth)
         /\ UNCHANGED <<shownTask, loadedTo, named, runVars, listsBegun, opens>>
         /\ AutoExpand(artifacts' # {})
  BY <1>0
<1>2. l \in ListLoads /\ l.nth \in Nat /\ listsBegun \in Nat /\ l.nth <= listsBegun
  <2>1. l \in ListLoads /\ listsBegun \in Nat /\ l.nth \in 1 .. listsBegun
    BY DEF FilesInv, FilesTyped, LoadsInv
  <2> QED
    BY <2>1
<1>3. r \subseteq TaskFiles /\ l.named \subseteq TaskFiles
  BY <1>1, <1>2 DEF FilesInv, FilesTyped, ListLoads
<1>4. BarInv' /\ visible' \in BOOLEAN /\ hasAutoExpanded' \in BOOLEAN
  BY <1>1, AutoExpandKeeps DEF FilesInv, FilesTyped
<1>5. FilesTyped'
  <2>1. artifacts' \subseteq TaskFiles
    BY <1>1, <1>3
  <2>2. overtaken' \in BOOLEAN /\ artifactLoads' \subseteq ListLoads
    BY <1>1 DEF FilesInv, FilesTyped
  <2> QED
    BY <1>1, <1>4, <2>1, <2>2 DEF FilesInv, FilesTyped, runVars
<1>6. FindsInv'
  BY <1>1 DEF FilesInv, FindsInv, runVars
<1>7. ASSUME ~overtaken', l.nth = listsBegun PROVE artifactLoads' = {}
  <2> SUFFICES ASSUME NEW m \in artifactLoads PROVE m = l
    BY <1>1
  <2>3. m.nth \in 1 .. listsBegun
    BY DEF FilesInv, LoadsInv
  <2>4. ~(m.nth < l.nth)
    BY <1>1, <1>7, Zenon
  <2>1. m.nth \in Nat /\ ~(m.nth < l.nth) /\ m.nth <= listsBegun
    BY <1>2, <2>3, <2>4
  <2>2. m.nth = l.nth
    BY <1>2, <1>7, <2>1
  <2> QED
    BY <2>2 DEF FilesInv, LoadsInv
<1>8. LoadsInv'
  <2>1. ASSUME ~overtaken' PROVE artifactLoads' = {} \/ \E m \in artifactLoads' : m.nth = listsBegun'
    <3>1. CASE l.nth = listsBegun
      BY <1>7, <2>1, <3>1
    <3>2. CASE l.nth # listsBegun
      <4>1. PICK m \in artifactLoads : m.nth = listsBegun
        BY <1>1, <2>1 DEF FilesInv, LoadsInv
      <4>2. m \in artifactLoads' /\ m.nth = listsBegun'
        BY <1>1, <3>2, <4>1
      <4> QED
        BY <4>2
    <3> QED
      BY <3>1, <3>2
  <2>2. listsBegun' = listsBegun /\ artifactLoads' \subseteq artifactLoads
    BY <1>1
  <2>3. /\ \A m \in artifactLoads' : m.nth \in 1 .. listsBegun'
        /\ \A m, k \in artifactLoads' : m.nth = k.nth => m = k
    BY <2>2 DEF FilesInv, LoadsInv
  <2> QED
    BY <2>1, <2>3 DEF LoadsInv
<1>9. FileListInv'
  <2> SUFFICES ASSUME (loadedTo = "messages" /\ RowsSettled /\ ~overtaken)'
               PROVE  (\/ \E m \in artifactLoads : FitsPage(m)
                       \/ artifactLoads = {} /\ artifacts = named \cup RowsOf(fileRows, shownTask))'
    BY DEF FileListInv
  <2>1. loadedTo = "messages" /\ RowsSettled /\ ~overtaken
    BY <1>1 DEF RowsSettled, runVars
  <2>2. PICK m \in artifactLoads : FitsPage(m)
    BY <2>1 DEF FilesInv, FileListInv
  <2>3. CASE m = l
    <3>1. artifactLoads' = {}
      BY <1>7, <2>2, <2>3 DEF FitsPage
    <3>2. l.task = shownTask /\ l.named = named /\ RowsOf(l.rows, shownTask) = RowsOf(fileRows, shownTask)
      BY <2>1, <2>2, <2>3 DEF FitsPage
    <3>3. artifacts' = named \cup RowsOf(fileRows, shownTask)
      BY <1>1, <3>2 DEF RowsOf
    <3> QED
      BY <1>1, <3>1, <3>3 DEF RowsOf, runVars
  <2>4. CASE m # l
    <3>1. m \in artifactLoads'
      BY <1>1, <2>4
    <3>2. FitsPage(m)'
      BY <1>1, <2>2 DEF FitsPage, RowsSettled, RowsOf, runVars
    <3> QED
      BY <3>1, <3>2
  <2> QED
    BY <2>3, <2>4
<1> QED
  BY <1>4, <1>5, <1>6, <1>8, <1>9 DEF FilesInv

LEMMA OpenFilesKeeps == ASSUME FilesInv, NEW t \in FileTasks, OpenTaskPage(t) PROVE FilesInv'
<1>0. PICK l, m :
         /\ l = [nth |-> listsBegun + 1, task |-> t, named |-> named, rows |-> fileRows]
         /\ m = [nth |-> listsBegun + 2, task |-> t, named |-> {}, rows |-> fileRows]
  OBVIOUS
<1>1. /\ l \in ListLoads /\ m \in ListLoads /\ l.nth = listsBegun + 1 /\ m.nth = listsBegun + 2
      /\ listsBegun \in Nat
  BY <1>0 DEF FilesInv, FilesTyped, ListLoads
<1>2. /\ named' = named \/ named' = {}
      /\ \/ artifactLoads' = artifactLoads \cup {l} /\ listsBegun' = listsBegun + 1
         \/ artifactLoads' = artifactLoads \cup {l, m} /\ listsBegun' = listsBegun + 2
  BY <1>0 DEF OpenTaskPage
<1>3. /\ loadedTo' = "nothing" /\ opens' \in 0 .. MaxOpens /\ shownTask' = t /\ artifacts' = {}
      /\ hasAutoExpanded' = FALSE /\ visible' = FALSE /\ expansions' = 0
      /\ UNCHANGED <<runVars, overtaken>>
  BY FilesAssumption DEF OpenTaskPage, FilesInv, FilesTyped
<1>4. FilesTyped'
  <2>1. artifactLoads' \subseteq ListLoads /\ named' \subseteq TaskFiles
    BY <1>1, <1>2 DEF FilesInv, FilesTyped
  <2>2. listsBegun' \in Nat
    BY <1>1, <1>2
  <2> QED
    BY <1>3, <2>1, <2>2 DEF FilesInv, FilesTyped, runVars
<1>5. FindsInv' /\ FileListInv' /\ BarInv'
  BY <1>3 DEF FilesInv, FindsInv, FileListInv, BarInv, runVars
<1>6. LoadsInv'
  <2>1. \A a \in artifactLoads : a.nth \in 1 .. listsBegun
    BY DEF FilesInv, LoadsInv
  <2>2. \A a \in artifactLoads' : a.nth \in 1 .. listsBegun'
    BY <1>1, <1>2, <2>1
  <2>3. ASSUME NEW a \in artifactLoads', NEW b \in artifactLoads', a.nth = b.nth PROVE a = b
    BY <1>1, <1>2, <2>1, <2>3 DEF FilesInv, LoadsInv
  <2>4. \E a \in artifactLoads' : a.nth = listsBegun'
    <3>1. CASE listsBegun' = listsBegun + 1 /\ artifactLoads' = artifactLoads \cup {l}
      <4>1. l \in artifactLoads' /\ l.nth = listsBegun'
        BY <1>1, <3>1
      <4> QED
        BY <4>1
    <3>2. CASE listsBegun' = listsBegun + 2 /\ artifactLoads' = artifactLoads \cup {l, m}
      <4>1. m \in artifactLoads' /\ m.nth = listsBegun'
        BY <1>1, <3>2
      <4> QED
        BY <4>1
    <3> QED
      BY <1>2, <3>1, <3>2
  <2> QED
    BY <2>2, <2>3, <2>4 DEF LoadsInv
<1> QED
  BY <1>4, <1>5, <1>6 DEF FilesInv

LEMMA MessagesLoadedKeep == ASSUME FilesInv, MessagesLoaded PROVE FilesInv'
<1>1. /\ loadedTo' = "messages" /\ named' = stored[shownTask]
      /\ UNCHANGED <<shownTask, runVars, overtaken, artifacts, opens>>
      /\ LoadArtifacts(stored[shownTask]) /\ AutoExpand(artifacts # {})
  BY DEF MessagesLoaded
<1>2. PICK names \in SUBSET TaskFiles : names = stored[shownTask]
  BY DEF FilesInv, FilesTyped
<1>3. /\ artifactLoads' \subseteq ListLoads /\ listsBegun' \in Nat
      /\ LoadsInv' /\ FileListInv'
  BY <1>1, <1>2, LoadBegun DEF FilesInv, runVars
<1>4. BarInv' /\ visible' \in BOOLEAN /\ hasAutoExpanded' \in BOOLEAN
  BY <1>1, AutoExpandKeeps DEF FilesInv, FilesTyped
<1>5. FilesTyped' /\ FindsInv'
  BY <1>1, <1>2, <1>3, <1>4 DEF FilesInv, FilesTyped, FindsInv, runVars
<1> QED
  BY <1>3, <1>4, <1>5 DEF FilesInv

\* A message of the run reaches the page, if it is the run's.
LEMMA RunStepKeeps ==
    ASSUME FilesInv, NEW files \in SUBSET TaskFiles, RunStep(files),
           stage' \in {"reading", "over", "stopped"}, stage = "over" => stage' = "over", shownTask = 1
    PROVE  /\ named' \subseteq TaskFiles /\ artifactLoads' \subseteq ListLoads /\ listsBegun' \in Nat
           /\ LoadsInv' /\ FileListInv'
<1>1. /\ UNCHANGED <<shownTask, loadedTo, fileRows, overtaken, artifacts, opens>>
      /\ Shows(files)
  BY DEF RunStep
<1>2. CASE loadedTo = "messages"
  <2>1. PICK names \in SUBSET TaskFiles : names = named \cup files
    BY DEF FilesInv, FilesTyped
  <2>2. named' = names /\ LoadArtifacts(names)
    BY <1>1, <1>2, <2>1 DEF Shows, ReadAgain
  <2> QED
    BY <1>1, <2>2, LoadBegun DEF FilesInv
<1>3. CASE loadedTo # "messages"
  <2>1. UNCHANGED <<named, artifactLoads, listsBegun>> /\ loadedTo' # "messages"
    BY <1>1, <1>3 DEF Shows
  <2>2. LoadsInv'
    BY <1>1, <2>1 DEF FilesInv, LoadsInv
  <2>3. FileListInv'
    BY <2>1 DEF FileListInv
  <2> QED
    BY <2>1, <2>2, <2>3 DEF FilesInv, FilesTyped
<1> QED
  BY <1>2, <1>3

\* Nor does it change a page that shows another task.
LEMMA RunStepElsewhere ==
    ASSUME FilesInv, NEW files, RunStep(files), shownTask # 1
    PROVE  /\ named' \subseteq TaskFiles /\ artifactLoads' \subseteq ListLoads /\ listsBegun' \in Nat
           /\ LoadsInv' /\ FileListInv'
<1>1. UNCHANGED <<shownTask, loadedTo, fileRows, overtaken, artifacts, opens, named, artifactLoads, listsBegun>>
  BY DEF RunStep, Shows
<1>2. LoadsInv'
  BY <1>1 DEF FilesInv, LoadsInv
<1>3. FileListInv'
  BY <1>1 DEF FilesInv, FileListInv, RowsSettled, FitsPage, RowsOf
<1> QED
  BY <1>1, <1>2, <1>3 DEF FilesInv, FilesTyped

\* A step of the run that shows a message.
LEMMA RunShowsKeeps ==
    ASSUME FilesInv, NEW files \in SUBSET TaskFiles, RunStep(files),
           stage' \in {"reading", "over", "stopped"}, stage = "over" => stage' = "over",
           found' \in FindTypes, finds' \in 0 .. MaxFound, stored' \in [FileTasks -> SUBSET TaskFiles],
           FindsInv'
    PROVE  FilesInv'
<1>1. /\ named' \subseteq TaskFiles /\ artifactLoads' \subseteq ListLoads /\ listsBegun' \in Nat
      /\ LoadsInv' /\ FileListInv'
  BY RunStepKeeps, RunStepElsewhere
<1>2. /\ UNCHANGED <<shownTask, loadedTo, fileRows, overtaken, artifacts, opens>>
      /\ AutoExpand(artifacts # {})
  BY DEF RunStep
<1>3. BarInv' /\ visible' \in BOOLEAN /\ hasAutoExpanded' \in BOOLEAN
  BY <1>2, AutoExpandKeeps DEF FilesInv, FilesTyped
<1>4. FilesTyped'
  BY <1>1, <1>2, <1>3 DEF FilesInv, FilesTyped
<1> QED
  BY <1>1, <1>3, <1>4 DEF FilesInv

LEMMA InRunTyped == ASSUME NEW p \in FilePaths PROVE InRun(p) \in SUBSET TaskFiles /\ {} \in SUBSET TaskFiles
  BY FilesAssumption DEF InRun, TaskFiles

LEMMA StoredGrows ==
    ASSUME FilesTyped, NEW p \in FilePaths
    PROVE  [stored EXCEPT ![1] = @ \cup InRun(p)] \in [FileTasks -> SUBSET TaskFiles]
<1>1. stored[1] \cup InRun(p) \in SUBSET TaskFiles
  BY InRunTyped, FilesAssumption DEF FilesTyped
<1> QED
  BY <1>1 DEF FilesTyped

LEMMA CallFoundKeeps == ASSUME FilesInv, CallFound PROVE FilesInv'
<1>1. PICK p \in FilePaths, writes \in BOOLEAN :
        /\ found' = [at |-> "called", path |-> p, inMessage |-> writes] /\ Finds
        /\ stored' = (IF writes THEN [stored EXCEPT ![1] = @ \cup InRun(p)] ELSE stored)
        /\ RunStep(IF writes THEN InRun(p) ELSE {})
  BY DEF CallFound
<1>2. PICK files \in SUBSET TaskFiles : files = IF writes THEN InRun(p) ELSE {}
  BY InRunTyped
<1>3. found' \in FindTypes /\ found'.at = "called" /\ found'.path = p
  BY <1>1 DEF FindTypes
<1>4. stage' = stage /\ finds' \in 0 .. MaxFound /\ stage = "reading"
  BY <1>1, FilesAssumption DEF Finds, FilesInv, FilesTyped
<1>5. stored' \in [FileTasks -> SUBSET TaskFiles]
  BY <1>1, StoredGrows DEF FilesInv, FilesTyped
<1>6. FindsInv'
  BY <1>3 DEF FindsInv
<1> QED
  BY <1>1, <1>2, <1>3, <1>4, <1>5, <1>6, RunShowsKeeps

LEMMA ResultFoundKeeps == ASSUME FilesInv, ResultFound PROVE FilesInv'
<1>1. PICK names \in BOOLEAN :
        /\ stage = "reading" /\ found.at = "called"
        /\ found' = [found EXCEPT !.at = "saving", !.inMessage = names]
        /\ UNCHANGED <<stage, stored, finds>> /\ RunStep(IF names THEN InRun(found.path) ELSE {})
  BY DEF ResultFound
<1>2. PICK p \in FilePaths : p = found.path
  BY <1>1 DEF FilesInv, FindsInv
<1>3. PICK files \in SUBSET TaskFiles : files = IF names THEN InRun(p) ELSE {}
  BY InRunTyped
<1>4. found' \in FindTypes /\ found'.at = "saving" /\ found'.path = p
  BY <1>1, <1>2 DEF FindTypes, FilesInv, FilesTyped
<1>5. FindsInv'
  BY <1>1, <1>4 DEF FindsInv
<1>6. /\ stage' \in {"reading", "over", "stopped"} /\ (stage = "over" => stage' = "over")
      /\ finds' \in 0 .. MaxFound /\ stored' \in [FileTasks -> SUBSET TaskFiles]
  BY <1>1 DEF FilesInv, FilesTyped
<1>7. RunStep(files)
  BY <1>1, <1>2, <1>3
<1> QED
  BY <1>4, <1>5, <1>6, <1>7, RunShowsKeeps

LEMMA TextFoundKeeps == ASSUME FilesInv, TextFound PROVE FilesInv'
<1>1. PICK p \in FilePaths :
        /\ found' = [at |-> "saving", path |-> p, inMessage |-> TRUE] /\ Finds
        /\ UNCHANGED stored /\ RunStep(InRun(p))
  BY DEF TextFound
<1>2. InRun(p) \in SUBSET TaskFiles
  BY InRunTyped
<1>3. found' \in FindTypes /\ found'.at = "saving" /\ found'.path = p
  BY <1>1 DEF FindTypes
<1>4. stage' = stage /\ finds' \in 0 .. MaxFound /\ stage = "reading"
  BY <1>1, FilesAssumption DEF Finds, FilesInv, FilesTyped
<1>5. stored' \in [FileTasks -> SUBSET TaskFiles]
  BY <1>1 DEF FilesInv, FilesTyped
<1>6. FindsInv'
  BY <1>3, <1>4 DEF FindsInv
<1> QED
  BY <1>1, <1>2, <1>3, <1>4, <1>5, <1>6, RunShowsKeeps

LEMMA FinishesKeeps == ASSUME FilesInv, Finishes PROVE FilesInv'
<1>1. stage = "reading" /\ ReadsNext /\ stage' = "over" /\ UNCHANGED <<stored, found, finds>> /\ RunStep({})
  BY DEF Finishes
<1>2. FindsInv'
  BY <1>1 DEF ReadsNext, FilesInv, FindsInv
<1> QED
  BY <1>1, <1>2, RunShowsKeeps DEF FilesInv, FilesTyped

LEMMA RowInsertedKeeps == ASSUME FilesInv, ExtractAndSaveFiles PROVE FilesInv'
<1>1. /\ found.at = "saving" /\ found' = [found EXCEPT !.at = "storing"]
      /\ fileRows' \in {fileRows, fileRows \cup InRun(found.path)}
      /\ UNCHANGED <<shownTask, loadedTo, named, stored, stage, finds, loadVars, opens, barVars>>
  BY DEF ExtractAndSaveFiles
<1>2. PICK p \in FilePaths : p = found.path
  BY <1>1 DEF FilesInv, FindsInv
<1>3. found' \in FindTypes /\ found'.at = "storing" /\ found'.path = p /\ stage # "over"
  BY <1>1, <1>2 DEF FindTypes, FilesInv, FilesTyped, FindsInv
<1>4. FilesTyped' /\ FindsInv' /\ LoadsInv' /\ BarInv'
  <2>1. fileRows' \subseteq TaskFiles
    BY <1>1, <1>2, InRunTyped DEF FilesInv, FilesTyped
  <2> QED
    BY <1>1, <1>3, <2>1 DEF FilesInv, FilesTyped, FindsInv, LoadsInv, BarInv, loadVars, barVars
<1>5. FileListInv'
  <2> SUFFICES ASSUME RowsSettled' PROVE FileListInv'
    BY DEF FileListInv
  <2>1. shownTask # 1 /\ RowsSettled
    BY <1>1, <1>3 DEF RowsSettled
  <2>2. RowsOf(fileRows', shownTask) = RowsOf(fileRows, shownTask)
    BY <1>1, <2>1 DEF RowsOf, InRun
  <2> QED
    BY <1>1, <2>1, <2>2 DEF FilesInv, FileListInv, FitsPage, loadVars
<1> QED
  BY <1>4, <1>5 DEF FilesInv

LEMMA StoreMessageKeeps == ASSUME FilesInv, StoreMessage PROVE FilesInv'
<1>1. /\ found.at = "storing" /\ found' = NoFind
      /\ stored' = (IF found.inMessage THEN [stored EXCEPT ![1] = @ \cup InRun(found.path)] ELSE stored)
      /\ UNCHANGED <<shownTask, loadedTo, named, fileRows, stage, finds, loadVars, opens, barVars>>
  BY DEF StoreMessage
<1>2. PICK p \in FilePaths : p = found.path
  BY <1>1 DEF FilesInv, FindsInv
<1>3. stored' \in [FileTasks -> SUBSET TaskFiles]
  BY <1>1, <1>2, StoredGrows DEF FilesInv, FilesTyped
<1>4. found' \in FindTypes /\ found'.at = "none"
  BY <1>1 DEF FindTypes, NoFind
<1>5. FilesTyped' /\ FindsInv' /\ LoadsInv' /\ BarInv'
  BY <1>1, <1>3, <1>4 DEF FilesInv, FilesTyped, FindsInv, LoadsInv, BarInv, loadVars, barVars
<1>6. FileListInv'
  BY <1>1 DEF FilesInv, FileListInv, FitsPage, RowsSettled, loadVars
<1> QED
  BY <1>5, <1>6 DEF FilesInv

LEMMA FilesStep == ASSUME FilesInv, [FilesNext]_fileVars PROVE FilesInv'
<1>1. CASE UNCHANGED fileVars
  BY <1>1 DEF fileVars, FilesInv, FilesTyped, FindsInv, LoadsInv, FileListInv, BarInv, FitsPage, RowsSettled, RowsOf
<1>2. CASE TaskLoaded
  BY <1>2 DEF TaskLoaded, runVars, loadVars, barVars, FilesInv, FilesTyped, FindsInv, LoadsInv, FileListInv, BarInv
<1>3. CASE ToggleSidebar
  BY <1>3 DEF ToggleSidebar, runVars, loadVars, FilesInv, FilesTyped, FindsInv, LoadsInv, FileListInv, BarInv, FitsPage,
     RowsSettled, RowsOf
<1>4. CASE StopRun
  <2>1. stage = "reading" /\ stage' = "stopped"
        /\ UNCHANGED <<shownTask, loadedTo, named, stored, fileRows, found, finds, loadVars, opens, barVars>>
    BY <1>4 DEF StopRun
  <2>2. FilesTyped' /\ FindsInv' /\ LoadsInv' /\ BarInv'
    BY <2>1 DEF FilesInv, FilesTyped, FindsInv, LoadsInv, BarInv, loadVars, barVars
  <2>3. FileListInv'
    BY <2>1 DEF FilesInv, FileListInv, FitsPage, RowsSettled, loadVars
  <2> QED
    BY <2>2, <2>3 DEF FilesInv
<1> QED
  BY <1>1, <1>2, <1>3, <1>4, AnswerKeeps, OpenFilesKeeps, MessagesLoadedKeep, CallFoundKeeps, ResultFoundKeeps,
     TextFoundKeeps, RowInsertedKeeps, StoreMessageKeeps, FinishesKeeps DEF FilesNext

LEMMA FilesShow == ASSUME FilesInv PROVE FilesTypeOK /\ ListIsComplete /\ OpensItselfOnce
<1>1. FilesTypeOK
  <2>1. \A l \in artifactLoads : l.nth \in 1 .. listsBegun /\ l.task \in FileTasks
    BY DEF FilesInv, FilesTyped, LoadsInv, ListLoads
  <2>2. found.at \in {"none", "called", "saving", "storing"} /\ found.path \in FilePaths \cup {0}
    BY DEF FilesInv, FilesTyped, FindTypes
  <2>3. expansions \in Nat
    BY DEF FilesInv, BarInv
  <2> QED
    BY <2>1, <2>2, <2>3 DEF FilesInv, FilesTyped, FilesTypeOK
<1>2. ListIsComplete
  BY DEF FilesInv, FileListInv, ListIsComplete, RowsSettled, RowsOf
<1>3. OpensItselfOnce
  BY DEF FilesInv, BarInv, OpensItselfOnce
<1> QED
  BY <1>1, <1>2, <1>3

\* A task's files on its page: once its run is over and nothing is being read,
\* the list has what the messages name and what was saved, and no more, and
\* the sidebar opens itself once a task, for any tasks, paths and loads
\* (TaskDetail.tsx:180-237, 390-545).
THEOREM FilesListed == FilesSpec => [](FilesTypeOK /\ ListIsComplete /\ OpensItselfOnce)
<1>1. FilesInit => FilesInv
  BY FilesBegin
<1>2. FilesInv /\ [FilesNext]_fileVars => FilesInv'
  BY FilesStep
<1>3. FilesInv => FilesTypeOK /\ ListIsComplete /\ OpensItselfOnce
  BY FilesShow
<1> QED
  BY <1>1, <1>2, <1>3, PTL DEF FilesSpec

-----------------------------------------------------------------------------
(* ShellArtifacts: a load is its effect's, and of the artifact chosen while *)
(* no load outlived its effect.                                            *)

ArtifactLoads == [file : Files, effect : Nat, at : {"sizing", "reading"}, here : BOOLEAN]

ArtifactsTyped ==
    /\ viewer \in Viewers /\ source \in [Files -> Sources] /\ chosen \in Files \cup {0}
    /\ effect \in 0 .. MaxLooks /\ loads \subseteq ArtifactLoads
    /\ \A l \in loads : l.effect \in 1 .. effect
    /\ displayed \in [file : Files \cup {0}, url : 0 .. effect]
    /\ error \in Files \cup {0} /\ fileTooLarge \in Files \cup {0}
    /\ loading \in BOOLEAN /\ outlivedHere \in BOOLEAN
    /\ urls \subseteq 1 .. effect /\ outlived \subseteq 1 .. effect

\* A load of the last effect is about what is chosen; any other was there when
\* its effect was cleaned up, and of this viewer only if one outlived it here.
LoadFits(l) ==
    \/ chosen # 0 /\ l.effect = effect /\ l.here /\ l.file = chosen
    \/ l.effect \in outlived /\ (chosen = 0 \/ l.effect # effect) /\ (l.here => chosen # 0 /\ outlivedHere)

ArtifactsInv ==
    /\ ArtifactsTyped /\ ViewersShowTheirs /\ UrlsAreRevoked
    /\ \A l, m \in loads : l.effect = m.effect => l = m
    /\ \A l \in loads : LoadFits(l)

LEMMA ArtifactsBegin == ASSUME ArtifactsInit PROVE ArtifactsInv
<1>1. NoFile \in [file : Files \cup {0}, url : 0 .. 0] /\ 0 \in 0 .. MaxLooks
  BY ArtifactsAssumption DEF NoFile
<1>2. source \in [Files -> Sources]
  BY DEF ArtifactsInit
<1> QED
  BY <1>1, <1>2 DEF ArtifactsInit, ArtifactsInv, ArtifactsTyped, ViewersShowTheirs, UrlsAreRevoked

\* What an effect does before its first await: the viewer shows what it is
\* given, or waits for it.
LEMMA EffectBegins ==
    ASSUME ArtifactsTyped, effect < MaxLooks, NEW f \in Files, NEW e \in Files \cup {0},
           Begins(f, e), effect' = effect + 1, chosen' = f, UNCHANGED <<viewer, source>>,
           urls' \subseteq urls, fileTooLarge' \in Files \cup {0}, outlivedHere' \in BOOLEAN,
           outlived' \subseteq 1 .. effect, outlived \subseteq outlived',
           urls' \subseteq outlived',
           chosen # 0 => e = error, chosen = 0 => e = 0,
           \A l, m \in loads : l.effect = m.effect => l = m,
           \A l \in loads : l.effect \in outlived' /\ (l.here => outlivedHere')
    PROVE  ArtifactsInv'
<1>1. PICK n \in Nat : n = effect /\ n < MaxLooks /\ effect' = n + 1
  BY ArtifactsAssumption DEF ArtifactsTyped
<1>2. effect' \in 0 .. MaxLooks
  BY <1>1, ArtifactsAssumption
<1>3. PICK l : l = [file |-> f, effect |-> n + 1, here |-> TRUE,
                    at |-> IF source[f] # "remote" /\ LoadOf[viewer].sizes THEN "sizing" ELSE "reading"]
  OBVIOUS
<1>4. l \in ArtifactLoads /\ l.effect = n + 1 /\ l.here = TRUE /\ l.file = f
  BY <1>3 DEF ArtifactLoads
<1>5. \/ /\ loads' = loads \cup {l} /\ error' = e
         /\ loading' = (chosen = 0 \/ loading) /\ displayed' = (IF chosen = 0 THEN NoFile ELSE displayed)
      \/ /\ loads' = loads /\ loading' = FALSE
         /\ \/ source[f] = "content" /\ displayed' = [file |-> f, url |-> 0] /\ error' = e
            \/ error' = f /\ displayed' = (IF chosen = 0 THEN NoFile ELSE displayed)
            \/ displayed' = [file |-> f, url |-> 0] /\ error' = 0
  BY <1>1, <1>3 DEF Begins
<1>6. \A m \in loads : m.effect \in 1 .. n /\ m \in ArtifactLoads
  BY <1>1 DEF ArtifactsTyped
<1>7. displayed' \in [file : Files \cup {0}, url : 0 .. n + 1]
  <2>1. 0 .. n \subseteq 0 .. n + 1 /\ 0 \in 0 .. n + 1
    OBVIOUS
  <2>2. displayed \in [file : Files \cup {0}, url : 0 .. n + 1]
    BY <1>1, <2>1 DEF ArtifactsTyped
  <2>3. NoFile \in [file : Files \cup {0}, url : 0 .. n + 1] /\ [file |-> f, url |-> 0] \in [file : Files \cup {0}, url : 0 .. n + 1]
    BY <2>1 DEF NoFile
  <2> QED
    BY <1>5, <2>2, <2>3
<1>8. ArtifactsTyped'
  <2>1. loads' \subseteq ArtifactLoads /\ \A m \in loads' : m.effect \in 1 .. n + 1
    BY <1>4, <1>5, <1>6
  <2>2. urls' \subseteq 1 .. n + 1 /\ outlived' \subseteq 1 .. n + 1
    BY <1>1 DEF ArtifactsTyped
  <2>3. error' \in Files \cup {0} /\ loading' \in BOOLEAN
    BY <1>5 DEF ArtifactsTyped
  <2> QED
    BY <1>1, <1>2, <1>7, <2>1, <2>2, <2>3 DEF ArtifactsTyped
<1>9. \A a, b \in loads' : a.effect = b.effect => a = b
  BY <1>4, <1>5, <1>6
<1>10. chosen' # 0 /\ chosen' = f
  BY ArtifactsAssumption
<1>11. ASSUME NEW m \in loads' PROVE LoadFits(m)'
  <2>1. CASE m \in loads
    <3>1. m.effect # n + 1
      BY <1>6, <2>1
    <3> QED
      BY <1>1, <1>10, <2>1, <3>1 DEF LoadFits
  <2>2. CASE m = l
    BY <1>1, <1>4, <1>10, <2>2 DEF LoadFits
  <2> QED
    BY <1>5, <2>1, <2>2
<1>12. ViewersShowTheirs'
  <2>1. CASE loads' = loads \cup {l}
    <3>1. Unfinished' # {}
      <4>1. l \in loads' /\ l.effect = effect'
        BY <1>1, <1>4, <2>1
      <4> QED
        BY <4>1 DEF Unfinished
    <3> QED
      BY <3>1 DEF ViewersShowTheirs
  <2>2. CASE loading' = FALSE /\ source[f] = "content" /\ displayed' = [file |-> f, url |-> 0]
    BY <1>10, <2>2 DEF ViewersShowTheirs
  <2>3. CASE loading' = FALSE /\ error' = f
    BY <1>10, <2>3 DEF ViewersShowTheirs
  <2>4. CASE loading' = FALSE /\ displayed' = [file |-> f, url |-> 0] /\ error' = 0
    BY <1>10, <2>4 DEF ViewersShowTheirs
  <2> QED
    BY <1>5, <2>1, <2>2, <2>3, <2>4
<1>13. UrlsAreRevoked'
  BY DEF UrlsAreRevoked
<1> QED
  BY <1>8, <1>9, <1>11, <1>12, <1>13 DEF ArtifactsInv

LEMMA MountKeeps == ASSUME ArtifactsInv, Mount PROVE ArtifactsInv'
<1>1. PICK f \in Files : chosen' = f /\ effect' = effect + 1 /\ Begins(f, 0)
  BY DEF Mount
<1>2. /\ chosen = 0 /\ effect < MaxLooks /\ fileTooLarge' = 0 /\ outlivedHere' = FALSE
      /\ UNCHANGED <<viewer, source, urls, outlived>>
  BY DEF Mount
<1>3. \A l \in loads : l.effect \in outlived' /\ (l.here => outlivedHere')
  BY <1>2 DEF ArtifactsInv, LoadFits
<1>4. urls' \subseteq outlived' /\ outlived' \subseteq 1 .. effect /\ ArtifactsTyped
  BY <1>2 DEF ArtifactsInv, ArtifactsTyped, UrlsAreRevoked
<1> QED
  BY <1>1, <1>2, <1>3, <1>4, EffectBegins DEF ArtifactsInv

\* After a cleanup the URLs left are those of loads that outlived an effect,
\* and so is every load.
LEMMA CleanedOf ==
    ASSUME ArtifactsInv, CleansUp, chosen # 0
    PROVE  /\ urls' \subseteq urls /\ urls' \subseteq outlived' /\ outlived \subseteq outlived'
           /\ outlived' \subseteq 1 .. effect
           /\ \A l \in loads : l.effect \in outlived'
<1>1. urls' = urls \ {effect} /\ outlived' = outlived \cup {l.effect : l \in Unfinished}
  BY DEF CleansUp, Revokes
<1>2. \A l \in Unfinished : l.effect \in 1 .. effect
  BY DEF Unfinished, ArtifactsInv, ArtifactsTyped
<1>3. \A l \in loads : l.effect = effect => l \in Unfinished
  BY DEF Unfinished
<1>4. \A l \in loads : l.effect = effect \/ l.effect \in outlived
  BY DEF ArtifactsInv, LoadFits
<1>5. urls \subseteq outlived \cup {effect} /\ outlived \subseteq 1 .. effect
  BY DEF ArtifactsInv, ArtifactsTyped, UrlsAreRevoked
<1>6. outlived' \subseteq 1 .. effect
  BY <1>1, <1>2, <1>5
<1>7. \A l \in loads : l.effect \in outlived'
  BY <1>1, <1>3, <1>4
<1> QED
  BY <1>1, <1>5, <1>6, <1>7

LEMMA ViewChangeKeeps == ASSUME ArtifactsInv, ChangeArtifact PROVE ArtifactsInv'
<1>1. PICK f \in Files \ {chosen} :
         /\ chosen' = f /\ effect' = effect + 1 /\ CleansUp /\ Begins(f, error)
         /\ outlivedHere' = (outlivedHere \/ Unfinished # {})
  BY DEF ChangeArtifact, Reruns
<1>2. chosen # 0 /\ effect < MaxLooks /\ UNCHANGED <<viewer, source, fileTooLarge>>
  BY DEF ChangeArtifact
<1>3. \A l \in loads : l.here => outlivedHere'
  <2> SUFFICES ASSUME NEW l \in loads, l.here PROVE outlivedHere \/ Unfinished # {}
    BY <1>1
  <2>1. l.effect = effect \/ outlivedHere
    BY DEF ArtifactsInv, LoadFits
  <2>2. l.effect = effect => l \in Unfinished
    BY DEF Unfinished
  <2> QED
    BY <2>1, <2>2
<1>4. outlivedHere' \in BOOLEAN /\ fileTooLarge' \in Files \cup {0} /\ error \in Files \cup {0}
  BY <1>1, <1>2 DEF ArtifactsInv, ArtifactsTyped
<1>5. /\ urls' \subseteq urls /\ urls' \subseteq outlived' /\ outlived \subseteq outlived'
      /\ outlived' \subseteq 1 .. effect /\ \A l \in loads : l.effect \in outlived'
  BY <1>1, <1>2, CleanedOf
<1>6. ArtifactsTyped /\ \A l, m \in loads : l.effect = m.effect => l = m
  BY DEF ArtifactsInv
<1>7. f \in Files
  OBVIOUS
<1> QED
  BY <1>1, <1>2, <1>3, <1>4, <1>5, <1>6, <1>7, EffectBegins

LEMMA UnmountKeeps == ASSUME ArtifactsInv, Unmount PROVE ArtifactsInv'
<1>1. /\ chosen # 0 /\ chosen' = 0 /\ CleansUp
      /\ loads' = {[l EXCEPT !.here = FALSE] : l \in loads}
      /\ UNCHANGED <<viewer, source, effect, displayed, error, fileTooLarge, loading, outlivedHere>>
  BY DEF Unmount
<1>2. /\ urls' \subseteq urls /\ urls' \subseteq outlived' /\ outlived \subseteq outlived'
      /\ outlived' \subseteq 1 .. effect /\ \A l \in loads : l.effect \in outlived'
  BY <1>1, CleanedOf
<1>3. ASSUME NEW m \in loads'
      PROVE  \E l \in loads : m \in ArtifactLoads /\ m = [l EXCEPT !.here = FALSE] /\ m.effect = l.effect /\ m.here = FALSE
                              /\ m.file = l.file
  <2>1. PICK l \in loads : m = [l EXCEPT !.here = FALSE]
    BY <1>1
  <2>2. l \in ArtifactLoads
    BY DEF ArtifactsInv, ArtifactsTyped
  <2> QED
    BY <2>1, <2>2 DEF ArtifactLoads
<1>4. ArtifactsTyped'
  <2>1. loads' \subseteq ArtifactLoads
    BY <1>3
  <2>2. \A m \in loads' : m.effect \in 1 .. effect
    BY <1>3 DEF ArtifactsInv, ArtifactsTyped
  <2>3. urls' \subseteq 1 .. effect /\ outlived' \subseteq 1 .. effect
    BY <1>2 DEF ArtifactsInv, ArtifactsTyped
  <2> QED
    BY <1>1, <2>1, <2>2, <2>3 DEF ArtifactsInv, ArtifactsTyped
<1>5. \A m, k \in loads' : m.effect = k.effect => m = k
  <2> SUFFICES ASSUME NEW m \in loads', NEW k \in loads', m.effect = k.effect PROVE m = k
    OBVIOUS
  <2>1. PICK l \in loads : m = [l EXCEPT !.here = FALSE] /\ m.effect = l.effect
    BY <1>3
  <2>2. PICK j \in loads : k = [j EXCEPT !.here = FALSE] /\ k.effect = j.effect
    BY <1>3
  <2>3. l = j
    BY <2>1, <2>2 DEF ArtifactsInv
  <2> QED
    BY <2>1, <2>2, <2>3
<1>6. \A m \in loads' : LoadFits(m)'
  <2> SUFFICES ASSUME NEW m \in loads' PROVE LoadFits(m)'
    OBVIOUS
  <2>1. m.here = FALSE /\ m.effect \in outlived'
    BY <1>2, <1>3
  <2> QED
    BY <1>1, <2>1 DEF LoadFits
<1>7. ViewersShowTheirs' /\ UrlsAreRevoked'
  BY <1>1, <1>2 DEF ViewersShowTheirs, UrlsAreRevoked
<1> QED
  BY <1>4, <1>5, <1>6, <1>7 DEF ArtifactsInv

\* What is left when a load is gone.
LEMMA LoadGone ==
    ASSUME ArtifactsInv, NEW l \in loads, loads' \subseteq loads, loads \ {l} \subseteq loads',
           UNCHANGED <<viewer, source, chosen, effect, outlived, outlivedHere>>
    PROVE  /\ loads' \subseteq ArtifactLoads /\ \A m \in loads' : m.effect \in 1 .. effect
           /\ \A m, k \in loads' : m.effect = k.effect => m = k
           /\ \A m \in loads' : LoadFits(m)'
           /\ l.effect # effect \/ chosen = 0 => (Unfinished' = {} /\ chosen' # 0 => Unfinished = {})
<1>1. /\ loads' \subseteq ArtifactLoads /\ \A m \in loads' : m.effect \in 1 .. effect
      /\ \A m, k \in loads' : m.effect = k.effect => m = k
  BY DEF ArtifactsInv, ArtifactsTyped
<1>2. \A m \in loads' : LoadFits(m)'
  BY DEF ArtifactsInv, LoadFits
<1>3. l.effect # effect /\ Unfinished' = {} => Unfinished = {}
  BY DEF Unfinished
<1> QED
  BY <1>1, <1>2, <1>3

LEMMA SizeKeeps == ASSUME ArtifactsInv, SizeTold PROVE ArtifactsInv'
<1>1. PICK l \in loads :
        /\ l.at = "sizing"
        /\ IF source[l.file] = "large"
           THEN /\ loads' = loads \ {l}
                /\ fileTooLarge' = (IF l.here THEN l.file ELSE fileTooLarge)
                /\ loading' = (loading /\ ~l.here)
           ELSE /\ loads' = (loads \ {l}) \cup {[l EXCEPT !.at = "reading"]}
                /\ UNCHANGED <<fileTooLarge, loading>>
        /\ UNCHANGED <<viewer, source, chosen, effect, displayed, error, urls, outlived, outlivedHere>>
  BY DEF SizeTold
<1>2. l \in ArtifactLoads /\ LoadFits(l) /\ ArtifactsTyped /\ l.file # 0
  BY ArtifactsAssumption DEF ArtifactsInv, ArtifactsTyped, ArtifactLoads
<1>3. CASE source[l.file] = "large"
  <2>1. loads' = loads \ {l}
    BY <1>1, <1>3
  <2>2. /\ loads' \subseteq ArtifactLoads /\ \A m \in loads' : m.effect \in 1 .. effect
        /\ \A m, k \in loads' : m.effect = k.effect => m = k
        /\ \A m \in loads' : LoadFits(m)'
        /\ l.effect # effect \/ chosen = 0 => (Unfinished' = {} /\ chosen' # 0 => Unfinished = {})
    BY <1>1, <2>1, LoadGone
  <2>3. fileTooLarge' \in Files \cup {0} /\ loading' \in BOOLEAN
    BY <1>1, <1>2, <1>3 DEF ArtifactsTyped, ArtifactLoads
  <2>4. ArtifactsTyped'
    BY <1>1, <1>2, <2>2, <2>3 DEF ArtifactsTyped
  <2>5. UrlsAreRevoked'
    BY <1>1 DEF ArtifactsInv, UrlsAreRevoked
  <2>6. ViewersShowTheirs'
    <3>1. CASE l.here
      <4>1. fileTooLarge' # 0
        BY <1>1, <1>2, <1>3, <3>1
      <4> QED
        BY <4>1 DEF ViewersShowTheirs
    <3>2. CASE ~l.here
      <4>1. l.effect # effect \/ chosen = 0
        BY <1>2, <3>2 DEF LoadFits
      <4>2. (loading' => loading) /\ fileTooLarge' = fileTooLarge
        BY <1>1, <1>3, <3>2
      <4> QED
        BY <1>1, <2>2, <4>1, <4>2 DEF ArtifactsInv, ViewersShowTheirs
    <3> QED
      BY <3>1, <3>2
  <2> QED
    BY <2>2, <2>4, <2>5, <2>6 DEF ArtifactsInv
<1>4. CASE source[l.file] # "large"
  <2>1. PICK r : r = [l EXCEPT !.at = "reading"]
    OBVIOUS
  <2>2. /\ r \in ArtifactLoads /\ r.effect = l.effect /\ r.here = l.here /\ r.file = l.file
        /\ loads' = (loads \ {l}) \cup {r} /\ UNCHANGED <<fileTooLarge, loading>>
    BY <1>1, <1>2, <1>4, <2>1 DEF ArtifactLoads
  <2>3. loads' \subseteq ArtifactLoads /\ \A m \in loads' : m.effect \in 1 .. effect
    BY <1>2, <2>2 DEF ArtifactsTyped
  <2>4. \A m, k \in loads' : m.effect = k.effect => m = k
    BY <2>2 DEF ArtifactsInv
  <2>5. \A m \in loads' : LoadFits(m)'
    <3>1. LoadFits(r)'
      BY <1>1, <1>2, <2>2 DEF LoadFits
    <3>2. \A m \in loads : LoadFits(m)'
      BY <1>1 DEF ArtifactsInv, LoadFits
    <3> QED
      BY <2>2, <3>1, <3>2
  <2>6. Unfinished' = {} => Unfinished = {}
    <3>1. r \in loads' /\ \A m \in loads : m = l \/ m \in loads'
      BY <2>2
    <3> QED
      BY <1>1, <2>2, <3>1 DEF Unfinished
  <2>7. ArtifactsTyped'
    BY <1>1, <1>2, <2>2, <2>3 DEF ArtifactsTyped
  <2>8. ViewersShowTheirs' /\ UrlsAreRevoked'
    BY <1>1, <2>2, <2>6 DEF ArtifactsInv, ViewersShowTheirs, UrlsAreRevoked
  <2> QED
    BY <2>4, <2>5, <2>7, <2>8 DEF ArtifactsInv
<1> QED
  BY <1>3, <1>4

LEMMA LoadedKeeps == ASSUME ArtifactsInv, FileLoaded PROVE ArtifactsInv'
<1>0. PICK l \in loads : \E url \in {IF LoadOf[viewer].makesUrl THEN l.effect ELSE 0} :
        /\ loads' = loads \ {l}
        /\ urls' = urls \cup ({url} \ {0})
        /\ IF l.here THEN displayed' = [file |-> l.file, url |-> url] /\ error' = 0 /\ loading' = FALSE
                     ELSE UNCHANGED <<displayed, error, loading>>
        /\ UNCHANGED <<viewer, source, chosen, effect, fileTooLarge, outlived, outlivedHere>>
  BY DEF FileLoaded
<1>1. PICK url \in {IF LoadOf[viewer].makesUrl THEN l.effect ELSE 0} :
        /\ loads' = loads \ {l}
        /\ urls' = urls \cup ({url} \ {0})
        /\ IF l.here THEN displayed' = [file |-> l.file, url |-> url] /\ error' = 0 /\ loading' = FALSE
                     ELSE UNCHANGED <<displayed, error, loading>>
        /\ UNCHANGED <<viewer, source, chosen, effect, fileTooLarge, outlived, outlivedHere>>
  BY <1>0
<1>11. url = IF LoadOf[viewer].makesUrl THEN l.effect ELSE 0
  OBVIOUS
<1>2. l \in ArtifactLoads /\ LoadFits(l) /\ ArtifactsTyped /\ l.file \in Files /\ l.effect \in 1 .. effect
  BY DEF ArtifactsInv, ArtifactsTyped, ArtifactLoads
<1>3. /\ loads' \subseteq ArtifactLoads /\ \A m \in loads' : m.effect \in 1 .. effect
      /\ \A m, k \in loads' : m.effect = k.effect => m = k
      /\ \A m \in loads' : LoadFits(m)'
      /\ l.effect # effect \/ chosen = 0 => (Unfinished' = {} /\ chosen' # 0 => Unfinished = {})
  BY <1>1, LoadGone
<1>4. PICK n \in Nat : n = effect
  BY DEF ArtifactsInv, ArtifactsTyped
<1>5. url \in 0 .. n /\ (url = 0 \/ url = l.effect)
  BY <1>11, <1>2, <1>4
<1>6. displayed' \in [file : Files \cup {0}, url : 0 .. n]
  BY <1>1, <1>2, <1>4, <1>5 DEF ArtifactsTyped
<1>7. urls' \subseteq 1 .. n /\ error' \in Files \cup {0} /\ loading' \in BOOLEAN
  BY <1>1, <1>2, <1>4, <1>5 DEF ArtifactsTyped
<1>8. ArtifactsTyped'
  BY <1>1, <1>2, <1>3, <1>4, <1>6, <1>7 DEF ArtifactsTyped
<1>9. UrlsAreRevoked'
  BY <1>1, <1>2, <1>5, <1>11 DEF ArtifactsInv, UrlsAreRevoked, LoadFits
<1>10. ViewersShowTheirs'
  <2>1. CASE l.here /\ (outlivedHere \/ chosen = 0)
    BY <1>1, <2>1 DEF ViewersShowTheirs
  <2>2. CASE l.here /\ ~outlivedHere /\ chosen # 0
    <3>1. l.file = chosen
      BY <1>2, <2>2 DEF LoadFits
    <3>2. displayed' = [file |-> chosen, url |-> url] /\ error' = 0 /\ loading' = FALSE /\ (url = 0 \/ url \in urls')
      BY <1>1, <2>2, <3>1
    <3> QED
      BY <1>1, <3>2 DEF ViewersShowTheirs
  <2>3. CASE ~l.here
    <3>1. l.effect # effect \/ chosen = 0
      BY <1>2, <2>3 DEF LoadFits
    <3> QED
      BY <1>1, <1>3, <2>3, <3>1 DEF ArtifactsInv, ViewersShowTheirs
  <2> QED
    BY <2>1, <2>2, <2>3
<1> QED
  BY <1>3, <1>8, <1>9, <1>10 DEF ArtifactsInv

LEMMA FailureKeeps == ASSUME ArtifactsInv, LoadFails PROVE ArtifactsInv'
<1>1. PICK l \in loads, made \in BOOLEAN :
        /\ loads' = loads \ {l}
        /\ urls' = urls \cup (IF made THEN {l.effect} ELSE {})
        /\ IF l.here THEN error' = l.file /\ loading' = FALSE ELSE UNCHANGED <<error, loading>>
        /\ UNCHANGED <<viewer, source, chosen, effect, displayed, fileTooLarge, outlived, outlivedHere>>
  BY DEF LoadFails
<1>2. l \in ArtifactLoads /\ LoadFits(l) /\ ArtifactsTyped /\ l.file \in Files /\ l.effect \in 1 .. effect
  BY DEF ArtifactsInv, ArtifactsTyped, ArtifactLoads
<1>3. /\ loads' \subseteq ArtifactLoads /\ \A m \in loads' : m.effect \in 1 .. effect
      /\ \A m, k \in loads' : m.effect = k.effect => m = k
      /\ \A m \in loads' : LoadFits(m)'
      /\ l.effect # effect \/ chosen = 0 => (Unfinished' = {} /\ chosen' # 0 => Unfinished = {})
  BY <1>1, LoadGone
<1>4. urls' \subseteq 1 .. effect /\ error' \in Files \cup {0} /\ loading' \in BOOLEAN
  BY <1>1, <1>2 DEF ArtifactsTyped
<1>5. ArtifactsTyped'
  BY <1>1, <1>2, <1>3, <1>4 DEF ArtifactsTyped
<1>6. UrlsAreRevoked'
  BY <1>1, <1>2 DEF ArtifactsInv, UrlsAreRevoked, LoadFits
<1>7. ViewersShowTheirs'
  <2>1. CASE l.here /\ (outlivedHere \/ chosen = 0)
    BY <1>1, <2>1 DEF ViewersShowTheirs
  <2>2. CASE l.here /\ ~outlivedHere /\ chosen # 0
    <3>1. l.file = chosen
      BY <1>2, <2>2 DEF LoadFits
    <3>2. error' = chosen /\ loading' = FALSE
      BY <1>1, <2>2, <3>1
    <3> QED
      BY <1>1, <3>2 DEF ViewersShowTheirs
  <2>3. CASE ~l.here
    <3>1. l.effect # effect \/ chosen = 0
      BY <1>2, <2>3 DEF LoadFits
    <3> QED
      BY <1>1, <1>3, <2>3, <3>1 DEF ArtifactsInv, ViewersShowTheirs
  <2> QED
    BY <2>1, <2>2, <2>3
<1> QED
  BY <1>3, <1>5, <1>6, <1>7 DEF ArtifactsInv

LEMMA ArtifactsStep == ASSUME ArtifactsInv, [ArtifactsNext]_artifactVars PROVE ArtifactsInv'
<1>1. CASE UNCHANGED artifactVars
  BY <1>1 DEF artifactVars, ArtifactsInv, ArtifactsTyped, ViewersShowTheirs, UrlsAreRevoked, LoadFits, Unfinished
<1> QED
  BY <1>1, MountKeeps, ViewChangeKeeps, UnmountKeeps, SizeKeeps, LoadedKeeps, FailureKeeps DEF ArtifactsNext

LEMMA ArtifactsShow == ASSUME ArtifactsInv PROVE ArtifactsTypeOK /\ ViewersShowTheirs /\ UrlsAreRevoked
<1>1. \A l \in loads : l.file \in Files /\ l.effect \in 1 .. effect /\ l.at \in {"sizing", "reading"} /\ l.here \in BOOLEAN
  BY DEF ArtifactsInv, ArtifactsTyped, ArtifactLoads
<1> QED
  BY <1>1 DEF ArtifactsInv, ArtifactsTyped, ArtifactsTypeOK

\* An artifact viewer shows the artifact chosen, or its own error, and every
\* object URL is the last effect's or one of a load that outlived its effect,
\* for any files and number of effects (components/artifacts).
THEOREM ArtifactsShown == ArtifactsSpec => [](ArtifactsTypeOK /\ ViewersShowTheirs /\ UrlsAreRevoked)
<1>1. ArtifactsInit => ArtifactsInv
  BY ArtifactsBegin
<1>2. ArtifactsInv /\ [ArtifactsNext]_artifactVars => ArtifactsInv'
  BY ArtifactsStep
<1>3. ArtifactsInv => ArtifactsTypeOK /\ ViewersShowTheirs /\ UrlsAreRevoked
  BY ArtifactsShow
<1> QED
  BY <1>1, <1>2, <1>3, PTL DEF ArtifactsSpec

-----------------------------------------------------------------------------
(* ShellSkills: what is in the directory was put there by one import, and  *)
(* the list that is loaded will have it.                                   *)

OpTypes == [kind : {"import", "check"}, visit : 1 .. MaxVisits, of : SUBSET Skills,
            made : SUBSET Folders, ok : BOOLEAN, pc : {"cloning", "cloned", "copying", "answering", "told"}]
EntryTypes == [folder : Folders \cup ({"custom"} \X CustomSkills), named : BOOLEAN]
SkillLoads == [pc : {"none", "dirs", "user", "files", "custom"}, left : SUBSET Folders, list : SUBSET EntryTypes]

DirTyped ==
    /\ python \in BOOLEAN /\ folders \in [Folders -> {"absent", "bare", "whole"}]
    /\ \E n \in Nat : DOMAIN ops = 1 .. n
    /\ ops \in [DOMAIN ops -> OpTypes]
    /\ locked \in {0} \cup DOMAIN ops /\ clones \subseteq DOMAIN ops /\ lost \subseteq DOMAIN ops
    /\ deleted \subseteq Folders

SkillPageTyped ==
    /\ visit \in 0 .. MaxVisits /\ onSkillsPage \in BOOLEAN
    /\ onSkillsPage => visit >= 1
    /\ importing \in BOOLEAN /\ checking \in BOOLEAN /\ misread \in BOOLEAN
    /\ skillLoad \in SkillLoads /\ skillList \subseteq EntryTypes
    /\ deleteOf \in Folders \cup {None}

\* What an import has made is there, whole if it succeeded, and its own.
MadeInv ==
    /\ \A i \in DOMAIN ops : \A f \in ops[i].made \ deleted : folders[f] # "absent"
    /\ \A i \in DOMAIN ops : ops[i].ok /\ ops[i].kind = "import" =>
          /\ {f[1] : f \in ops[i].made} = ops[i].of
          /\ \A f \in ops[i].made \ deleted : folders[f] = "whole"
    /\ \A i, j \in DOMAIN ops : i # j => ops[i].made \cap ops[j].made \subseteq deleted

ClonesInv == \A i \in clones : i \in lost \/ ops[i].pc \in {"cloning", "cloned", "copying"}

\* A request of this visit.
AskedHere(i, sort) == ops[i].pc # "told" /\ ops[i].kind = sort /\ ops[i].visit = visit

ButtonsInv ==
    /\ onSkillsPage = FALSE => importing = FALSE /\ checking = FALSE
    /\ \A i \in DOMAIN ops : ops[i].visit <= visit
    /\ importing = TRUE => \E i \in DOMAIN ops : AskedHere(i, "import")
    /\ checking = TRUE => \E i \in DOMAIN ops : AskedHere(i, "check")

\* An import the page was told of, and what it has put there.
ToldHere(i) == ops[i].pc = "told" /\ ops[i].ok /\ ops[i].visit = visit /\ ops[i].kind = "import"
WholeFolder(f) == [folder |-> f, named |-> TRUE]
Ignored(f) == f[1] \in IgnoredNames /\ f[2] = 0

\* The page shows a folder, or the load under way will.
PageWillShow(f) ==
    \/ skillLoad.pc \in {"dirs", "user"}
    \/ skillLoad.pc = "files" /\ f \in skillLoad.left
    \/ skillLoad.pc \in {"files", "custom"} /\ WholeFolder(f) \in skillLoad.list
    \/ skillLoad.pc = "none" /\ WholeFolder(f) \in skillList

ListedInv ==
    onSkillsPage = TRUE /\ misread = FALSE =>
        \A i \in DOMAIN ops : ToldHere(i) =>
            \A f \in ops[i].made \ deleted : PageWillShow(f) \/ Ignored(f)

SkillsPageInv == DirTyped /\ SkillPageTyped /\ MadeInv /\ ClonesInv /\ ButtonsInv /\ ListedInv

LEMMA NoLoadIs == NoLoad \in SkillLoads /\ NoLoad.pc = "none" /\ NoLoad.left = {} /\ NoLoad.list = {}
  BY DEF NoLoad, SkillLoads

LEMMA SkillsPageBegins == ASSUME SkillsPageInit PROVE SkillsPageInv
<1>1. ops = <<>> /\ DOMAIN ops = {} /\ ops \in [DOMAIN ops -> OpTypes] /\ DOMAIN ops = 1 .. 0
  BY DEF SkillsPageInit
<1>2. DirTyped
  <2>1. \E n \in Nat : DOMAIN ops = 1 .. n
    BY <1>1
  <2>2. folders \in [Folders -> {"absent", "bare", "whole"}]
    BY DEF SkillsPageInit
  <2> QED
    BY <1>1, <2>1, <2>2 DEF SkillsPageInit, DirTyped
<1>3. SkillPageTyped
  <2>1. visit \in 0 .. MaxVisits /\ onSkillsPage = FALSE
    BY SkillsPageAssumption DEF SkillsPageInit
  <2> QED
    BY <2>1, NoLoadIs DEF SkillsPageInit, SkillPageTyped
<1>4. MadeInv /\ ClonesInv /\ ListedInv
  BY <1>1 DEF SkillsPageInit, MadeInv, ClonesInv, ListedInv
<1>5. ButtonsInv
  BY <1>1 DEF SkillsPageInit, ButtonsInv
<1> QED
  BY <1>2, <1>3, <1>4, <1>5 DEF SkillsPageInv

\* Steps of the page alone, which change neither the requests nor the buttons.
LEMMA PageAlone ==
    ASSUME SkillsPageInv, UNCHANGED skillDirVars,
           visit' = visit, onSkillsPage' = onSkillsPage, importing' = importing, checking' = checking,
           SkillPageTyped',
           onSkillsPage = TRUE /\ misread' = FALSE =>
               \A i \in DOMAIN ops : ToldHere(i) =>
                   \A f \in ops[i].made \ deleted : ~Ignored(f) => PageWillShow(f)'
    PROVE  SkillsPageInv'
<1>1. ops' = ops /\ deleted' = deleted
  BY DEF skillDirVars
<1>2. DirTyped' /\ MadeInv' /\ ClonesInv'
  BY DEF SkillsPageInv, DirTyped, MadeInv, ClonesInv, skillDirVars
<1>3. \A i, k : AskedHere(i, k)' <=> AskedHere(i, k)
  BY <1>1 DEF AskedHere
<1>4. ButtonsInv'
  BY <1>1, <1>3 DEF SkillsPageInv, ButtonsInv
<1>5. \A i : ToldHere(i)' <=> ToldHere(i)
  BY <1>1 DEF ToldHere
<1>6. ListedInv'
  BY <1>1, <1>5 DEF ListedInv
<1> QED
  BY <1>2, <1>4, <1>6 DEF SkillsPageInv

\* Nothing of the load and the list changes.
LEMMA SamePage ==
    ASSUME SkillsPageInv, UNCHANGED skillDirVars, UNCHANGED <<visit, onSkillsPage, skillLoad, skillList, misread, importing, checking>>,
           deleteOf' \in Folders \cup {None}
    PROVE  SkillsPageInv'
<1>1. SkillPageTyped'
  BY DEF SkillsPageInv, SkillPageTyped
<1>2. \A f : PageWillShow(f)' <=> PageWillShow(f)
  BY DEF PageWillShow
<1>3. onSkillsPage = TRUE /\ misread' = FALSE =>
         \A i \in DOMAIN ops : ToldHere(i) => \A f \in ops[i].made \ deleted : ~Ignored(f) => PageWillShow(f)'
  BY <1>2 DEF SkillsPageInv, ListedInv
<1> QED
  BY <1>1, <1>3, PageAlone

LEMMA DialogsKeep ==
    ASSUME SkillsPageInv, HandleOpenSkillFolder \/ ToggleDialog \/ \E f \in Folders : HandleDeleteSkill(f)
    PROVE  SkillsPageInv'
<1>1. UNCHANGED skillDirVars /\ UNCHANGED <<visit, onSkillsPage, skillLoad, skillList, misread, importing, checking>>
  BY DEF HandleOpenSkillFolder, ToggleDialog, HandleDeleteSkill
<1>2. deleteOf' \in Folders \cup {None}
  BY DEF HandleOpenSkillFolder, ToggleDialog, HandleDeleteSkill, SkillsPageInv, SkillPageTyped
<1> QED
  BY <1>1, <1>2, SamePage

\* A folder that an import has made is there.
LEMMA ToldIsThere ==
    ASSUME SkillsPageInv, NEW i \in DOMAIN ops, ToldHere(i), NEW f \in ops[i].made \ deleted
    PROVE  f \in There /\ folders[f] = "whole" /\ (~Ignored(f) => f \in Listable)
<1>1. ops[i] \in OpTypes
  BY DEF SkillsPageInv, DirTyped
<1>2. f \in Folders
  BY <1>1 DEF OpTypes
<1>3. folders[f] = "whole"
  BY DEF SkillsPageInv, MadeInv, ToldHere
<1> QED
  BY <1>2, <1>3 DEF There, Listable, Ignored

LEMMA DirsAnsweredKeeps == ASSUME SkillsPageInv, DirsAnswered PROVE SkillsPageInv'
<1>1. /\ onSkillsPage = TRUE /\ skillLoad.pc = "dirs" /\ skillLoad \in SkillLoads
      /\ UNCHANGED skillDirVars /\ UNCHANGED <<visit, onSkillsPage, importing, checking, deleteOf>>
  BY DEF DirsAnswered, Loading, SkillsPageInv, SkillPageTyped
<1>2. CASE skillLoad' = [skillLoad EXCEPT !.pc = IF There = {} THEN "custom" ELSE "user"] /\ UNCHANGED <<skillList, misread, deletes>>
  <2>1. skillLoad' \in SkillLoads /\ skillLoad'.pc = IF There = {} THEN "custom" ELSE "user"
    BY <1>1, <1>2 DEF SkillLoads
  <2>2. SkillPageTyped'
    BY <1>1, <1>2, <2>1 DEF SkillsPageInv, SkillPageTyped
  <2>3. ASSUME NEW i \in DOMAIN ops, ToldHere(i), NEW f \in ops[i].made \ deleted PROVE PageWillShow(f)'
    <3>1. There # {}
      BY <2>3, ToldIsThere
    <3> QED
      BY <2>1, <3>1 DEF PageWillShow
  <2> QED
    BY <1>1, <2>2, <2>3, PageAlone
<1>3. CASE skillLoad' = NoLoad /\ skillList' = {} /\ misread' = TRUE
  <2>1. SkillPageTyped'
    BY <1>1, <1>3, NoLoadIs DEF SkillsPageInv, SkillPageTyped
  <2> QED
    BY <1>1, <1>3, <2>1, PageAlone
<1> QED
  BY <1>2, <1>3 DEF DirsAnswered

LEMMA UserDirReadKeeps == ASSUME SkillsPageInv, UserDirRead PROVE SkillsPageInv'
<1>1. /\ onSkillsPage = TRUE /\ skillLoad.pc = "user" /\ skillLoad \in SkillLoads
      /\ UNCHANGED skillDirVars /\ UNCHANGED <<visit, onSkillsPage, skillList, importing, checking, deleteOf>>
  BY DEF UserDirRead, Loading, SkillsPageInv, SkillPageTyped
<1>2. CASE skillLoad' = [skillLoad EXCEPT !.pc = "files", !.left = Listable] /\ UNCHANGED <<misread, deletes>>
  <2>1. skillLoad' \in SkillLoads /\ skillLoad'.pc = "files" /\ skillLoad'.left = Listable
    BY <1>1, <1>2 DEF SkillLoads, Listable, There
  <2>2. SkillPageTyped'
    BY <1>1, <1>2, <2>1 DEF SkillsPageInv, SkillPageTyped
  <2>3. ASSUME NEW i \in DOMAIN ops, ToldHere(i), NEW f \in ops[i].made \ deleted, ~Ignored(f) PROVE PageWillShow(f)'
    <3>1. f \in Listable
      BY <2>3, ToldIsThere
    <3> QED
      BY <2>1, <3>1 DEF PageWillShow
  <2> QED
    BY <1>1, <2>2, <2>3, PageAlone
<1>3. CASE skillLoad' = [skillLoad EXCEPT !.pc = "custom"] /\ misread' = TRUE
  <2>1. skillLoad' \in SkillLoads
    BY <1>1, <1>3 DEF SkillLoads
  <2>2. SkillPageTyped'
    BY <1>1, <1>3, <2>1 DEF SkillsPageInv, SkillPageTyped
  <2> QED
    BY <1>1, <1>3, <2>2, PageAlone
<1> QED
  BY <1>2, <1>3 DEF UserDirRead

LEMMA SkillFileReadKeeps == ASSUME SkillsPageInv, NEW g \in Folders, SkillFileRead(g) PROVE SkillsPageInv'
<1>1. /\ onSkillsPage = TRUE /\ skillLoad.pc = "files" /\ skillLoad \in SkillLoads /\ g \in skillLoad.left
      /\ UNCHANGED skillDirVars
      /\ UNCHANGED <<visit, onSkillsPage, skillList, importing, checking, deleteOf, misread>>
  BY DEF SkillFileRead, Loading, SkillsPageInv, SkillPageTyped
<1>2. PICK e \in EntryTypes : e = [folder |-> g, named |-> folders[g] = "whole"]
  <2>1. PICK b \in BOOLEAN : b = (folders[g] = "whole")
    OBVIOUS
  <2>2. [folder |-> g, named |-> b] \in EntryTypes
    BY DEF EntryTypes
  <2>3. [folder |-> g, named |-> folders[g] = "whole"] = [folder |-> g, named |-> b]
    BY Zenon, <2>1
  <2> QED
    BY <2>2, <2>3
<1>3. PICK left \in SUBSET Folders : left = skillLoad.left \ {g}
  BY <1>1 DEF SkillLoads
<1>4. skillLoad' = [pc |-> IF left = {} THEN "custom" ELSE "files", left |-> left, list |-> skillLoad.list \cup {e}]
  BY <1>2, <1>3 DEF SkillFileRead
<1>5. /\ skillLoad' \in SkillLoads /\ skillLoad'.left = left /\ skillLoad'.list = skillLoad.list \cup {e}
      /\ skillLoad'.pc = IF left = {} THEN "custom" ELSE "files"
  <2>1. skillLoad.list \cup {e} \in SUBSET EntryTypes
    BY <1>1 DEF SkillLoads
  <2> QED
    BY <1>4, <2>1 DEF SkillLoads
<1>6. SkillPageTyped'
  BY <1>1, <1>5 DEF SkillsPageInv, SkillPageTyped
<1>7. ASSUME NEW i \in DOMAIN ops, ToldHere(i), NEW f \in ops[i].made \ deleted, ~Ignored(f), misread' = FALSE PROVE PageWillShow(f)'
  <2>1. PageWillShow(f)
    BY <1>1, <1>7 DEF SkillsPageInv, ListedInv
  <2>2. f \in skillLoad.left \/ WholeFolder(f) \in skillLoad.list
    BY <1>1, <2>1 DEF PageWillShow
  <2>3. CASE f = g
    <3>1. folders[g] = "whole"
      BY <1>7, <2>3, ToldIsThere
    <3>2. e = WholeFolder(f)
      BY <1>2, <2>3, <3>1 DEF WholeFolder
    <3> QED
      BY <1>5, <3>2 DEF PageWillShow
  <2>4. CASE f # g /\ f \in skillLoad.left
    <3>1. f \in left
      BY <1>3, <2>4
    <3> QED
      BY <1>5, <3>1 DEF PageWillShow
  <2>5. CASE WholeFolder(f) \in skillLoad.list
    BY <1>5, <2>5 DEF PageWillShow
  <2> QED
    BY <2>2, <2>3, <2>4, <2>5
<1> QED
  BY <1>1, <1>6, <1>7, PageAlone

LEMMA CustomDirReadKeeps == ASSUME SkillsPageInv, CustomDirRead PROVE SkillsPageInv'
<1>1. /\ onSkillsPage = TRUE /\ skillLoad \in SkillLoads
      /\ skillLoad.pc = "custom" \/ (skillLoad.pc = "files" /\ skillLoad.left = {})
      /\ UNCHANGED skillDirVars
      /\ UNCHANGED <<visit, onSkillsPage, importing, checking, deleteOf, misread>>
      /\ skillLoad' = NoLoad
  <2>1. Loading("custom") \/ (Loading("files") /\ skillLoad.left = {})
    BY DEF CustomDirRead
  <2>2. onSkillsPage = TRUE
    BY <2>1 DEF Loading, SkillsPageInv, SkillPageTyped
  <2>5. skillLoad.pc = "custom" \/ (skillLoad.pc = "files" /\ skillLoad.left = {})
    BY Zenon, <2>1 DEF Loading
  <2>3. skillLoad \in SkillLoads
    BY DEF SkillsPageInv, SkillPageTyped
  <2>4. /\ UNCHANGED skillDirVars
        /\ UNCHANGED <<visit, onSkillsPage, importing, checking, deleteOf, misread>>
        /\ skillLoad' = NoLoad
    BY DEF CustomDirRead
  <2> QED
    BY <2>2, <2>3, <2>4, <2>5
<1>2. skillList' = skillLoad.list \cup {[folder |-> <<"custom", s>>, named |-> TRUE] : s \in CustomSkills}
  BY DEF CustomDirRead
<1>3. skillList' \subseteq EntryTypes
  <2>1. \A s \in CustomSkills : [folder |-> <<"custom", s>>, named |-> TRUE] \in EntryTypes
    BY DEF EntryTypes
  <2>2. skillLoad.list \subseteq EntryTypes
    BY <1>1 DEF SkillLoads
  <2> QED
    BY <1>2, <2>1, <2>2
<1>4. SkillPageTyped'
  BY <1>1, <1>3, NoLoadIs DEF SkillsPageInv, SkillPageTyped
<1>5. ASSUME NEW i \in DOMAIN ops, ToldHere(i), NEW f \in ops[i].made \ deleted, ~Ignored(f), misread' = FALSE PROVE PageWillShow(f)'
  <2>1. PageWillShow(f)
    BY <1>1, <1>5 DEF SkillsPageInv, ListedInv
  <2>2. WholeFolder(f) \in skillLoad.list
    BY <1>1, <2>1 DEF PageWillShow
  <2> QED
    BY <1>1, <1>2, <2>2, NoLoadIs DEF PageWillShow
<1> QED
  BY <1>1, <1>4, <1>5, PageAlone

\* The page comes and goes: what was asked before is not of this visit.
LEMMA OpenPageKeeps == ASSUME SkillsPageInv, OpenPage PROVE SkillsPageInv'
<1>1. /\ onSkillsPage = FALSE /\ visit < MaxVisits /\ onSkillsPage' = TRUE /\ visit' = visit + 1
      /\ skillLoad' = [NoLoad EXCEPT !.pc = "dirs"] /\ misread' = FALSE
      /\ UNCHANGED skillDirVars /\ UNCHANGED <<skillList, importing, checking, deleteOf>>
  BY DEF OpenPage, LoadBegins, SkillsPageInv, SkillPageTyped
<1>2. skillLoad' \in SkillLoads /\ skillLoad'.pc = "dirs"
  BY <1>1, NoLoadIs DEF SkillLoads
<1>3. PICK v \in Nat : v = visit /\ v < MaxVisits /\ MaxVisits \in Nat
  BY <1>1, SkillsPageAssumption DEF SkillsPageInv, SkillPageTyped
<1>4. v + 1 \in 0 .. MaxVisits /\ v + 1 >= 1 /\ visit' = v + 1
  BY <1>1, <1>3
<1>5. SkillPageTyped'
  BY <1>1, <1>2, <1>4 DEF SkillsPageInv, SkillPageTyped
<1>6. DirTyped' /\ MadeInv' /\ ClonesInv'
  BY <1>1 DEF SkillsPageInv, DirTyped, MadeInv, ClonesInv, skillDirVars
<1>7. \A i \in DOMAIN ops : ops[i].visit <= v /\ ops[i].visit \in Nat
  <2>1. \A i \in DOMAIN ops : ops[i] \in OpTypes /\ ops[i].visit <= v
    BY <1>3 DEF SkillsPageInv, DirTyped, ButtonsInv
  <2>2. \A i \in DOMAIN ops : ops[i].visit \in 1 .. MaxVisits
    BY <2>1 DEF OpTypes
  <2> QED
    BY <2>1, <2>2
<1>8. ops' = ops
  BY <1>1 DEF skillDirVars
<1>9. ButtonsInv'
  <2>1. \A i \in DOMAIN ops : ops[i].visit <= visit'
    BY <1>3, <1>4, <1>7
  <2>2. importing' = FALSE /\ checking' = FALSE
    BY <1>1 DEF SkillsPageInv, ButtonsInv
  <2> QED
    BY <1>8, <2>1, <2>2 DEF ButtonsInv
<1>10. ListedInv'
  BY <1>2 DEF ListedInv, PageWillShow
<1> QED
  BY <1>5, <1>6, <1>9, <1>10 DEF SkillsPageInv

LEMMA LeavePageKeeps == ASSUME SkillsPageInv, LeavePage PROVE SkillsPageInv'
<1>1. /\ onSkillsPage' = FALSE /\ skillLoad' = NoLoad /\ skillList' = {}
      /\ importing' = FALSE /\ checking' = FALSE /\ deleteOf' = None /\ misread' = FALSE
      /\ UNCHANGED skillDirVars /\ UNCHANGED visit
  BY DEF LeavePage
<1>2. SkillPageTyped'
  BY <1>1, NoLoadIs DEF SkillsPageInv, SkillPageTyped
<1>3. DirTyped' /\ MadeInv' /\ ClonesInv'
  BY <1>1 DEF SkillsPageInv, DirTyped, MadeInv, ClonesInv, skillDirVars
<1>4. ops' = ops
  BY <1>1 DEF skillDirVars
<1>5. ButtonsInv' /\ ListedInv'
  BY <1>1, <1>4 DEF SkillsPageInv, ButtonsInv, ListedInv
<1> QED
  BY <1>2, <1>3, <1>5 DEF SkillsPageInv

\* Steps beside the page: what it asked for stays asked for, and no more is told.
LEMMA BesidePage ==
    ASSUME SkillsPageInv, UNCHANGED <<visit, onSkillsPage, skillLoad, skillList, importing, checking, deleteOf, misread>>,
           deleted \subseteq deleted', DOMAIN ops' = DOMAIN ops,
           \A i \in DOMAIN ops : /\ ops'[i].kind = ops[i].kind /\ ops'[i].visit = ops[i].visit
                                 /\ ops'[i].pc = "told" <=> ops[i].pc = "told"
                                 /\ ops[i].pc = "told" => ops'[i] = ops[i]
    PROVE  SkillPageTyped' /\ ButtonsInv' /\ ListedInv'
<1>1. SkillPageTyped'
  BY DEF SkillsPageInv, SkillPageTyped
<1>2. \A i \in DOMAIN ops : \A k : AskedHere(i, k)' <=> AskedHere(i, k)
  BY DEF AskedHere
<1>3. ButtonsInv'
  BY <1>2 DEF SkillsPageInv, ButtonsInv
<1>4. \A i \in DOMAIN ops : ToldHere(i)' => ToldHere(i) /\ ops'[i] = ops[i]
  BY DEF ToldHere
<1>5. \A f : PageWillShow(f)' <=> PageWillShow(f)
  BY DEF PageWillShow
<1>6. ListedInv'
  BY <1>4, <1>5 DEF SkillsPageInv, ListedInv
<1> QED
  BY <1>1, <1>3, <1>6

LEMMA UserDeletesKeeps == ASSUME SkillsPageInv, NEW g \in Folders, UserDeletes(g) PROVE SkillsPageInv'
<1>1. /\ folders' = [folders EXCEPT ![g] = "absent"] /\ deleted' = deleted \cup {g}
      /\ UNCHANGED <<python, clones, locked, ops, lost>>
      /\ UNCHANGED <<visit, onSkillsPage, skillLoad, skillList, importing, checking, deleteOf, misread>>
  BY DEF UserDeletes
<1>2. SkillPageTyped' /\ ButtonsInv' /\ ListedInv'
  BY <1>1, BesidePage
<1>3. DirTyped'
  BY <1>1 DEF SkillsPageInv, DirTyped
<1>4. MadeInv'
  <2>1. ASSUME NEW i \in DOMAIN ops, NEW f \in ops[i].made \ deleted' PROVE folders'[f] = folders[f]
    <3>1. ops[i] \in OpTypes
      BY DEF SkillsPageInv, DirTyped
    <3>2. f \in Folders /\ f # g
      BY <1>1, <3>1, <2>1 DEF OpTypes
    <3> QED
      BY <1>1, <3>2
  <2>2. \A i \in DOMAIN ops : ops[i].made \ deleted' \subseteq ops[i].made \ deleted
    BY <1>1
  <2> QED
    BY <1>1, <2>1, <2>2 DEF SkillsPageInv, MadeInv
<1>5. ClonesInv'
  BY <1>1 DEF SkillsPageInv, ClonesInv
<1> QED
  BY <1>2, <1>3, <1>4, <1>5 DEF SkillsPageInv

-----------------------------------------------------------------------------
(* The requests.                                                           *)

\* One request goes on: it is not told yet.
OpGoesOn(i, o) ==
    /\ o \in OpTypes /\ ops' = [ops EXCEPT ![i] = o]
    /\ o.kind = ops[i].kind /\ o.visit = ops[i].visit /\ o.of = ops[i].of
    /\ o.pc # "told" /\ ops[i].pc # "told"

LEMMA OpGoes ==
    ASSUME DirTyped, NEW i \in DOMAIN ops, NEW o, OpGoesOn(i, o)
    PROVE  /\ DOMAIN ops' = DOMAIN ops /\ ops'[i] = o /\ \A j \in DOMAIN ops : j # i => ops'[j] = ops[j]
           /\ ops' \in [DOMAIN ops' -> OpTypes] /\ \E n \in Nat : DOMAIN ops' = 1 .. n
  BY DEF DirTyped, OpGoesOn

\* The page sees nothing of it.
LEMMA OpBesidePage ==
    ASSUME SkillsPageInv, NEW i \in DOMAIN ops, NEW o, OpGoesOn(i, o), deleted' = deleted,
           UNCHANGED skillPageVars
    PROVE  SkillPageTyped' /\ ButtonsInv' /\ ListedInv'
<1>1. /\ DOMAIN ops' = DOMAIN ops /\ ops'[i] = o /\ \A j \in DOMAIN ops : j # i => ops'[j] = ops[j]
  BY OpGoes DEF SkillsPageInv
<1>2. UNCHANGED <<visit, onSkillsPage, skillLoad, skillList, importing, checking, deleteOf, misread>>
  BY DEF skillPageVars
<1>3. \A j \in DOMAIN ops : /\ ops'[j].kind = ops[j].kind /\ ops'[j].visit = ops[j].visit
                            /\ ops'[j].pc = "told" <=> ops[j].pc = "told"
                            /\ ops[j].pc = "told" => ops'[j] = ops[j]
  <2>1. TAKE j \in DOMAIN ops
  <2>2. CASE j = i
    BY <1>1, <2>2 DEF OpGoesOn
  <2>3. CASE j # i
    BY <1>1, <2>3
  <2> QED
    BY <2>2, <2>3
<1> QED
  BY <1>1, <1>2, <1>3, BesidePage

\* It has made what it had, and it succeeded only if it had, or as told here.
LEMMA OpMakesNothing ==
    ASSUME SkillsPageInv, NEW i \in DOMAIN ops, NEW o, OpGoesOn(i, o), deleted' = deleted, folders' = folders,
           o.made = ops[i].made,
           o.ok /\ o.kind = "import" => /\ {f[1] : f \in o.made} = o.of
                                        /\ \A f \in o.made \ deleted : folders[f] = "whole"
    PROVE  MadeInv'
<1>1. /\ DOMAIN ops' = DOMAIN ops /\ ops'[i] = o /\ \A j \in DOMAIN ops : j # i => ops'[j] = ops[j]
  BY OpGoes DEF SkillsPageInv
<1>2. \A j \in DOMAIN ops : ops'[j].made = ops[j].made
  BY <1>1
<1>3. \A j \in DOMAIN ops : ops'[j].ok /\ ops'[j].kind = "import" =>
          /\ {f[1] : f \in ops'[j].made} = ops'[j].of
          /\ \A f \in ops'[j].made \ deleted : folders[f] = "whole"
  <2>1. TAKE j \in DOMAIN ops
  <2>2. CASE j = i
    BY <1>1, <2>2
  <2>3. CASE j # i
    <3>1. ops'[j] = ops[j]
      BY <1>1, <2>3
    <3> QED
      BY <3>1 DEF SkillsPageInv, MadeInv
  <2> QED
    BY <2>2, <2>3
<1> QED
  BY <1>1, <1>2, <1>3 DEF SkillsPageInv, MadeInv

\* And its clone is removed, or was lost, when it answers.
LEMMA OpClones ==
    ASSUME SkillsPageInv, NEW i \in DOMAIN ops, NEW o, OpGoesOn(i, o),
           clones' \subseteq clones, lost \subseteq lost',
           i \in clones' => i \in lost' \/ o.pc \in {"cloning", "cloned", "copying"}
    PROVE  ClonesInv'
<1>1. /\ DOMAIN ops' = DOMAIN ops /\ ops'[i] = o /\ \A j \in DOMAIN ops : j # i => ops'[j] = ops[j]
  BY OpGoes DEF SkillsPageInv
<1>2. clones \subseteq DOMAIN ops
  BY DEF SkillsPageInv, DirTyped
<1> QED
  BY <1>1, <1>2 DEF SkillsPageInv, ClonesInv

LEMMA ClonedKeeps == ASSUME SkillsPageInv, NEW i \in DOMAIN ops, Cloned(i) PROVE SkillsPageInv'
<1>1. ops[i].pc = "cloning" /\ ops[i] \in OpTypes /\ UNCHANGED <<python, folders, clones, locked, deleted, skillPageVars>>
  BY DEF Cloned, OpAt, SkillsPageInv, DirTyped
<1>2. PICK pc \in {"cloned", "answering"} :
         /\ ops' = [ops EXCEPT ![i].pc = pc]
         /\ \/ pc = "cloned" /\ lost' = lost
            \/ pc = "answering" /\ lost' = lost \cup {i}
  <2>1. \/ ops' = [ops EXCEPT ![i].pc = "cloned"] /\ lost' = lost
        \/ ops' = [ops EXCEPT ![i].pc = "answering"] /\ lost' = lost \cup {i}
    BY DEF Cloned
  <2> QED
    BY <2>1
<1>3. PICK o : o = [ops[i] EXCEPT !.pc = pc]
  OBVIOUS
<1>4. /\ o \in OpTypes /\ o.pc = pc /\ o.kind = ops[i].kind /\ o.visit = ops[i].visit
      /\ o.of = ops[i].of /\ o.made = ops[i].made /\ o.ok = ops[i].ok
  BY <1>1, <1>3 DEF OpTypes
<1>5. OpGoesOn(i, o)
  BY <1>1, <1>2, <1>3, <1>4 DEF OpGoesOn
<1>6. SkillPageTyped' /\ ButtonsInv' /\ ListedInv'
  BY <1>1, <1>5, OpBesidePage
<1>7. MadeInv'
  <2>1. o.ok /\ o.kind = "import" => /\ {f[1] : f \in o.made} = o.of
                                     /\ \A f \in o.made \ deleted : folders[f] = "whole"
    BY <1>4 DEF SkillsPageInv, MadeInv
  <2> QED
    BY <1>1, <1>4, <1>5, <2>1, OpMakesNothing
<1>8. ClonesInv'
  BY <1>1, <1>2, <1>4, <1>5, OpClones
<1>9. DirTyped'
  <2>1. ops' \in [DOMAIN ops' -> OpTypes] /\ (\E n \in Nat : DOMAIN ops' = 1 .. n) /\ DOMAIN ops' = DOMAIN ops
    BY <1>5, OpGoes DEF SkillsPageInv
  <2>2. lost' \subseteq DOMAIN ops
    BY <1>2 DEF SkillsPageInv, DirTyped
  <2> QED
    BY <1>1, <2>1, <2>2 DEF SkillsPageInv, DirTyped
<1> QED
  BY <1>6, <1>7, <1>8, <1>9 DEF SkillsPageInv

\* The request is answered, and its clone is removed.
LEMMA OpFinishesKeeps ==
    ASSUME SkillsPageInv, NEW i \in DOMAIN ops, NEW ok \in BOOLEAN, OpFinishes(i, ok), ops[i].pc # "told",
           UNCHANGED <<python, folders, deleted, lost, skillPageVars>>, locked' \in {0} \cup DOMAIN ops,
           ok /\ ops[i].kind = "import" => /\ {f[1] : f \in ops[i].made} = ops[i].of
                                           /\ \A f \in ops[i].made \ deleted : folders[f] = "whole"
    PROVE  SkillsPageInv'
<1>1. ops[i] \in OpTypes
  BY DEF SkillsPageInv, DirTyped
<1>2. PICK o : o = [ops[i] EXCEPT !.pc = "answering", !.ok = ok]
  OBVIOUS
<1>3. ops' = [ops EXCEPT ![i] = o] /\ clones' = clones \ {i}
  BY <1>2 DEF OpFinishes
<1>4. /\ o \in OpTypes /\ o.pc = "answering" /\ o.kind = ops[i].kind /\ o.visit = ops[i].visit
      /\ o.of = ops[i].of /\ o.made = ops[i].made /\ o.ok = ok
  BY <1>1, <1>2 DEF OpTypes
<1>5. OpGoesOn(i, o)
  BY <1>3, <1>4 DEF OpGoesOn
<1>6. SkillPageTyped' /\ ButtonsInv' /\ ListedInv'
  BY <1>5, OpBesidePage
<1>7. MadeInv'
  <2>1. o.ok /\ o.kind = "import" => /\ {f[1] : f \in o.made} = o.of
                                     /\ \A f \in o.made \ deleted : folders[f] = "whole"
    BY <1>4
  <2> QED
    BY <1>4, <1>5, <2>1, OpMakesNothing
<1>8. ClonesInv'
  BY <1>3, <1>5, OpClones
<1>9. DirTyped'
  <2>1. ops' \in [DOMAIN ops' -> OpTypes] /\ (\E n \in Nat : DOMAIN ops' = 1 .. n) /\ DOMAIN ops' = DOMAIN ops
    BY <1>5, OpGoes DEF SkillsPageInv
  <2> QED
    BY <1>3, <2>1 DEF SkillsPageInv, DirTyped
<1> QED
  BY <1>6, <1>7, <1>8, <1>9 DEF SkillsPageInv

LEMMA CollectedKeeps == ASSUME SkillsPageInv, NEW i \in DOMAIN ops, Collected(i) PROVE SkillsPageInv'
<1>1. /\ ops[i].pc = "cloned" /\ (ops[i].kind = "check" \/ ops[i].of = {})
      /\ UNCHANGED <<python, folders, locked, deleted, lost, skillPageVars>>
  BY DEF Collected, OpAt
<1>2. PICK ok \in BOOLEAN : ok = (ops[i].of # {})
  OBVIOUS
<1>3. OpFinishes(i, ok)
  BY Zenon, <1>2 DEF Collected
<1>4. ok /\ ops[i].kind = "import" => FALSE
  BY <1>1, <1>2
<1>5. locked' \in {0} \cup DOMAIN ops
  BY <1>1 DEF SkillsPageInv, DirTyped
<1> QED
  BY <1>1, <1>3, <1>4, <1>5, OpFinishesKeeps

LEMMA LockTakenKeeps == ASSUME SkillsPageInv, NEW i \in DOMAIN ops, LockTaken(i) PROVE SkillsPageInv'
<1>1. /\ ops[i].pc = "cloned" /\ locked' = i /\ ops' = [ops EXCEPT ![i].pc = "copying"] /\ ops[i] \in OpTypes
      /\ UNCHANGED <<python, folders, clones, deleted, lost, skillPageVars>>
  BY DEF LockTaken, OpAt, SkillsPageInv, DirTyped
<1>3. PICK o : o = [ops[i] EXCEPT !.pc = "copying"]
  OBVIOUS
<1>4. /\ o \in OpTypes /\ o.pc = "copying" /\ o.kind = ops[i].kind /\ o.visit = ops[i].visit
      /\ o.of = ops[i].of /\ o.made = ops[i].made /\ o.ok = ops[i].ok
  BY <1>1, <1>3 DEF OpTypes
<1>5. OpGoesOn(i, o)
  BY <1>1, <1>3, <1>4 DEF OpGoesOn
<1>6. SkillPageTyped' /\ ButtonsInv' /\ ListedInv'
  BY <1>1, <1>5, OpBesidePage
<1>7. MadeInv'
  <2>1. o.ok /\ o.kind = "import" => /\ {f[1] : f \in o.made} = o.of
                                     /\ \A f \in o.made \ deleted : folders[f] = "whole"
    BY <1>4 DEF SkillsPageInv, MadeInv
  <2> QED
    BY <1>1, <1>4, <1>5, <2>1, OpMakesNothing
<1>8. ClonesInv'
  BY <1>1, <1>4, <1>5, OpClones
<1>9. DirTyped'
  <2>1. ops' \in [DOMAIN ops' -> OpTypes] /\ (\E n \in Nat : DOMAIN ops' = 1 .. n) /\ DOMAIN ops' = DOMAIN ops
    BY <1>5, OpGoes DEF SkillsPageInv
  <2> QED
    BY <1>1, <2>1 DEF SkillsPageInv, DirTyped
<1> QED
  BY <1>6, <1>7, <1>8, <1>9 DEF SkillsPageInv

LEMMA ImportedKeeps == ASSUME SkillsPageInv, NEW i \in DOMAIN ops, Imported(i) PROVE SkillsPageInv'
<1>1. /\ ops[i].pc = "copying" /\ Pending(i) = {} /\ Copied(i) = ops[i].of /\ OpFinishes(i, TRUE) /\ locked' = 0
      /\ UNCHANGED <<python, folders, deleted, lost, skillPageVars>>
  BY DEF Imported, OpAt
<1>2. ASSUME NEW f \in ops[i].made \ deleted PROVE folders[f] = "whole"
  <2>1. ops[i] \in OpTypes /\ folders \in [Folders -> {"absent", "bare", "whole"}]
    BY DEF SkillsPageInv, DirTyped
  <2>2. f \in Folders
    BY <2>1, <1>2 DEF OpTypes
  <2>3. folders[f] # "absent"
    BY <1>2 DEF SkillsPageInv, MadeInv
  <2>4. folders[f] # "bare"
    BY <1>1 DEF Pending
  <2> QED
    BY <2>1, <2>2, <2>3, <2>4
<1>3. {f[1] : f \in ops[i].made} = ops[i].of
  BY <1>1 DEF Copied
<1> QED
  BY <1>1, <1>2, <1>3, OpFinishesKeeps

\* The first free name: no import has it, but one whose folder was deleted.
LEMMA CopyBeginsKeeps == ASSUME SkillsPageInv, NEW i \in DOMAIN ops, NEW s \in Skills, CopyBegins(i, s) PROVE SkillsPageInv'
<1>1. /\ ops[i].pc = "copying" /\ ops[i] \in OpTypes
      /\ UNCHANGED <<python, clones, locked, deleted, lost, skillPageVars>>
  BY DEF CopyBegins, OpAt, SkillsPageInv, DirTyped
<1>2. PICK n \in 0 .. MaxImports : /\ folders[<<s, n>>] = "absent" /\ folders' = [folders EXCEPT ![<<s, n>>] = "bare"]
                                   /\ ops' = [ops EXCEPT ![i].made = @ \cup {<<s, n>>}]
  BY DEF CopyBegins
<1>3. PICK g \in Folders : g = <<s, n>>
  BY DEF Folders
<1>4. folders[g] = "absent" /\ folders' = [folders EXCEPT ![g] = "bare"]
  BY <1>2, <1>3
<1>5. PICK o : o = [ops[i] EXCEPT !.made = @ \cup {g}]
  OBVIOUS
<1>6. /\ o \in OpTypes /\ o.pc = "copying" /\ o.kind = ops[i].kind /\ o.visit = ops[i].visit
      /\ o.of = ops[i].of /\ o.made = ops[i].made \cup {g} /\ o.ok = ops[i].ok
  BY <1>1, <1>5 DEF OpTypes
<1>7. OpGoesOn(i, o)
  BY <1>1, <1>2, <1>3, <1>5, <1>6 DEF OpGoesOn
<1>8. SkillPageTyped' /\ ButtonsInv' /\ ListedInv'
  BY <1>1, <1>7, OpBesidePage
<1>9. /\ DOMAIN ops' = DOMAIN ops /\ ops'[i] = o /\ (\A j \in DOMAIN ops : j # i => ops'[j] = ops[j])
      /\ ops' \in [DOMAIN ops' -> OpTypes] /\ (\E m \in Nat : DOMAIN ops' = 1 .. m)
  BY <1>7, OpGoes DEF SkillsPageInv
<1>10. DirTyped'
  BY <1>1, <1>4, <1>9 DEF SkillsPageInv, DirTyped
<1>11. ClonesInv'
  BY <1>1, <1>6, <1>7, OpClones
<1>12. folders \in [Folders -> {"absent", "bare", "whole"}] /\ \A j \in DOMAIN ops : ops[j].made \subseteq Folders
  <2>1. \A j \in DOMAIN ops : ops[j] \in OpTypes
    BY DEF SkillsPageInv, DirTyped
  <2> QED
    BY <2>1 DEF SkillsPageInv, DirTyped, OpTypes
<1>13. \A j \in DOMAIN ops : g \in ops[j].made => g \in deleted
  BY <1>4 DEF SkillsPageInv, MadeInv
<1>14. \A j \in DOMAIN ops : ops'[j].made = ops[j].made \/ (j = i /\ ops'[j].made = ops[j].made \cup {g})
  BY <1>6, <1>9
<1>15. MadeInv'
  <2>1. ASSUME NEW j \in DOMAIN ops, NEW f \in ops'[j].made \ deleted PROVE folders'[f] # "absent"
    <3>1. CASE f = g
      BY <1>4, <1>12, <3>1
    <3>2. CASE f # g
      <4>1. f \in ops[j].made \ deleted
        BY <1>14, <2>1, <3>2
      <4>2. folders[f] # "absent" /\ f \in Folders
        BY <1>12, <4>1 DEF SkillsPageInv, MadeInv
      <4> QED
        BY <1>4, <3>2, <4>2
    <3> QED
      BY <3>1, <3>2
  <2>2. ASSUME NEW j \in DOMAIN ops, ops'[j].ok, ops'[j].kind = "import"
        PROVE  {f[1] : f \in ops'[j].made} = ops'[j].of /\ \A f \in ops'[j].made \ deleted : folders'[f] = "whole"
    <3>1. CASE j = i
      <4>1. ops[i].ok /\ ops[i].kind = "import"
        BY <1>6, <1>9, <2>2, <3>1
      <4>2. {f[1] : f \in ops[i].made} = ops[i].of /\ \A f \in ops[i].made \ deleted : folders[f] = "whole"
        BY <4>1 DEF SkillsPageInv, MadeInv
      <4>3. s \in ops[i].of \ {f[1] : f \in ops[i].made}
        BY DEF CopyBegins, Copied
      <4> QED
        BY <4>2, <4>3
    <3>2. CASE j # i
      <4>1. ops'[j] = ops[j]
        BY <1>9, <3>2
      <4>2. {f[1] : f \in ops[j].made} = ops[j].of /\ \A f \in ops[j].made \ deleted : folders[f] = "whole"
        BY <2>2, <4>1 DEF SkillsPageInv, MadeInv
      <4>3. \A f \in ops[j].made \ deleted : f # g /\ f \in Folders
        BY <1>12, <1>13
      <4> QED
        BY <1>4, <4>1, <4>2, <4>3
    <3> QED
      BY <3>1, <3>2
  <2>3. ASSUME NEW j \in DOMAIN ops, NEW k \in DOMAIN ops, j # k PROVE ops'[j].made \cap ops'[k].made \subseteq deleted
    <3>1. ops[j].made \cap ops[k].made \subseteq deleted
      BY <2>3 DEF SkillsPageInv, MadeInv
    <3> QED
      BY <1>13, <1>14, <2>3, <3>1
  <2> QED
    BY <1>1, <1>9, <2>1, <2>2, <2>3 DEF MadeInv
<1> QED
  BY <1>8, <1>10, <1>11, <1>15 DEF SkillsPageInv

LEMMA CopyEndsKeeps == ASSUME SkillsPageInv, NEW i \in DOMAIN ops, CopyEnds(i) PROVE SkillsPageInv'
<1>1. ops[i].pc = "copying" /\ UNCHANGED <<python, deleted, lost, skillPageVars>>
  BY DEF CopyEnds, OpAt
<1>2. CASE /\ folders' = [f \in Folders |-> IF f \in Pending(i) THEN "whole" ELSE folders[f]]
           /\ UNCHANGED <<ops, clones, locked>>
  <2>1. folders \in [Folders -> {"absent", "bare", "whole"}] /\ \A j \in DOMAIN ops : ops[j].made \subseteq Folders
    <3>1. \A j \in DOMAIN ops : ops[j] \in OpTypes
      BY DEF SkillsPageInv, DirTyped
    <3> QED
      BY <3>1 DEF SkillsPageInv, DirTyped, OpTypes
  <2>2. folders' \in [Folders -> {"absent", "bare", "whole"}] /\ \A f \in Folders : folders'[f] = folders[f] \/ folders'[f] = "whole"
    BY <1>2, <2>1
  <2>3. DirTyped'
    BY <1>1, <1>2, <2>2 DEF SkillsPageInv, DirTyped
  <2>4. MadeInv'
    <3>1. \A j \in DOMAIN ops : \A f \in ops[j].made \ deleted : folders'[f] # "absent"
      BY <2>1, <2>2 DEF SkillsPageInv, MadeInv
    <3>2. \A j \in DOMAIN ops : ops[j].ok /\ ops[j].kind = "import" =>
             {f[1] : f \in ops[j].made} = ops[j].of /\ \A f \in ops[j].made \ deleted : folders'[f] = "whole"
      BY <2>1, <2>2 DEF SkillsPageInv, MadeInv
    <3>3. \A j, k \in DOMAIN ops : j # k => ops[j].made \cap ops[k].made \subseteq deleted
      BY DEF SkillsPageInv, MadeInv
    <3> QED
      BY <1>1, <1>2, <3>1, <3>2, <3>3 DEF MadeInv
  <2>5. ClonesInv'
    BY <1>1, <1>2 DEF SkillsPageInv, ClonesInv
  <2>6. UNCHANGED <<visit, onSkillsPage, skillLoad, skillList, importing, checking, deleteOf, misread>>
    BY <1>1 DEF skillPageVars
  <2>7. SkillPageTyped' /\ ButtonsInv' /\ ListedInv'
    BY <1>1, <1>2, <2>6, BesidePage
  <2> QED
    BY <2>3, <2>4, <2>5, <2>7 DEF SkillsPageInv
<1>3. CASE OpFinishes(i, FALSE) /\ locked' = 0 /\ UNCHANGED folders
  BY <1>1, <1>3, OpFinishesKeeps
<1> QED
  BY <1>1, <1>2, <1>3 DEF CopyEnds

LEMMA ApiRestartsKeeps == ASSUME SkillsPageInv, ApiRestarts PROVE SkillsPageInv'
<1>1. /\ ops' = [i \in DOMAIN ops |->
                   IF i \in UnderWay THEN [ops[i] EXCEPT !.pc = "answering", !.ok = FALSE] ELSE ops[i]]
      /\ lost' = lost \cup (clones \cap UnderWay) /\ locked' = 0
      /\ UNCHANGED <<python, folders, clones, deleted, skillPageVars>>
  BY DEF ApiRestarts
<1>2. \A i \in DOMAIN ops : ops[i] \in OpTypes
  BY DEF SkillsPageInv, DirTyped
<1>3. ASSUME NEW i \in DOMAIN ops
      PROVE  /\ ops'[i] \in OpTypes /\ ops'[i].kind = ops[i].kind /\ ops'[i].visit = ops[i].visit
             /\ ops'[i].made = ops[i].made /\ ops'[i].of = ops[i].of
             /\ ops'[i].pc = "told" <=> ops[i].pc = "told"
             /\ ops[i].pc = "told" => ops'[i] = ops[i]
             /\ ops'[i] = ops[i] \/ ops'[i].ok = FALSE
             /\ i \in UnderWay \/ ops'[i] = ops[i]
  <2>1. CASE ops[i].pc = "told"
    <3>1. ops'[i] = ops[i]
      BY <1>1, <2>1 DEF UnderWay
    <3> QED
      BY <1>2, <3>1
  <2>2. CASE ops[i].pc # "told"
    <3>1. i \in UnderWay
      BY <2>2 DEF UnderWay
    <3>2. PICK o : o = [ops[i] EXCEPT !.pc = "answering", !.ok = FALSE]
      OBVIOUS
    <3>3. ops'[i] = o
      BY <1>1, <3>1, <3>2
    <3>4. /\ o \in OpTypes /\ o.kind = ops[i].kind /\ o.visit = ops[i].visit /\ o.made = ops[i].made /\ o.of = ops[i].of
          /\ o.pc = "answering" /\ o.ok = FALSE
      BY <1>2, <3>2 DEF OpTypes
    <3> QED
      BY <2>2, <3>1, <3>3, <3>4
  <2> QED
    BY <2>1, <2>2
<1>4. DOMAIN ops' = DOMAIN ops
  BY <1>1
<1>5. DirTyped'
  <2>1. ops' \in [DOMAIN ops' -> OpTypes]
    <3>1. ops' = [i \in DOMAIN ops |-> ops'[i]]
      BY <1>1
    <3> QED
      BY <1>3, <1>4, <3>1
  <2> QED
    BY <1>1, <1>4, <2>1 DEF SkillsPageInv, DirTyped
<1>6. MadeInv'
  <2>1. ASSUME NEW i \in DOMAIN ops, ops'[i].ok, ops'[i].kind = "import"
        PROVE  {f[1] : f \in ops'[i].made} = ops'[i].of /\ \A f \in ops'[i].made \ deleted : folders[f] = "whole"
    <3>1. ops'[i] = ops[i]
      BY <1>3, <2>1
    <3> QED
      BY <2>1, <3>1 DEF SkillsPageInv, MadeInv
  <2>2. ASSUME NEW i \in DOMAIN ops, NEW f \in ops'[i].made \ deleted PROVE folders[f] # "absent"
    <3>1. ops'[i].made = ops[i].made
      BY <1>3
    <3> QED
      BY <3>1 DEF SkillsPageInv, MadeInv
  <2>3. ASSUME NEW i \in DOMAIN ops, NEW j \in DOMAIN ops, i # j PROVE ops'[i].made \cap ops'[j].made \subseteq deleted
    <3>1. ops'[i].made = ops[i].made /\ ops'[j].made = ops[j].made
      BY <1>3
    <3> QED
      BY <2>3, <3>1 DEF SkillsPageInv, MadeInv
  <2>4. deleted' = deleted /\ folders' = folders
    BY <1>1
  <2> QED
    BY <1>4, <2>1, <2>2, <2>3, <2>4 DEF MadeInv
<1>7. ClonesInv'
  <2>1. \A i \in clones : i \in lost' \/ (ops'[i] = ops[i] /\ i \notin UnderWay)
    BY <1>1, <1>3 DEF SkillsPageInv, DirTyped
  <2> QED
    BY <1>1, <2>1 DEF SkillsPageInv, ClonesInv
<1>8. UNCHANGED <<visit, onSkillsPage, skillLoad, skillList, importing, checking, deleteOf, misread>>
  BY <1>1 DEF skillPageVars
<1>9. SkillPageTyped' /\ ButtonsInv' /\ ListedInv'
  BY <1>1, <1>3, <1>4, <1>8, BesidePage
<1> QED
  BY <1>5, <1>6, <1>7, <1>9 DEF SkillsPageInv

-----------------------------------------------------------------------------
(* What the page asks and is told.                                         *)

\* A request begins: it is of this visit, and under way.
LEMMA OpBeginsKeeps ==
    ASSUME SkillsPageInv, NEW sort \in {"import", "check"}, NEW of \in SUBSET Skills, OpBegins(NewOp(sort, of)),
           Shown, importing' \in BOOLEAN, checking' \in BOOLEAN,
           IF sort = "import" THEN importing' = TRUE /\ checking' = checking
                              ELSE checking' = TRUE /\ importing' = importing,
           UNCHANGED <<visit, onSkillsPage, skillLoad, skillList, deleteOf, misread>>
    PROVE  SkillsPageInv'
<1>1. PICK n \in Nat : DOMAIN ops = 1 .. n
  BY DEF SkillsPageInv, DirTyped
<1>2. Cardinality(DOMAIN ops) = n
  <2>1. 1 \in Int /\ n \in Int
    OBVIOUS
  <2>2. Cardinality(1 .. n) = IF 1 > n THEN 0 ELSE n - 1 + 1
    BY <2>1, FS_Interval
  <2> QED
    BY <1>1, <2>2
<1>3. PICK o : o = NewOp(sort, of)
  OBVIOUS
<1>4. onSkillsPage = TRUE
  BY DEF Shown, SkillsPageInv, SkillPageTyped
<1>5. /\ o \in OpTypes /\ o.kind = sort /\ o.visit = visit /\ o.made = {} /\ o.ok = FALSE
      /\ o.pc = IF python THEN "cloning" ELSE "answering"
  <2>1. visit \in 1 .. MaxVisits
    BY <1>4, SkillsPageAssumption DEF SkillsPageInv, SkillPageTyped
  <2> QED
    BY <1>3, <2>1 DEF NewOp, OpTypes
<1>6. /\ ops' = [i \in (1 .. n) \cup {n + 1} |-> IF i \in 1 .. n THEN ops[i] ELSE o]
      /\ clones' = IF python THEN clones \cup {n + 1} ELSE clones
      /\ UNCHANGED <<python, folders, locked, deleted, lost>>
  BY <1>1, <1>2, <1>3 DEF OpBegins
<1>7. DOMAIN ops' = 1 .. n + 1 /\ DOMAIN ops' = DOMAIN ops \cup {n + 1} /\ n + 1 \notin DOMAIN ops
  <2>1. (1 .. n) \cup {n + 1} = 1 .. n + 1 /\ n + 1 \notin 1 .. n
    OBVIOUS
  <2>2. DOMAIN ops' = (1 .. n) \cup {n + 1}
    BY <1>6
  <2> QED
    BY <1>1, <2>1, <2>2
<1>8. ops'[n + 1] = o /\ \A i \in DOMAIN ops : ops'[i] = ops[i]
  BY <1>1, <1>6, <1>7
<1>9. DirTyped'
  <2>1. \A i \in DOMAIN ops' : ops'[i] \in OpTypes
    BY <1>5, <1>7, <1>8 DEF SkillsPageInv, DirTyped
  <2>2. ops' = [i \in DOMAIN ops' |-> ops'[i]]
    BY <1>6
  <2>3. ops' \in [DOMAIN ops' -> OpTypes]
    BY <2>1, <2>2
  <2>4. \E m \in Nat : DOMAIN ops' = 1 .. m
    BY <1>7
  <2>5. clones' \subseteq DOMAIN ops' /\ lost' \subseteq DOMAIN ops' /\ locked' \in {0} \cup DOMAIN ops'
    BY <1>6, <1>7 DEF SkillsPageInv, DirTyped
  <2> QED
    BY <1>6, <2>3, <2>4, <2>5 DEF SkillsPageInv, DirTyped
<1>10. SkillPageTyped'
  BY DEF SkillsPageInv, SkillPageTyped
<1>11. MadeInv'
  <2>1. \A i \in DOMAIN ops' : \A f \in ops'[i].made \ deleted : folders[f] # "absent"
    BY <1>5, <1>7, <1>8 DEF SkillsPageInv, MadeInv
  <2>2. ASSUME NEW i \in DOMAIN ops', ops'[i].ok, ops'[i].kind = "import"
        PROVE  {f[1] : f \in ops'[i].made} = ops'[i].of /\ \A f \in ops'[i].made \ deleted : folders[f] = "whole"
    <3>1. i \in DOMAIN ops /\ ops'[i] = ops[i]
      BY <1>5, <1>7, <1>8, <2>2
    <3> QED
      BY <2>2, <3>1 DEF SkillsPageInv, MadeInv
  <2>3. ASSUME NEW i \in DOMAIN ops', NEW j \in DOMAIN ops', i # j PROVE ops'[i].made \cap ops'[j].made \subseteq deleted
    <3>1. CASE i = n + 1 \/ j = n + 1
      BY <1>5, <1>8, <3>1
    <3>2. CASE i \in DOMAIN ops /\ j \in DOMAIN ops
      <4>1. ops'[i] = ops[i] /\ ops'[j] = ops[j]
        BY <1>8, <3>2
      <4> QED
        BY <2>3, <3>2, <4>1 DEF SkillsPageInv, MadeInv
    <3> QED
      BY <1>7, <3>1, <3>2
  <2>4. deleted' = deleted /\ folders' = folders
    BY <1>6
  <2> QED
    BY <2>1, <2>2, <2>3, <2>4 DEF MadeInv
<1>12. ClonesInv'
  <2>1. ASSUME NEW i \in clones' PROVE i \in lost \/ ops'[i].pc \in {"cloning", "cloned", "copying"}
    <3>1. CASE i \in clones
      <4>1. ops'[i] = ops[i]
        BY <1>8, <3>1 DEF SkillsPageInv, DirTyped
      <4> QED
        BY <3>1, <4>1 DEF SkillsPageInv, ClonesInv
    <3>2. CASE i \notin clones
      BY <1>5, <1>6, <1>8, <2>1, <3>2
    <3> QED
      BY <3>1, <3>2
  <2> QED
    BY <1>6, <2>1 DEF ClonesInv
<1>13. ButtonsInv'
  <2>1. \A k : \A i \in DOMAIN ops : AskedHere(i, k)' <=> AskedHere(i, k)
    BY <1>8 DEF AskedHere
  <2>2. AskedHere(n + 1, sort)'
    BY <1>5, <1>8 DEF AskedHere
  <2>3. \A i \in DOMAIN ops' : ops'[i].visit <= visit
    <3>1. visit \in Nat
      BY SkillsPageAssumption DEF SkillsPageInv, SkillPageTyped
    <3>2. visit <= visit /\ ops'[n + 1].visit = visit
      BY <1>5, <1>8, <3>1
    <3>3. \A i \in DOMAIN ops : ops'[i].visit <= visit
      <4>1. \A i \in DOMAIN ops : ops[i].visit <= visit
        BY DEF SkillsPageInv, ButtonsInv
      <4> QED
        BY <1>8, <4>1
    <3>4. \A i \in DOMAIN ops' : i = n + 1 \/ i \in DOMAIN ops
      BY <1>7
    <3> QED
      BY <3>2, <3>3, <3>4
  <2>4. importing' = TRUE => \E i \in DOMAIN ops' : AskedHere(i, "import")'
    <3>1. CASE sort = "import"
      BY <1>7, <2>2, <3>1
    <3>2. CASE sort # "import"
      <4>1. importing' = TRUE => \E i \in DOMAIN ops : AskedHere(i, "import")
        BY <3>2 DEF SkillsPageInv, ButtonsInv
      <4> QED
        BY <1>7, <2>1, <4>1
    <3> QED
      BY <3>1, <3>2
  <2>5. checking' = TRUE => \E i \in DOMAIN ops' : AskedHere(i, "check")'
    <3>1. CASE sort = "import"
      <4>1. checking' = TRUE => \E i \in DOMAIN ops : AskedHere(i, "check")
        BY <3>1 DEF SkillsPageInv, ButtonsInv
      <4> QED
        BY <1>7, <2>1, <4>1
    <3>2. CASE sort # "import"
      BY <1>7, <2>2, <3>2
    <3> QED
      BY <3>1, <3>2
  <2> QED
    BY <1>4, <2>3, <2>4, <2>5 DEF ButtonsInv
<1>14. ListedInv'
  <2>1. ASSUME NEW i \in DOMAIN ops', ToldHere(i)' PROVE i \in DOMAIN ops /\ ToldHere(i) /\ ops'[i] = ops[i]
    <3>1. i # n + 1
      BY <1>5, <1>8, <2>1 DEF ToldHere
    <3>2. i \in DOMAIN ops /\ ops'[i] = ops[i]
      BY <1>7, <1>8, <3>1
    <3> QED
      BY <2>1, <3>2 DEF ToldHere
  <2>2. \A f : PageWillShow(f)' <=> PageWillShow(f)
    BY DEF PageWillShow
  <2> QED
    BY <1>6, <2>1, <2>2 DEF SkillsPageInv, ListedInv
<1> QED
  BY <1>9, <1>10, <1>11, <1>12, <1>13, <1>14 DEF SkillsPageInv

LEMMA RequestsKeep ==
    ASSUME SkillsPageInv, RunImportSelfCheck \/ \E of \in SUBSET Skills : ImportSkills(of)
    PROVE  SkillsPageInv'
<1>1. CASE RunImportSelfCheck
  <2>1. /\ OpBegins(NewOp("check", Skills)) /\ Shown /\ checking' = TRUE /\ importing' = importing
        /\ UNCHANGED <<visit, onSkillsPage, skillLoad, skillList, deleteOf, misread>>
    BY <1>1 DEF RunImportSelfCheck
  <2>2. importing' \in BOOLEAN /\ checking' \in BOOLEAN
    BY <2>1 DEF SkillsPageInv, SkillPageTyped
  <2> QED
    BY <2>1, <2>2, OpBeginsKeeps
<1>2. CASE \E of \in SUBSET Skills : ImportSkills(of)
  <2>1. PICK of \in SUBSET Skills : ImportSkills(of)
    BY <1>2
  <2>2. /\ OpBegins(NewOp("import", of)) /\ Shown /\ importing' = TRUE /\ checking' = checking
        /\ UNCHANGED <<visit, onSkillsPage, skillLoad, skillList, deleteOf, misread>>
    BY <2>1 DEF ImportSkills
  <2>3. importing' \in BOOLEAN /\ checking' \in BOOLEAN
    BY <2>2 DEF SkillsPageInv, SkillPageTyped
  <2> QED
    BY <2>2, <2>3, OpBeginsKeeps
<1> QED
  BY <1>1, <1>2

LEMMA PageAnsweredKeeps == ASSUME SkillsPageInv, NEW i \in DOMAIN ops, PageAnswered(i) PROVE SkillsPageInv'
<1> DEFINE here == onSkillsPage = TRUE /\ visit = ops[i].visit
<1>0. onSkillsPage <=> onSkillsPage = TRUE
  BY DEF SkillsPageInv, SkillPageTyped
<1>1. /\ ops[i].pc = "answering" /\ ops' = [ops EXCEPT ![i].pc = "told"] /\ ops[i] \in OpTypes
      /\ UNCHANGED <<python, folders, clones, locked, deleted, lost, visit, onSkillsPage, skillList, deleteOf>>
  BY DEF PageAnswered, SkillsPageInv, DirTyped
<1>2. here /\ ops[i].kind = "import" =>
         /\ importing' = FALSE /\ checking' = checking
         /\ IF ops[i].ok THEN LoadBegins ELSE UNCHANGED <<skillLoad, misread>>
  BY <1>0 DEF PageAnswered
<1>3. ~(here /\ ops[i].kind = "import") =>
         checking' = (checking /\ ~here) /\ UNCHANGED <<importing, skillLoad, misread>>
  <2>1. here <=> (onSkillsPage /\ visit = ops[i].visit)
    BY <1>0
  <2> HIDE DEF here
  <2> QED
    BY Zenon, <2>1 DEF PageAnswered
<1> HIDE DEF here
<1>4. PICK o : o = [ops[i] EXCEPT !.pc = "told"]
  OBVIOUS
<1>5. /\ o \in OpTypes /\ o.pc = "told" /\ o.kind = ops[i].kind /\ o.visit = ops[i].visit
      /\ o.of = ops[i].of /\ o.made = ops[i].made /\ o.ok = ops[i].ok
  BY <1>1, <1>4 DEF OpTypes
<1>6. /\ ops' = [ops EXCEPT ![i] = o] /\ DOMAIN ops' = DOMAIN ops /\ ops'[i] = o
      /\ (\A j \in DOMAIN ops : j # i => ops'[j] = ops[j]) /\ ops' \in [DOMAIN ops' -> OpTypes]
  BY <1>1, <1>4, <1>5 DEF SkillsPageInv, DirTyped
<1>7. DirTyped'
  BY <1>1, <1>6 DEF SkillsPageInv, DirTyped
<1>8. skillLoad' \in SkillLoads /\ misread' \in BOOLEAN
  <2>1. LoadBegins => skillLoad' \in SkillLoads /\ misread' \in BOOLEAN
    BY NoLoadIs DEF LoadBegins, SkillLoads
  <2>2. LoadBegins \/ UNCHANGED <<skillLoad, misread>>
    BY <1>2, <1>3
  <2> QED
    BY <2>1, <2>2 DEF SkillsPageInv, SkillPageTyped
<1>9. importing' \in BOOLEAN /\ checking' \in BOOLEAN
  <2>1. importing \in BOOLEAN /\ checking \in BOOLEAN
    BY DEF SkillsPageInv, SkillPageTyped
  <2>2. CASE here /\ ops[i].kind = "import"
    BY <1>2, <2>1, <2>2
  <2>3. CASE ~(here /\ ops[i].kind = "import")
    BY <1>3, <2>1, <2>3
  <2> QED
    BY <2>2, <2>3
<1>10. SkillPageTyped'
  BY <1>1, <1>8, <1>9 DEF SkillsPageInv, SkillPageTyped
<1>11. MadeInv'
  <2>1. \A j \in DOMAIN ops : /\ ops'[j].made = ops[j].made /\ ops'[j].of = ops[j].of /\ ops'[j].ok = ops[j].ok
                              /\ ops'[j].kind = ops[j].kind
    BY <1>5, <1>6
  <2>2. \A j \in DOMAIN ops : \A f \in ops'[j].made \ deleted : folders[f] # "absent"
    BY <2>1 DEF SkillsPageInv, MadeInv
  <2>3. ASSUME NEW j \in DOMAIN ops, ops'[j].ok, ops'[j].kind = "import"
        PROVE  {f[1] : f \in ops'[j].made} = ops'[j].of /\ \A f \in ops'[j].made \ deleted : folders[f] = "whole"
    <3>1. ops[j].ok /\ ops[j].kind = "import" /\ ops'[j].made = ops[j].made /\ ops'[j].of = ops[j].of
      BY <2>1, <2>3
    <3> QED
      BY <3>1 DEF SkillsPageInv, MadeInv
  <2>4. ASSUME NEW j \in DOMAIN ops, NEW k \in DOMAIN ops, j # k PROVE ops'[j].made \cap ops'[k].made \subseteq deleted
    <3>1. ops'[j].made = ops[j].made /\ ops'[k].made = ops[k].made
      BY <2>1
    <3> QED
      BY <2>4, <3>1 DEF SkillsPageInv, MadeInv
  <2> QED
    BY <1>1, <1>6, <2>2, <2>3, <2>4 DEF MadeInv
<1>12. ClonesInv'
  <2>1. clones \subseteq DOMAIN ops /\ (i \in clones => i \in lost)
    BY <1>1 DEF SkillsPageInv, DirTyped, ClonesInv
  <2> QED
    BY <1>1, <1>6, <2>1 DEF SkillsPageInv, ClonesInv
<1>13. \A k : \A j \in DOMAIN ops : j # i => (AskedHere(j, k)' <=> AskedHere(j, k))
  BY <1>1, <1>6 DEF AskedHere
<1>14. ButtonsInv'
  <2>1. onSkillsPage = FALSE => importing' = FALSE /\ checking' = FALSE
    <3>1. SUFFICES ASSUME onSkillsPage = FALSE PROVE importing' = FALSE /\ checking' = FALSE
      OBVIOUS
    <3>2. importing = FALSE /\ checking = FALSE /\ ~here
      BY <3>1 DEF SkillsPageInv, ButtonsInv, here
    <3> QED
      BY <1>3, <3>2
  <2>2. \A j \in DOMAIN ops : ops'[j].visit = ops[j].visit
    BY <1>5, <1>6
  <2>3. importing' = TRUE => \E j \in DOMAIN ops : AskedHere(j, "import")'
    <3> SUFFICES ASSUME importing' = TRUE PROVE \E j \in DOMAIN ops : AskedHere(j, "import")'
      OBVIOUS
    <3>1. ~(here /\ ops[i].kind = "import") /\ importing = TRUE
      BY <1>2, <1>3
    <3>2. PICK j \in DOMAIN ops : AskedHere(j, "import")
      BY <3>1 DEF SkillsPageInv, ButtonsInv
    <3>3. onSkillsPage = TRUE
      BY <3>1 DEF SkillsPageInv, SkillPageTyped, ButtonsInv
    <3>4. j # i
      BY <3>1, <3>2, <3>3 DEF AskedHere, here
    <3> QED
      BY <1>13, <3>2, <3>4
  <2>4. checking' = TRUE => \E j \in DOMAIN ops : AskedHere(j, "check")'
    <3> SUFFICES ASSUME checking' = TRUE PROVE \E j \in DOMAIN ops : AskedHere(j, "check")'
      OBVIOUS
    <3>1. checking = TRUE /\ (here => ops[i].kind = "import")
      <4>1. checking \in BOOLEAN
        BY DEF SkillsPageInv, SkillPageTyped
      <4>2. CASE here /\ ops[i].kind = "import"
        BY <1>2, <4>2
      <4>3. CASE ~(here /\ ops[i].kind = "import")
        <5>1. checking' = (checking /\ ~here)
          BY <1>3, <4>3
        <5>2. checking /\ ~here
          BY <5>1
        <5> QED
          BY <4>1, <5>2
      <4> QED
        BY <4>2, <4>3
    <3>2. PICK j \in DOMAIN ops : AskedHere(j, "check")
      BY <3>1 DEF SkillsPageInv, ButtonsInv
    <3>3. onSkillsPage = TRUE
      BY <3>1 DEF SkillsPageInv, SkillPageTyped, ButtonsInv
    <3>4. j # i
      BY <3>1, <3>2, <3>3 DEF AskedHere, here
    <3> QED
      BY <1>13, <3>2, <3>4
  <2> QED
    BY <1>1, <1>6, <2>1, <2>2, <2>3, <2>4 DEF SkillsPageInv, ButtonsInv
<1>15. ListedInv'
  <2>1. CASE here /\ ops[i].kind = "import" /\ ops[i].ok
    <3>1. skillLoad'.pc = "dirs"
      BY <1>2, <2>1, NoLoadIs DEF LoadBegins, SkillLoads
    <3> QED
      BY <3>1 DEF ListedInv, PageWillShow
  <2>2. CASE ~(here /\ ops[i].kind = "import" /\ ops[i].ok)
    <3>1. UNCHANGED <<skillLoad, misread>>
      BY <1>2, <1>3, <2>2
    <3>2. ASSUME NEW j \in DOMAIN ops, ToldHere(j)', onSkillsPage = TRUE PROVE ToldHere(j) /\ ops'[j] = ops[j]
      <4>1. CASE j = i
        <5>1. ops[i].ok /\ ops[i].visit = visit /\ ops[i].kind = "import"
          BY <1>1, <1>5, <1>6, <3>2, <4>1 DEF ToldHere
        <5> QED
          BY <2>2, <3>2, <5>1 DEF here
      <4>2. CASE j # i
        BY <1>1, <1>6, <3>2, <4>2 DEF ToldHere
      <4> QED
        BY <4>1, <4>2
    <3>3. \A f : PageWillShow(f)' <=> PageWillShow(f)
      BY <1>1, <3>1 DEF PageWillShow
    <3> QED
      BY <1>1, <1>6, <3>1, <3>2, <3>3 DEF SkillsPageInv, ListedInv
  <2> QED
    BY <2>1, <2>2
<1> QED
  BY <1>7, <1>10, <1>11, <1>12, <1>14, <1>15 DEF SkillsPageInv

LEMMA SkillsPageKeep == ASSUME SkillsPageInv, [SkillsPageNext]_skillsPageVars PROVE SkillsPageInv'
<1>1. CASE UNCHANGED skillsPageVars
  <2>1. UNCHANGED skillDirVars /\ UNCHANGED <<visit, onSkillsPage, skillLoad, skillList, misread, importing, checking, deleteOf>>
    BY <1>1 DEF skillsPageVars, skillPageVars
  <2>2. deleteOf' \in Folders \cup {None}
    BY <2>1 DEF SkillsPageInv, SkillPageTyped
  <2> QED
    BY <2>1, <2>2, SamePage
<1>2. CASE SkillsPageNext
  <2>1. CASE \/ OpenPage \/ LeavePage \/ DirsAnswered \/ UserDirRead \/ CustomDirRead
             \/ HandleOpenSkillFolder \/ ToggleDialog \/ RunImportSelfCheck \/ ApiRestarts
    BY <2>1, OpenPageKeeps, LeavePageKeeps, DirsAnsweredKeeps, UserDirReadKeeps, CustomDirReadKeeps, DialogsKeep,
       RequestsKeep, ApiRestartsKeeps
  <2>2. CASE \E f \in Folders : SkillFileRead(f) \/ HandleDeleteSkill(f) \/ UserDeletes(f)
    BY <2>2, SkillFileReadKeeps, DialogsKeep, UserDeletesKeeps
  <2>3. CASE \E of \in SUBSET Skills : ImportSkills(of)
    BY <2>3, RequestsKeep
  <2>4. CASE \E i \in DOMAIN ops :
                \/ PageAnswered(i) \/ Cloned(i) \/ Collected(i) \/ LockTaken(i) \/ CopyEnds(i) \/ Imported(i)
                \/ \E s \in Skills : CopyBegins(i, s)
    BY <2>4, PageAnsweredKeeps, ClonedKeeps, CollectedKeeps, LockTakenKeeps, CopyEndsKeeps, ImportedKeeps, CopyBeginsKeeps
  <2> QED
    BY <1>2, <2>1, <2>2, <2>3, <2>4 DEF SkillsPageNext
<1> QED
  BY <1>1, <1>2

LEMMA SkillsPageShow ==
    ASSUME SkillsPageInv PROVE SkillsPageTypeOK /\ ListShowsImports /\ ImportsAreWhole /\ ClonesRemoved
<1>1. DirTyped /\ SkillPageTyped
  BY DEF SkillsPageInv
<1>2. \A i \in DOMAIN ops : ops[i] \in OpTypes
  BY <1>1 DEF DirTyped
<1>3. SkillsPageTypeOK
  <2>1. \A i \in DOMAIN ops :
         /\ ops[i].kind \in {"import", "check"} /\ ops[i].visit \in 1 .. MaxVisits
         /\ ops[i].pc \in {"cloning", "cloned", "copying", "answering", "told"}
         /\ ops[i].of \subseteq Skills /\ ops[i].made \subseteq Folders /\ ops[i].ok \in BOOLEAN
    BY <1>2 DEF OpTypes
  <2>2. skillLoad.pc \in {"none", "dirs", "user", "files", "custom"} /\ skillLoad.left \subseteq Folders
    BY <1>1 DEF SkillPageTyped, SkillLoads
  <2>3. \A e \in skillList : e.folder \in Folders \cup ({"custom"} \X CustomSkills) /\ e.named \in BOOLEAN
    <3>1. \A e \in skillList : e \in EntryTypes
      BY <1>1 DEF SkillPageTyped
    <3> QED
      BY <3>1 DEF EntryTypes
  <2>4. {importing, checking, onSkillsPage, misread} \subseteq BOOLEAN
    BY <1>1 DEF SkillPageTyped
  <2>5. /\ python \in BOOLEAN /\ folders \in [Folders -> {"absent", "bare", "whole"}]
        /\ locked \in {0} \cup DOMAIN ops /\ clones \subseteq DOMAIN ops
        /\ deleted \subseteq Folders /\ lost \subseteq DOMAIN ops
    BY <1>1 DEF DirTyped
  <2>6. deleteOf \in Folders \cup {None}
    BY <1>1 DEF SkillPageTyped
  <2> QED
    BY <2>1, <2>2, <2>3, <2>4, <2>5, <2>6 DEF SkillsPageTypeOK
<1>4. ListShowsImports
  <2> SUFFICES ASSUME Shown, ~misread, NEW i \in DOMAIN ops, ops[i].pc = "told", ops[i].ok, ops[i].visit = visit,
                      ops[i].kind = "import", NEW f \in ops[i].made \ deleted
               PROVE  [folder |-> f, named |-> TRUE] \in skillList \/ (f[1] \in IgnoredNames /\ f[2] = 0)
    BY DEF ListShowsImports
  <2>1. onSkillsPage = TRUE /\ misread = FALSE /\ skillLoad.pc = "none"
    BY <1>1, NoLoadIs DEF Shown, SkillPageTyped
  <2>2. ToldHere(i)
    BY DEF ToldHere
  <2>3. PageWillShow(f) \/ Ignored(f)
    BY <2>1, <2>2 DEF SkillsPageInv, ListedInv
  <2> QED
    BY <2>1, <2>3 DEF PageWillShow, WholeFolder, Ignored
<1>5. ImportsAreWhole
  <2>1. \A i, j \in DOMAIN ops : i # j => ops[i].made \cap ops[j].made \subseteq deleted \/ python = FALSE
    BY DEF SkillsPageInv, MadeInv
  <2>2. \A i \in DOMAIN ops : ops[i].ok /\ ops[i].kind = "import" =>
          /\ {f[1] : f \in ops[i].made} = ops[i].of
          /\ \A f \in ops[i].made \ deleted : folders[f] = "whole"
    BY DEF SkillsPageInv, MadeInv
  <2> QED
    BY <2>1, <2>2 DEF ImportsAreWhole
<1>6. ClonesRemoved
  <2>1. \A i \in clones : i \in lost \/ ops[i].pc \in {"cloning", "cloned", "copying"}
    BY DEF SkillsPageInv, ClonesInv
  <2>2. importing => \E i \in UnderWay : ops[i].kind = "import" /\ ops[i].visit = visit
    BY <1>1 DEF SkillsPageInv, SkillPageTyped, ButtonsInv, AskedHere, UnderWay
  <2>3. checking => \E i \in UnderWay : ops[i].kind = "check" /\ ops[i].visit = visit
    BY <1>1 DEF SkillsPageInv, SkillPageTyped, ButtonsInv, AskedHere, UnderWay
  <2> QED
    BY <2>1, <2>2, <2>3 DEF ClonesRemoved
<1> QED
  BY <1>3, <1>4, <1>5, <1>6

\* The skills page shows what the imports it was told of have put into the
\* directory, an import that succeeded is whole and has its folders for
\* itself, no clone outlives its request, and a button waits only for a
\* request of its own (SkillsSettings.tsx, files.py import_skill).
THEOREM SkillsPageHolds ==
    SkillsPageSpec => [](SkillsPageTypeOK /\ ListShowsImports /\ ImportsAreWhole /\ ClonesRemoved)
<1>1. SkillsPageInit => SkillsPageInv
  BY SkillsPageBegins
<1>2. SkillsPageInv /\ [SkillsPageNext]_skillsPageVars => SkillsPageInv'
  BY SkillsPageKeep
<1>3. SkillsPageInv => SkillsPageTypeOK /\ ListShowsImports /\ ImportsAreWhole /\ ClonesRemoved
  BY SkillsPageShow
<1> QED
  BY <1>1, <1>2, <1>3, PTL DEF SkillsPageSpec

-----------------------------------------------------------------------------
(* ShellComposer: each file given is in one place.                         *)

FileKinds == {"image", "blank", "file"}
SentTypes == [ids : Seq(Given), refs : Seq({"file", "data"}), row : {"none", "written", "failed"}]
ShownAs == {"data", "loading", "path"}

ComposerTyped ==
    /\ text \in BOOLEAN /\ running \in BOOLEAN /\ metSubmit \in BOOLEAN
    /\ kind \in Seq(FileKinds) /\ attached \in Seq(Given)
    /\ adding \subseteq Given /\ removed \subseteq Given
    /\ \A s \in submits : s.ids \in Seq(Given)
    /\ sent \in Seq(SentTypes)
    /\ DOMAIN onPage \subseteq SentMessages /\ loader \subseteq SentMessages
    /\ \A n \in DOMAIN onPage : onPage[n] \in Seq(ShownAs)
    /\ turnovers \in 0 .. MaxTurnovers

\* A message has no image that could not be read, and its row a reference to
\* each of its files.
ReadFilesInv ==
    /\ \A n \in SentMessages : \A id \in Members(sent[n].ids) : kind[id] # "blank"
    /\ \A n \in SentMessages : sent[n].row # "none" => Len(sent[n].refs) = Len(sent[n].ids)

InMessage(id, n) == id \in Members(sent[n].ids)

\* The input, what is read for it and what is on its way are not in a message.
InputApart ==
    /\ adding \cap Members(attached) = {}
    /\ \A id \in adding \cup Members(attached), n \in SentMessages : ~InMessage(id, n)

\* One message is on its way, with what the input had.
SubmitApart ==
    \A s \in submits :
         /\ submits = {s} /\ Members(attached) \subseteq Members(s.ids)
         /\ Members(s.ids) \ Members(attached) \subseteq removed /\ adding \cap Members(s.ids) = {}
         /\ \A id \in Members(s.ids), n \in SentMessages : ~InMessage(id, n)

\* No two messages have the same.
MessagesApart == \A m, n \in SentMessages : \A id \in Given : InMessage(id, m) /\ InMessage(id, n) => m = n

\* Nothing is lost.
AllKept ==
    \A id \in Given \ removed :
         \/ id \in adding \/ id \in Members(attached) \/ kind[id] = "blank"
         \/ \E n \in SentMessages : InMessage(id, n)

PlacesInv == InputApart /\ SubmitApart /\ MessagesApart /\ AllKept

\* What is still to be loaded.
ReadersInv ==
    /\ loader \subseteq DOMAIN onPage
    /\ \A n \in loader : sent[n].row = "written" /\ sent[n].ids # <<>>

ComposerInv ==
    ComposerTyped /\ ReadFilesInv /\ (~metSubmit => PlacesInv /\ ReadersInv /\ AttachmentsLoaded)

LEMMA MembersTyped ==
    ASSUME NEW A, NEW s \in Seq(A), NEW x \in A
    PROVE  /\ Members(s) \subseteq A /\ Append(s, x) \in Seq(A)
           /\ Members(Append(s, x)) = Members(s) \cup {x} /\ DOMAIN s = 1 .. Len(s)
<1>1. Append(s, x) \in Seq(A) /\ DOMAIN s = 1 .. Len(s)
  OBVIOUS
<1>2. Members(s) \subseteq A
  BY <1>1 DEF Members
<1>3. Members(Append(s, x)) = Members(s) \cup {x}
  BY AppendHas DEF Members
<1> QED
  BY <1>1, <1>2, <1>3

\* What is picked from a sequence are its elements that are in S.
LEMMA PickedMembers ==
    ASSUME NEW B, NEW S, NEW s \in Seq(B)
    PROVE  Members(Picked(s, S)) = Members(s) \cap S
  BY PickedHas DEF Members

LEMMA NoMembers == <<>> \in Seq({}) /\ Members(<<>>) = {}
  BY DEF Members

LEMMA WiderList == ASSUME NEW A, NEW B, A \subseteq B, NEW s \in Seq(A) PROVE s \in Seq(B)
  OBVIOUS

LEMMA ComposerStart == ASSUME ComposerInit PROVE ComposerInv
<1>1. kind = <<>> /\ sent = <<>> /\ attached = <<>> /\ onPage = <<>> /\ DOMAIN kind = {} /\ DOMAIN sent = {} /\ DOMAIN onPage = {}
  BY DEF ComposerInit
<1>2. kind \in Seq(FileKinds) /\ sent \in Seq(SentTypes) /\ attached \in Seq(Given) /\ Members(attached) = {}
  BY <1>1, NoMembers
<1>3. 0 \in 0 .. MaxTurnovers
  BY ComposerAssumption
<1>4. ComposerTyped
  BY <1>1, <1>2, <1>3 DEF ComposerInit, ComposerTyped, SentMessages
<1>5. ReadFilesInv /\ PlacesInv
  BY <1>1, <1>2 DEF ComposerInit, ReadFilesInv, PlacesInv, InputApart, SubmitApart, MessagesApart, AllKept, SentMessages, Given
<1>6. ReadersInv /\ AttachmentsLoaded
  BY <1>1 DEF ComposerInit, ReadersInv, AttachmentsLoaded
<1> QED
  BY <1>4, <1>5, <1>6 DEF ComposerInv

\* What the invariant is about stays.
LEMMA ComposerStays ==
    ASSUME ComposerInv, UNCHANGED <<attached, kind, adding, submits, storedVars, removed, metSubmit>>,
           text' \in BOOLEAN, running' \in BOOLEAN, turnovers' \in 0 .. MaxTurnovers
    PROVE  ComposerInv'
<1>1. ComposerTyped'
  BY DEF ComposerInv, ComposerTyped, storedVars, Given, SentMessages, SentTypes
<1>2. ReadFilesInv'
  BY DEF ComposerInv, ReadFilesInv, storedVars, Given, SentMessages, Members
<1>3. PlacesInv => PlacesInv'
  <2>1. /\ attached' = attached /\ kind' = kind /\ adding' = adding /\ submits' = submits /\ sent' = sent
        /\ removed' = removed
    BY DEF storedVars
  <2>2. Given' = Given /\ SentMessages' = SentMessages /\ Members(attached)' = Members(attached)
    BY <2>1 DEF Given, SentMessages, Members
  <2>3. \A id, n : InMessage(id, n)' <=> InMessage(id, n)
    BY <2>1 DEF InMessage, Members
  <2>4. InputApart => InputApart'
    BY <2>1, <2>2, <2>3 DEF InputApart
  <2>5. SubmitApart => SubmitApart'
    BY <2>1, <2>2, <2>3 DEF SubmitApart, Members
  <2>6. (MessagesApart => MessagesApart') /\ (AllKept => AllKept')
    BY <2>1, <2>2, <2>3 DEF MessagesApart, AllKept
  <2> QED
    BY <2>4, <2>5, <2>6 DEF PlacesInv
<1>4. ReadersInv /\ AttachmentsLoaded /\ ~metSubmit' => ReadersInv' /\ AttachmentsLoaded'
  BY DEF ReadersInv, AttachmentsLoaded, storedVars, Members
<1> QED
  BY <1>1, <1>2, <1>3, <1>4 DEF ComposerInv

LEMMA WriteKeeps == ASSUME ComposerInv, Write PROVE ComposerInv'
<1>1. UNCHANGED <<attached, kind, adding, submits, storedVars, removed, metSubmit>> /\ text' \in BOOLEAN
  BY DEF Write
<1>2. running' \in BOOLEAN /\ turnovers' \in 0 .. MaxTurnovers
  BY DEF Write, ComposerInv, ComposerTyped
<1> QED
  BY <1>1, <1>2, ComposerStays

LEMMA SendTurns == ASSUME turnovers \in 0 .. MaxTurnovers, turnovers < MaxTurnovers PROVE turnovers + 1 \in 0 .. MaxTurnovers
  BY ComposerAssumption

LEMMA RunEndsKeeps == ASSUME ComposerInv, RunEnds PROVE ComposerInv'
<1>1. UNCHANGED <<attached, kind, adding, submits, storedVars, removed, metSubmit>>
  BY DEF RunEnds
<1>2. text' \in BOOLEAN /\ running' \in BOOLEAN
  BY DEF RunEnds, ComposerInv, ComposerTyped
<1>3. turnovers' \in 0 .. MaxTurnovers
  BY SendTurns DEF RunEnds, ComposerInv, ComposerTyped
<1> QED
  BY <1>1, <1>2, <1>3, ComposerStays

\* How many files were given.
LEMMA GivenCount == ASSUME kind \in Seq(FileKinds) PROVE Given = 1 .. Len(kind) /\ Cardinality(Given) = Len(kind) /\ Len(kind) \in Nat
<1>1. Given = 1 .. Len(kind) /\ Len(kind) \in Nat
  BY DEF Given
<1>2. PICK n \in Nat : n = Len(kind)
  BY <1>1
<1>3. Cardinality(1 .. n) = n
  <2>1. 1 \in Int /\ n \in Int
    OBVIOUS
  <2>2. Cardinality(1 .. n) = IF 1 > n THEN 0 ELSE n - 1 + 1
    BY <2>1, FS_Interval
  <2> QED
    BY <2>2
<1> QED
  BY <1>1, <1>2, <1>3

LEMMA PickKeeps == ASSUME ComposerInv, Pick PROVE ComposerInv'
<1>1. PICK k \in FileKinds : kind' = Append(kind, k)
  BY DEF Pick, Gives, FileKinds
<1>2. PICK n \in Nat : n = Len(kind)
  BY DEF ComposerInv, ComposerTyped
<1>3. kind \in Seq(FileKinds) /\ Given = 1 .. n /\ Cardinality(Given) = n
  BY <1>2, GivenCount DEF ComposerInv, ComposerTyped
<1>4. kind' \in Seq(FileKinds) /\ Given' = 1 .. n + 1 /\ \A i \in Given : kind'[i] = kind[i]
  BY <1>1, <1>2, <1>3 DEF Given
<1>5. Given \subseteq Given' /\ n + 1 \in Given' /\ n + 1 \notin Given /\ Given' = Given \cup {n + 1}
  BY <1>3, <1>4
<1>6. /\ adding' = adding \cup {n + 1}
      /\ UNCHANGED <<text, attached, running, submits, sent, onPage, loader, turnovers, removed, metSubmit>>
  BY <1>3 DEF Pick, Gives, storedVars
<1>7. SentTypes \subseteq [ids : Seq(Given'), refs : Seq({"file", "data"}), row : {"none", "written", "failed"}]
  <2>1. Seq(Given) \subseteq Seq(Given')
    BY <1>5
  <2> QED
    BY <2>1 DEF SentTypes
<1>8. sent \in Seq(SentTypes) /\ attached \in Seq(Given) /\ \A s \in submits : s.ids \in Seq(Given)
  BY DEF ComposerInv, ComposerTyped
<1>9. ComposerTyped'
  <2>1. sent' \in Seq(SentTypes)'
    BY <1>6, <1>7, <1>8, WiderList DEF SentTypes
  <2>2. attached' \in Seq(Given') /\ \A s \in submits' : s.ids \in Seq(Given')
    BY <1>5, <1>6, <1>8
  <2>3. adding' \subseteq Given' /\ removed' \subseteq Given'
    BY <1>5, <1>6 DEF ComposerInv, ComposerTyped
  <2> QED
    BY <1>4, <1>6, <2>1, <2>2, <2>3 DEF ComposerInv, ComposerTyped, SentMessages
<1>10. \A m \in SentMessages : Members(sent[m].ids) \subseteq Given
  <2>1. TAKE m \in SentMessages
  <2>2. sent[m] \in SentTypes
    BY <1>8 DEF SentMessages
  <2>3. sent[m].ids \in Seq(Given)
    BY <2>2 DEF SentTypes
  <2> QED
    BY <2>3 DEF Members
<1>11. ReadFilesInv'
  <2>1. \A m \in SentMessages : \A id \in Members(sent[m].ids) : kind'[id] # "blank"
    BY <1>4, <1>10 DEF ComposerInv, ReadFilesInv
  <2> QED
    BY <1>6, <2>1 DEF ComposerInv, ReadFilesInv, SentMessages, Members
<1>12. ASSUME ~metSubmit' PROVE PlacesInv' /\ ReadersInv' /\ AttachmentsLoaded'
  <2>1. PlacesInv /\ ReadersInv /\ AttachmentsLoaded
    BY <1>6, <1>12 DEF ComposerInv
  <2>2. Members(attached) \subseteq Given /\ \A s \in submits : Members(s.ids) \subseteq Given
    BY <1>8 DEF Members
  <2>3. PlacesInv'
    <3>0. /\ \A id, m : InMessage(id, m)' <=> InMessage(id, m)
          /\ SentMessages' = SentMessages /\ attached' = attached /\ submits' = submits /\ removed' = removed
          /\ Members(attached)' = Members(attached)
      BY <1>6 DEF InMessage, SentMessages, Members
    <3>1. n + 1 \notin Members(attached) /\ \A m \in SentMessages : ~InMessage(n + 1, m)
      BY <1>5, <1>10, <2>2 DEF InMessage
    <3>2. \A s \in submits : n + 1 \notin Members(s.ids)
      BY <1>5, <2>2
    <3>3. AllKept'
      <4>1. ASSUME NEW id \in Given' \ removed'
            PROVE  \/ id \in adding' \/ id \in Members(attached) \/ kind'[id] = "blank"
                   \/ \E m \in SentMessages : InMessage(id, m)
        <5>1. CASE id = n + 1
          BY <1>6, <5>1
        <5>2. CASE id \in Given \ removed
          BY <1>4, <1>6, <2>1, <5>2 DEF PlacesInv, AllKept
        <5> QED
          BY <1>5, <1>6, <5>1, <5>2
      <4> QED
        BY <3>0, <4>1 DEF AllKept
    <3>4. InputApart'
      BY <1>6, <2>1, <3>0, <3>1 DEF PlacesInv, InputApart
    <3>5. SubmitApart'
      BY <1>6, <2>1, <3>0, <3>2 DEF PlacesInv, SubmitApart
    <3>6. MessagesApart'
      BY <1>5, <2>1, <3>0, <3>1 DEF PlacesInv, MessagesApart
    <3> QED
      BY <3>3, <3>4, <3>5, <3>6 DEF PlacesInv
  <2>4. ReadersInv' /\ AttachmentsLoaded'
    BY <1>6, <2>1 DEF ReadersInv, AttachmentsLoaded, Members
  <2> QED
    BY <2>3, <2>4
<1> QED
  BY <1>9, <1>11, <1>12 DEF ComposerInv

\* What is in the messages and on the page does not change, nor what was given.
LEMMA InputKeeps ==
    ASSUME ComposerInv, UNCHANGED <<kind, storedVars>>,
           text' \in BOOLEAN, running' \in BOOLEAN, turnovers' \in 0 .. MaxTurnovers, metSubmit' \in BOOLEAN,
           attached' \in Seq(Given), adding' \subseteq Given, removed' \subseteq Given,
           \A s \in submits' : s.ids \in Seq(Given),
           ~metSubmit' => ~metSubmit,
           ~metSubmit' /\ PlacesInv => PlacesInv'
    PROVE  ComposerInv'
<1>1. ComposerTyped'
  BY DEF ComposerInv, ComposerTyped, storedVars, Given, SentMessages, SentTypes
<1>2. ReadFilesInv'
  BY DEF ComposerInv, ReadFilesInv, storedVars, Given, SentMessages, Members
<1>3. ~metSubmit' => PlacesInv'
  BY DEF ComposerInv
<1>4. ~metSubmit' => ReadersInv' /\ AttachmentsLoaded'
  BY DEF ComposerInv, ReadersInv, AttachmentsLoaded, storedVars, Members
<1> QED
  BY <1>1, <1>2, <1>3, <1>4 DEF ComposerInv

LEMMA FileReadKeeps == ASSUME ComposerInv, FileRead PROVE ComposerInv'
<1>1. PICK id \in adding : attached' = Append(attached, id) /\ adding' = adding \ {id}
  BY DEF FileRead, Added
<1>2. /\ UNCHANGED <<text, kind, running, submits, sent, onPage, loader, turnovers, removed>>
      /\ metSubmit' = (metSubmit \/ submits # {})
  BY DEF FileRead, storedVars
<1>3. attached \in Seq(Given) /\ id \in Given
  BY <1>1 DEF ComposerInv, ComposerTyped
<1>4. attached' \in Seq(Given) /\ Members(attached)' = Members(attached) \cup {id}
  <2>1. Append(attached, id) \in Seq(Given) /\ Members(Append(attached, id)) = Members(attached) \cup {id}
    BY <1>3, MembersTyped
  <2> QED
    BY <1>1, <2>1
<1>5. ASSUME ~metSubmit', PlacesInv PROVE PlacesInv'
  <2>1. submits = {} /\ submits' = {} /\ SentMessages' = SentMessages /\ sent' = sent /\ Given' = Given
    BY <1>2, <1>5 DEF SentMessages, Given
  <2>2. /\ adding' \cap Members(attached)' = {}
        /\ adding' \cup Members(attached)' = adding \cup Members(attached)
    BY <1>1, <1>4, <1>5 DEF PlacesInv, InputApart
  <2>3. (\A x, n : InMessage(x, n)' <=> InMessage(x, n)) /\ kind' = kind /\ removed' = removed
    BY <1>2 DEF InMessage, Members
  <2> QED
    BY <1>5, <2>1, <2>2, <2>3 DEF PlacesInv, InputApart, SubmitApart, MessagesApart, AllKept
<1>6. metSubmit' \in BOOLEAN /\ (~metSubmit' => ~metSubmit)
  BY <1>2 DEF ComposerInv, ComposerTyped
<1>7. text' \in BOOLEAN /\ running' \in BOOLEAN /\ turnovers' \in 0 .. MaxTurnovers /\ adding' \subseteq Given /\ removed' \subseteq Given
  BY <1>1, <1>2 DEF ComposerInv, ComposerTyped
<1>8. \A s \in submits' : s.ids \in Seq(Given)
  BY <1>2 DEF ComposerInv, ComposerTyped
<1> QED
  BY <1>2, <1>4, <1>5, <1>6, <1>7, <1>8, InputKeeps DEF storedVars

LEMMA RemoveAttachmentKeeps == ASSUME ComposerInv, RemoveAttachment PROVE ComposerInv'
<1>1. PICK id \in Members(attached) : attached' = Picked(attached, Given \ {id}) /\ removed' = removed \cup {id}
  BY DEF RemoveAttachment
<1>2. UNCHANGED <<text, kind, adding, running, submits, sent, onPage, loader, turnovers, metSubmit>>
  BY DEF RemoveAttachment, storedVars
<1>3. attached \in Seq(Given) /\ Members(attached) \subseteq Given
  BY DEF ComposerInv, ComposerTyped, Members
<1>4. attached' \in Seq(Given)
  <2>1. Picked(attached, Given \ {id}) \in Seq(Given \cap (Given \ {id}))
    BY <1>3, PickedTyped
  <2> QED
    BY <1>1, <2>1, WiderList
<1>5. Members(attached)' = Members(attached) \ {id}
  <2>1. Members(Picked(attached, Given \ {id})) = Members(attached) \cap (Given \ {id})
    BY <1>3, PickedMembers
  <2> QED
    BY <1>1, <1>3, <2>1
<1>6. ASSUME PlacesInv PROVE PlacesInv'
  <2>1. submits' = submits /\ adding' = adding /\ SentMessages' = SentMessages /\ sent' = sent /\ Given' = Given /\ kind' = kind
    BY <1>2 DEF SentMessages, Given
  <2>0. \A x, n : InMessage(x, n)' <=> InMessage(x, n)
    BY <2>1 DEF InMessage, Members
  <2>2. SubmitApart'
    BY <1>1, <1>5, <1>6, <2>0, <2>1 DEF PlacesInv, SubmitApart
  <2>3. AllKept'
    BY <1>1, <1>5, <1>6, <2>0, <2>1 DEF PlacesInv, AllKept
  <2>4. InputApart'
    BY <1>5, <1>6, <2>0, <2>1 DEF PlacesInv, InputApart
  <2>5. MessagesApart'
    BY <1>6, <2>0, <2>1 DEF PlacesInv, MessagesApart
  <2> QED
    BY <2>2, <2>3, <2>4, <2>5 DEF PlacesInv
<1>7. /\ text' \in BOOLEAN /\ running' \in BOOLEAN /\ turnovers' \in 0 .. MaxTurnovers /\ adding' \subseteq Given
      /\ metSubmit' \in BOOLEAN /\ (~metSubmit' => ~metSubmit)
  BY <1>2 DEF ComposerInv, ComposerTyped
<1>8. \A s \in submits' : s.ids \in Seq(Given)
  BY <1>2 DEF ComposerInv, ComposerTyped
<1>9. removed' \subseteq Given
  BY <1>1, <1>3 DEF ComposerInv, ComposerTyped
<1> QED
  BY <1>2, <1>4, <1>6, <1>7, <1>8, <1>9, InputKeeps DEF storedVars

LEMMA SubmitReadingKeeps == ASSUME ComposerInv, SubmitReading PROVE ComposerInv'
<1>1. PICK s : s.ids = attached /\ submits' = submits \cup {s}
  <2>1. PICK s : s = [n |-> Len(sent) + Cardinality(submits) + 1, ids |-> attached]
    OBVIOUS
  <2> QED
    BY <2>1 DEF SubmitReading
<1>2. /\ UNCHANGED <<text, kind, attached, adding, running, sent, onPage, loader, turnovers, removed>>
      /\ metSubmit' = (metSubmit \/ submits # {})
  BY DEF SubmitReading, storedVars
<1>3. ASSUME ~metSubmit', PlacesInv PROVE PlacesInv'
  <2>1. /\ submits' = {s} /\ adding' = adding /\ SentMessages' = SentMessages /\ sent' = sent /\ Given' = Given /\ kind' = kind
        /\ attached' = attached /\ removed' = removed
    BY <1>1, <1>2, <1>3 DEF SentMessages, Given
  <2>2. (\A x, n : InMessage(x, n)' <=> InMessage(x, n)) /\ Members(attached)' = Members(attached)
    BY <2>1 DEF InMessage, Members
  <2>3. SubmitApart'
    BY <1>1, <1>3, <2>1, <2>2 DEF PlacesInv, InputApart, SubmitApart
  <2>4. InputApart' /\ MessagesApart' /\ AllKept'
    BY <1>3, <2>1, <2>2 DEF PlacesInv, InputApart, MessagesApart, AllKept
  <2> QED
    BY <2>3, <2>4 DEF PlacesInv
<1>4. /\ text' \in BOOLEAN /\ running' \in BOOLEAN /\ turnovers' \in 0 .. MaxTurnovers /\ adding' \subseteq Given
      /\ metSubmit' \in BOOLEAN /\ (~metSubmit' => ~metSubmit) /\ removed' \subseteq Given /\ attached' \in Seq(Given)
  BY <1>2 DEF ComposerInv, ComposerTyped
<1>5. \A r \in submits' : r.ids \in Seq(Given)
  BY <1>1 DEF ComposerInv, ComposerTyped
<1> QED
  BY <1>2, <1>3, <1>4, <1>5, InputKeeps DEF storedVars

\* A message is handed over: it has what the input had when it was submitted.
LEMMA HandOverKeeps ==
    ASSUME ComposerInv, NEW ids \in Seq(Given), HandOver(ids),
           UNCHANGED <<kind, adding, running, loader, turnovers, removed>>,
           submits' \subseteq submits, metSubmit' \in BOOLEAN,
           ~metSubmit' => ~metSubmit /\ submits' = {},
           ~metSubmit' /\ PlacesInv =>
               /\ Members(attached) \subseteq Members(ids) /\ adding \cap Members(ids) = {}
               /\ \A id \in Members(ids), n \in SentMessages : ~InMessage(id, n)
    PROVE  ComposerInv'
<1> DEFINE Whole == {id \in Given : kind[id] # "blank"}
<1>1. PICK c \in Seq(Given) : c = Converted(ids) /\ Members(c) = Members(ids) \cap Whole
  <2>1. Picked(ids, Whole) \in Seq(Given \cap Whole) /\ Members(Picked(ids, Whole)) = Members(ids) \cap Whole
    BY PickedTyped, PickedMembers
  <2>2. Picked(ids, Whole) \in Seq(Given)
    BY <2>1, WiderList
  <2> QED
    BY <2>1, <2>2 DEF Converted
<1> HIDE DEF Whole
<1>2. PICK msg : msg = [ids |-> c, refs |-> <<>>, row |-> "none"]
  OBVIOUS
<1>3. msg.ids = c /\ msg.row = "none" /\ msg \in SentTypes
  <2>1. <<>> \in Seq({"file", "data"})
    OBVIOUS
  <2> QED
    BY <1>2, <2>1 DEF SentTypes
<1>4. PICK k \in Nat : k = Len(sent)
  BY DEF ComposerInv, ComposerTyped
<1>5. sent \in Seq(SentTypes) /\ SentMessages = 1 .. k
  BY <1>4 DEF ComposerInv, ComposerTyped, SentMessages
<1>6. /\ text' = FALSE /\ attached' = <<>> /\ sent' = Append(sent, msg)
      /\ onPage' = [n \in DOMAIN onPage \cup {Len(sent')} |->
                     IF n \in DOMAIN onPage THEN onPage[n] ELSE [i \in DOMAIN c |-> "data"]]
  BY <1>1, <1>2 DEF HandOver, ClearedAttached
<1>7. sent' \in Seq(SentTypes) /\ Len(sent') = k + 1 /\ sent'[k + 1] = msg /\ \A n \in 1 .. k : sent'[n] = sent[n]
  BY <1>3, <1>4, <1>5, <1>6
<1>8. SentMessages' = 1 .. k + 1
  BY <1>7 DEF SentMessages
<1>9. /\ SentMessages' = SentMessages \cup {k + 1} /\ k + 1 \notin SentMessages
      /\ \A n \in SentMessages : sent'[n] = sent[n]
  <2>1. 1 .. k + 1 = (1 .. k) \cup {k + 1} /\ k + 1 \notin 1 .. k
    OBVIOUS
  <2>2. SentMessages' = SentMessages \cup {k + 1} /\ k + 1 \notin SentMessages
    BY <1>5, <1>8, <2>1
  <2> QED
    BY <1>5, <1>7, <2>2
<1>10. /\ \A x, n : n \in SentMessages => (InMessage(x, n)' <=> InMessage(x, n))
       /\ \A x : InMessage(x, k + 1)' <=> x \in Members(c)
  BY <1>3, <1>7, <1>9 DEF InMessage
<1>11. DOMAIN onPage \subseteq SentMessages
  BY DEF ComposerInv, ComposerTyped
<1>12. PICK shown : shown = [i \in DOMAIN c |-> "data"]
  OBVIOUS
<1>13. shown \in Seq(ShownAs) /\ Len(shown) = Len(c) /\ \A i \in DOMAIN shown : shown[i] = "data"
  <2>1. DOMAIN c = 1 .. Len(c) /\ Len(c) \in Nat
    BY <1>1
  <2> QED
    BY <1>12, <2>1 DEF ShownAs
<1>14. /\ DOMAIN onPage' = DOMAIN onPage \cup {k + 1} /\ onPage'[k + 1] = shown
       /\ \A n \in DOMAIN onPage : onPage'[n] = onPage[n]
  <2>1. k + 1 \notin DOMAIN onPage
    BY <1>9, <1>11
  <2> QED
    BY <1>6, <1>7, <1>12, <2>1
<1>15. ComposerTyped'
  <2>1. attached' \in Seq(Given)
    BY <1>6
  <2>2. \A n \in DOMAIN onPage' : onPage'[n] \in Seq(ShownAs)
    BY <1>13, <1>14 DEF ComposerInv, ComposerTyped
  <2>3. DOMAIN onPage' \subseteq SentMessages' /\ loader' \subseteq SentMessages'
    BY <1>9, <1>11, <1>14 DEF ComposerInv, ComposerTyped
  <2>4. Given' = Given /\ SentTypes' = SentTypes
    BY DEF Given, SentTypes
  <2>5. /\ text' \in BOOLEAN /\ running' \in BOOLEAN /\ kind' \in Seq(FileKinds) /\ adding' \subseteq Given
        /\ removed' \subseteq Given /\ turnovers' \in 0 .. MaxTurnovers
    BY <1>6 DEF ComposerInv, ComposerTyped
  <2>6. \A s \in submits' : s.ids \in Seq(Given)
    BY DEF ComposerInv, ComposerTyped
  <2> QED
    BY <1>7, <2>1, <2>2, <2>3, <2>4, <2>5, <2>6 DEF ComposerTyped
<1>16. ReadFilesInv'
  <2>1. \A id \in Members(c) : kind[id] # "blank"
    BY <1>1 DEF Whole
  <2> QED
    BY <1>3, <1>7, <1>9, <2>1 DEF ComposerInv, ReadFilesInv
<1>17. ASSUME ~metSubmit' PROVE PlacesInv' /\ ReadersInv' /\ AttachmentsLoaded'
  <2>1. PlacesInv /\ ReadersInv /\ AttachmentsLoaded /\ ~metSubmit /\ submits' = {}
    BY <1>17 DEF ComposerInv
  <2>2. /\ Members(attached) \subseteq Members(ids) /\ adding \cap Members(ids) = {}
        /\ \A id \in Members(ids), n \in SentMessages : ~InMessage(id, n)
    BY <1>17, <2>1
  <2>3. Members(attached)' = {} /\ Given' = Given /\ kind' = kind /\ adding' = adding /\ removed' = removed
    BY <1>6, NoMembers DEF Given
  <2>4. InputApart'
    BY <1>1, <1>9, <1>10, <2>1, <2>2, <2>3 DEF PlacesInv, InputApart
  <2>5. SubmitApart'
    BY <2>1 DEF SubmitApart
  <2>6. MessagesApart'
    BY <1>1, <1>9, <1>10, <2>1, <2>2, <2>3 DEF PlacesInv, MessagesApart
  <2>7. AllKept'
    <3> SUFFICES ASSUME NEW id \in Given \ removed, id \notin adding, kind[id] # "blank"
                 PROVE  \E n \in SentMessages' : InMessage(id, n)'
      BY <2>3 DEF AllKept
    <3>1. CASE id \in Members(attached)
      <4>1. id \in Members(c)
        BY <1>1, <2>2, <3>1 DEF Whole
      <4> QED
        BY <1>9, <1>10, <4>1
    <3>2. CASE id \notin Members(attached)
      <4>1. PICK n \in SentMessages : InMessage(id, n)
        BY <2>1, <3>2 DEF PlacesInv, AllKept
      <4> QED
        BY <1>9, <1>10, <4>1
    <3> QED
      BY <3>1, <3>2
  <2>8. ReadersInv'
    <3>1. loader \subseteq SentMessages /\ loader' = loader
      BY DEF ComposerInv, ComposerTyped
    <3> QED
      BY <1>9, <1>14, <2>1, <3>1 DEF ReadersInv
  <2>9. AttachmentsLoaded'
    <3>1. loader \subseteq SentMessages /\ loader' = loader
      BY DEF ComposerInv, ComposerTyped
    <3>2. ASSUME NEW n \in DOMAIN onPage'
          PROVE  /\ Len(onPage'[n]) = Len(sent'[n].ids)
                 /\ "loading" \in Members(onPage'[n]) => n \in loader'
                 /\ n \in loader' => \A i \in DOMAIN onPage'[n] : onPage'[n][i] = "loading"
      <4>1. CASE n = k + 1
        <5>1. "loading" \notin Members(shown)
          BY <1>13 DEF Members
        <5> QED
          BY <1>3, <1>7, <1>9, <1>13, <1>14, <3>1, <4>1, <5>1
      <4>2. CASE n \in DOMAIN onPage
        <5>1. onPage'[n] = onPage[n] /\ sent'[n] = sent[n]
          BY <1>9, <1>11, <1>14, <4>2
        <5> QED
          BY <2>1, <3>1, <4>2, <5>1 DEF AttachmentsLoaded
      <4> QED
        BY <1>14, <4>1, <4>2
    <3> QED
      BY <3>2 DEF AttachmentsLoaded, Members
  <2> QED
    BY <2>4, <2>5, <2>6, <2>7, <2>8, <2>9 DEF PlacesInv
<1> QED
  BY <1>15, <1>16, <1>17 DEF ComposerInv

LEMMA SubmitsKeep == ASSUME ComposerInv, SubmitAtOnce \/ SubmitEnds PROVE ComposerInv'
<1>1. CASE SubmitAtOnce
  <2>1. /\ HandOver(attached) /\ metSubmit' = (metSubmit \/ submits # {})
        /\ UNCHANGED <<kind, adding, running, submits, loader, turnovers, removed>>
    BY <1>1 DEF SubmitAtOnce
  <2>2. attached \in Seq(Given) /\ metSubmit' \in BOOLEAN /\ submits' \subseteq submits
    BY <2>1 DEF ComposerInv, ComposerTyped
  <2>3. ~metSubmit' => ~metSubmit /\ submits' = {}
    BY <2>1
  <2>4. PlacesInv => /\ Members(attached) \subseteq Members(attached) /\ adding \cap Members(attached) = {}
                     /\ \A id \in Members(attached), n \in SentMessages : ~InMessage(id, n)
    BY DEF PlacesInv, InputApart
  <2> QED
    BY <2>1, <2>2, <2>3, <2>4, HandOverKeeps
<1>2. CASE SubmitEnds
  <2>1. PICK s \in submits : submits' = submits \ {s} /\ HandOver(s.ids)
    BY <1>2 DEF SubmitEnds
  <2>2. metSubmit' = (metSubmit \/ submits' # {}) /\ UNCHANGED <<kind, adding, running, loader, turnovers, removed>>
    BY <1>2 DEF SubmitEnds
  <2>3. s.ids \in Seq(Given) /\ metSubmit' \in BOOLEAN /\ submits' \subseteq submits
    BY <2>1, <2>2 DEF ComposerInv, ComposerTyped
  <2>4. ~metSubmit' => ~metSubmit /\ submits' = {}
    BY <2>2
  <2>5. PlacesInv => /\ Members(attached) \subseteq Members(s.ids) /\ adding \cap Members(s.ids) = {}
                     /\ \A id \in Members(s.ids), n \in SentMessages : ~InMessage(id, n)
    BY <2>1 DEF PlacesInv, SubmitApart
  <2>6. PICK ids \in Seq(Given) : ids = s.ids
    BY <2>3
  <2> QED
    BY <2>1, <2>2, <2>3, <2>4, <2>5, <2>6, HandOverKeeps
<1> QED
  BY <1>1, <1>2

\* The messages stay, but for a file or a row that is written.
LEMMA ReadFilesKeep ==
    ASSUME ComposerInv, UNCHANGED <<attached, kind, adding, submits, onPage, loader, removed, metSubmit>>,
           text' \in BOOLEAN, running' \in BOOLEAN, turnovers' \in 0 .. MaxTurnovers,
           NEW n \in SentMessages, NEW msg \in SentTypes, sent' = [sent EXCEPT ![n] = msg],
           msg.ids = sent[n].ids, sent[n].row = "none",
           msg.row # "none" => Len(msg.refs) = Len(msg.ids)
    PROVE  ComposerInv'
<1>1. sent \in Seq(SentTypes)
  BY DEF ComposerInv, ComposerTyped
<1>2. sent' \in Seq(SentTypes) /\ SentMessages' = SentMessages /\ \A m \in SentMessages : sent'[m] = IF m = n THEN msg ELSE sent[m]
  BY <1>1 DEF SentMessages
<1>3. \A m \in SentMessages : sent'[m].ids = sent[m].ids
  BY <1>2
<1>4. Given' = Given /\ SentTypes' = SentTypes
  BY DEF Given, SentTypes
<1>5. ComposerTyped'
  BY <1>2, <1>4 DEF ComposerInv, ComposerTyped
<1>6. ReadFilesInv'
  BY <1>2, <1>3 DEF ComposerInv, ReadFilesInv
<1>7. /\ \A x, m : m \in SentMessages => (InMessage(x, m)' <=> InMessage(x, m))
      /\ Members(attached)' = Members(attached)
  BY <1>3 DEF InMessage, Members
<1>8. PlacesInv => PlacesInv'
  <2>1. InputApart /\ SubmitApart => InputApart' /\ SubmitApart'
    BY <1>2, <1>7 DEF InputApart, SubmitApart
  <2>2. MessagesApart => MessagesApart'
    BY <1>2, <1>4, <1>7 DEF MessagesApart
  <2>3. AllKept => AllKept'
    BY <1>2, <1>4, <1>7 DEF AllKept
  <2> QED
    BY <2>1, <2>2, <2>3 DEF PlacesInv
<1>9. ReadersInv => ReadersInv'
  <2>1. loader \subseteq SentMessages
    BY DEF ComposerInv, ComposerTyped
  <2>2. ReadersInv => n \notin loader
    BY DEF ReadersInv
  <2> QED
    BY <1>2, <2>1, <2>2 DEF ReadersInv
<1>10. AttachmentsLoaded => AttachmentsLoaded'
  <2>1. DOMAIN onPage \subseteq SentMessages
    BY DEF ComposerInv, ComposerTyped
  <2> QED
    BY <1>3, <2>1 DEF AttachmentsLoaded, Members
<1> QED
  BY <1>5, <1>6, <1>8, <1>9, <1>10 DEF ComposerInv

LEMMA SaveAttachmentKeeps == ASSUME ComposerInv, SaveAttachment PROVE ComposerInv'
<1>1. PICK n \in SentMessages, r \in {"file", "data"} :
         /\ sent[n].row = "none" /\ sent' = [sent EXCEPT ![n].refs = Append(@, r)]
  BY DEF SaveAttachment
<1>2. UNCHANGED <<text, attached, kind, adding, running, submits, onPage, loader, turnovers, removed, metSubmit>>
  BY DEF SaveAttachment
<1>3. sent \in Seq(SentTypes) /\ sent[n] \in SentTypes
  BY DEF ComposerInv, ComposerTyped, SentMessages
<1>4. PICK msg : msg = [sent[n] EXCEPT !.refs = Append(@, r)]
  OBVIOUS
<1>5. msg \in SentTypes /\ msg.ids = sent[n].ids /\ msg.row = "none"
  <2>1. Append(sent[n].refs, r) \in Seq({"file", "data"})
    BY <1>3 DEF SentTypes
  <2> QED
    BY <1>1, <1>3, <1>4, <2>1 DEF SentTypes
<1>6. sent' = [sent EXCEPT ![n] = msg]
  BY <1>1, <1>4
<1>7. text' \in BOOLEAN /\ running' \in BOOLEAN /\ turnovers' \in 0 .. MaxTurnovers
  BY <1>2 DEF ComposerInv, ComposerTyped
<1> QED
  BY <1>1, <1>2, <1>5, <1>6, <1>7, ReadFilesKeep

LEMMA WriteRowKeeps == ASSUME ComposerInv, WriteRow PROVE ComposerInv'
<1>1. PICK n \in SentMessages, r \in {"written", "failed"} :
         /\ sent[n].row = "none" /\ Len(sent[n].refs) = Len(sent[n].ids)
         /\ sent' = [sent EXCEPT ![n].row = r]
  BY DEF WriteRow
<1>2. UNCHANGED <<text, attached, kind, adding, submits, onPage, loader, removed, metSubmit>>
  BY DEF WriteRow
<1>3. sent \in Seq(SentTypes) /\ sent[n] \in SentTypes
  BY DEF ComposerInv, ComposerTyped, SentMessages
<1>4. PICK msg : msg = [sent[n] EXCEPT !.row = r]
  OBVIOUS
<1>5. msg \in SentTypes /\ msg.ids = sent[n].ids /\ Len(msg.refs) = Len(msg.ids)
  BY <1>1, <1>3, <1>4 DEF SentTypes
<1>6. sent' = [sent EXCEPT ![n] = msg]
  BY <1>1, <1>4
<1>7. text' \in BOOLEAN /\ running' \in BOOLEAN
  BY <1>2 DEF WriteRow, ComposerInv, ComposerTyped
<1>8. turnovers' \in 0 .. MaxTurnovers
  BY SendTurns DEF WriteRow, ComposerInv, ComposerTyped
<1> QED
  BY <1>1, <1>2, <1>5, <1>6, <1>7, <1>8, ReadFilesKeep

LEMMA OpenTaskKeeps == ASSUME ComposerInv, OpenTask PROVE ComposerInv'
<1>1. /\ submits = {} /\ text' = FALSE /\ attached' = <<>> /\ adding' = {}
      /\ onPage' = [n \in {m \in SentMessages : sent[m].row = "written"} |-> [i \in DOMAIN sent[n].refs |-> "loading"]]
      /\ loader' = {n \in SentMessages : sent[n].row = "written" /\ sent[n].ids # <<>>}
      /\ removed' = removed \cup Members(attached) \cup adding
      /\ UNCHANGED <<kind, running, submits, sent, metSubmit>>
  BY DEF OpenTask
<1>2. sent \in Seq(SentTypes) /\ \A n \in SentMessages : sent[n] \in SentTypes
  BY DEF ComposerInv, ComposerTyped, SentMessages
<1>3. SentMessages' = SentMessages /\ Given' = Given /\ SentTypes' = SentTypes
  BY <1>1 DEF SentMessages, Given, SentTypes
<1>4. ASSUME NEW n \in SentMessages, sent[n].row = "written"
      PROVE  /\ onPage'[n] \in Seq(ShownAs) /\ Len(onPage'[n]) = Len(sent[n].refs) /\ Len(sent[n].refs) = Len(sent[n].ids)
             /\ \A i \in DOMAIN onPage'[n] : onPage'[n][i] = "loading"
             /\ DOMAIN onPage'[n] = 1 .. Len(sent[n].ids)
  <2>1. PICK refs \in Seq({"file", "data"}) : refs = sent[n].refs
    BY <1>2 DEF SentTypes
  <2>2. PICK shown : shown = [i \in DOMAIN refs |-> "loading"]
    OBVIOUS
  <2>3. onPage'[n] = shown
    BY <1>1, <1>4, <2>1, <2>2
  <2>4. DOMAIN refs = 1 .. Len(refs) /\ Len(refs) \in Nat
    OBVIOUS
  <2>5. shown \in Seq(ShownAs) /\ Len(shown) = Len(refs) /\ DOMAIN shown = 1 .. Len(refs)
    BY <2>2, <2>4 DEF ShownAs
  <2>6. \A i \in DOMAIN shown : shown[i] = "loading"
    BY <2>2
  <2>7. Len(sent[n].refs) = Len(sent[n].ids)
    BY <1>4 DEF ComposerInv, ReadFilesInv
  <2> QED
    BY <2>1, <2>3, <2>5, <2>6, <2>7
<1>5. DOMAIN onPage' = {m \in SentMessages : sent[m].row = "written"}
  BY <1>1
<1>6. attached \in Seq(Given) /\ Members(attached) \subseteq Given
  BY DEF ComposerInv, ComposerTyped, Members
<1>7. ComposerTyped'
  <2>1. \A n \in DOMAIN onPage' : onPage'[n] \in Seq(ShownAs)
    BY <1>4, <1>5
  <2>2. attached' \in Seq(Given) /\ adding' \subseteq Given /\ removed' \subseteq Given
    BY <1>1, <1>6 DEF ComposerInv, ComposerTyped
  <2>3. turnovers' \in 0 .. MaxTurnovers
    BY SendTurns DEF OpenTask, ComposerInv, ComposerTyped
  <2>4. DOMAIN onPage' \subseteq SentMessages /\ loader' \subseteq SentMessages
    BY <1>1, <1>5
  <2>5. /\ text' \in BOOLEAN /\ running' \in BOOLEAN /\ metSubmit' \in BOOLEAN /\ kind' \in Seq(FileKinds)
        /\ \A s \in submits' : s.ids \in Seq(Given)
    BY <1>1 DEF ComposerInv, ComposerTyped
  <2> QED
    BY <1>1, <1>2, <1>3, <2>1, <2>2, <2>3, <2>4, <2>5 DEF ComposerTyped
<1>8. ReadFilesInv'
  BY <1>1, <1>3 DEF ComposerInv, ReadFilesInv, Members
<1>9. PlacesInv => PlacesInv'
  <2>1. /\ \A x, n : InMessage(x, n)' <=> InMessage(x, n)
        /\ Members(attached)' = {}
    BY <1>1, NoMembers DEF InMessage, Members
  <2>2. InputApart' /\ SubmitApart'
    BY <1>1, <2>1 DEF InputApart, SubmitApart
  <2>3. MessagesApart => MessagesApart'
    BY <1>3, <2>1 DEF MessagesApart
  <2>4. AllKept => AllKept'
    BY <1>1, <1>3, <2>1 DEF AllKept
  <2> QED
    BY <2>2, <2>3, <2>4 DEF PlacesInv
<1>10. ReadersInv'
  BY <1>1, <1>3, <1>5 DEF ReadersInv
<1>11. AttachmentsLoaded'
  <2>1. ASSUME NEW n \in DOMAIN onPage'
        PROVE  /\ Len(onPage'[n]) = Len(sent[n].ids)
               /\ "loading" \in Members(onPage'[n]) => n \in loader'
               /\ \A i \in DOMAIN onPage'[n] : onPage'[n][i] = "loading"
    <3>1. n \in SentMessages /\ sent[n].row = "written"
      BY <1>5
    <3>2. /\ Len(onPage'[n]) = Len(sent[n].ids) /\ \A i \in DOMAIN onPage'[n] : onPage'[n][i] = "loading"
          /\ DOMAIN onPage'[n] = 1 .. Len(sent[n].ids)
      BY <1>4, <3>1
    <3>3. ASSUME sent[n].ids = <<>> PROVE "loading" \notin Members(onPage'[n])
      <4>1. DOMAIN onPage'[n] = {}
        BY <3>2, <3>3
      <4> QED
        BY <4>1 DEF Members
    <3> QED
      BY <1>1, <3>1, <3>2, <3>3
  <2> QED
    BY <1>1, <2>1 DEF AttachmentsLoaded, Members
<1> QED
  BY <1>1, <1>7, <1>8, <1>9, <1>10, <1>11 DEF ComposerInv

LEMMA AttachmentsReadKeeps == ASSUME ComposerInv, AttachmentsRead PROVE ComposerInv'
<1>1. PICK n \in loader :
         /\ loader' = loader \ {n}
         /\ \E read \in [DOMAIN sent[n].refs -> {"data", "path"}] :
              onPage' = IF Awaiting(n) = {} THEN onPage ELSE [onPage EXCEPT ![FirstOf(Awaiting(n))] = read]
  BY DEF AttachmentsRead
<1>2. PICK read \in [DOMAIN sent[n].refs -> {"data", "path"}] :
         onPage' = IF Awaiting(n) = {} THEN onPage ELSE [onPage EXCEPT ![FirstOf(Awaiting(n))] = read]
  BY <1>1
<1>3. UNCHANGED <<text, attached, kind, adding, running, submits, sent, turnovers, removed, metSubmit>>
  BY DEF AttachmentsRead
<1>4. sent \in Seq(SentTypes) /\ n \in SentMessages /\ \A m \in SentMessages : sent[m] \in SentTypes
  BY <1>1 DEF ComposerInv, ComposerTyped, SentMessages
<1>5. SentMessages' = SentMessages /\ Given' = Given /\ SentTypes' = SentTypes
  BY <1>3 DEF SentMessages, Given, SentTypes
<1>6. PICK refs \in Seq({"file", "data"}) : refs = sent[n].refs
  BY <1>4 DEF SentTypes
<1>7. /\ read \in Seq(ShownAs) /\ Len(read) = Len(sent[n].refs)
      /\ \A i \in DOMAIN read : read[i] # "loading"
  <2>1. DOMAIN refs = 1 .. Len(refs) /\ Len(refs) \in Nat
    OBVIOUS
  <2>2. read \in [1 .. Len(refs) -> {"data", "path"}]
    BY <1>6, <2>1
  <2>3. read \in Seq(ShownAs) /\ Len(read) = Len(refs)
    BY <2>1, <2>2 DEF ShownAs
  <2>4. \A i \in DOMAIN read : read[i] # "loading"
    BY <2>2
  <2> QED
    BY <1>6, <2>3, <2>4
<1>8. DOMAIN onPage' = DOMAIN onPage /\ \A m \in DOMAIN onPage : onPage'[m] = onPage[m] \/ onPage'[m] = read
  BY <1>2
<1>9. ComposerTyped'
  <2>1. \A m \in DOMAIN onPage' : onPage'[m] \in Seq(ShownAs)
    BY <1>7, <1>8 DEF ComposerInv, ComposerTyped
  <2>2. DOMAIN onPage' \subseteq SentMessages /\ loader' \subseteq SentMessages
    BY <1>1, <1>8 DEF ComposerInv, ComposerTyped
  <2>3. /\ text' \in BOOLEAN /\ running' \in BOOLEAN /\ metSubmit' \in BOOLEAN /\ kind' \in Seq(FileKinds)
        /\ attached' \in Seq(Given) /\ adding' \subseteq Given /\ removed' \subseteq Given
        /\ turnovers' \in 0 .. MaxTurnovers /\ \A s \in submits' : s.ids \in Seq(Given)
    BY <1>3 DEF ComposerInv, ComposerTyped
  <2> QED
    BY <1>3, <1>4, <1>5, <2>1, <2>2, <2>3 DEF ComposerTyped
<1>10. ReadFilesInv'
  BY <1>3, <1>5 DEF ComposerInv, ReadFilesInv, Members
<1>11. PlacesInv => PlacesInv'
  <2>1. (\A x, m : InMessage(x, m)' <=> InMessage(x, m)) /\ Members(attached)' = Members(attached)
    BY <1>3 DEF InMessage, Members
  <2>2. InputApart /\ SubmitApart => InputApart' /\ SubmitApart'
    BY <1>3, <1>5, <2>1 DEF InputApart, SubmitApart
  <2>3. MessagesApart => MessagesApart'
    BY <1>5, <2>1 DEF MessagesApart
  <2>4. AllKept => AllKept'
    BY <1>3, <1>5, <2>1 DEF AllKept
  <2> QED
    BY <2>2, <2>3, <2>4 DEF PlacesInv
<1>12. ASSUME ~metSubmit' PROVE ReadersInv' /\ AttachmentsLoaded'
  <2>1. PlacesInv /\ ReadersInv /\ AttachmentsLoaded /\ ~metSubmit
    BY <1>3, <1>12 DEF ComposerInv
  <2>2. n \in DOMAIN onPage /\ sent[n].row = "written" /\ sent[n].ids # <<>> /\ sent[n].ids \in Seq(Given)
    BY <1>1, <1>4, <2>1 DEF ReadersInv, SentTypes
  <2>3. Len(sent[n].refs) = Len(sent[n].ids) /\ Len(onPage[n]) = Len(sent[n].ids) /\ Len(sent[n].ids) \in Nat \ {0}
    BY <1>4, <2>1, <2>2 DEF ComposerInv, ReadFilesInv, AttachmentsLoaded
  <2>4. DOMAIN onPage \subseteq SentMessages /\ \A m \in DOMAIN onPage : onPage[m] \in Seq(ShownAs)
    BY DEF ComposerInv, ComposerTyped
  <2>5. Awaiting(n) \subseteq {n}
    <3> SUFFICES ASSUME NEW m \in Awaiting(n) PROVE m = n
      OBVIOUS
    <3>1. m \in DOMAIN onPage /\ Len(sent[m].ids) = Len(sent[n].ids) /\ sent[m].ids[1] = sent[n].ids[1]
      BY DEF Awaiting, SameMessage
    <3>2. m \in SentMessages /\ sent[m].ids \in Seq(Given)
      BY <1>4, <2>4, <3>1 DEF SentTypes
    <3>3. 1 \in DOMAIN sent[m].ids /\ 1 \in DOMAIN sent[n].ids
      BY <2>2, <2>3, <3>1, <3>2
    <3>4. InMessage(sent[n].ids[1], m) /\ InMessage(sent[n].ids[1], n) /\ sent[n].ids[1] \in Given
      <4>1. sent[n].ids[1] \in Members(sent[n].ids) /\ sent[m].ids[1] \in Members(sent[m].ids)
        BY <3>3 DEF Members
      <4>2. sent[n].ids[1] \in Given
        BY <2>2, <3>3
      <4> QED
        BY <3>1, <4>1, <4>2 DEF InMessage
    <3> QED
      BY <1>4, <2>1, <3>2, <3>4 DEF PlacesInv, MessagesApart
  <2>6. "loading" \in Members(onPage[n])
    <3>1. 1 \in DOMAIN onPage[n]
      BY <2>2, <2>3, <2>4
    <3>2. onPage[n][1] = "loading"
      BY <1>1, <2>1, <2>2, <3>1 DEF AttachmentsLoaded
    <3> QED
      BY <3>1, <3>2 DEF Members
  <2>7. Awaiting(n) = {n}
    BY <2>2, <2>5, <2>6 DEF Awaiting, SameMessage
  <2>8. FirstOf({n}) = n
    <3>1. n \in Nat
      BY <1>4 DEF SentMessages
    <3> QED
      BY <3>1 DEF FirstOf
  <2>9. onPage' = [onPage EXCEPT ![n] = read]
    BY <1>2, <2>7, <2>8
  <2>10. ReadersInv'
    BY <1>1, <1>3, <1>8, <2>1 DEF ReadersInv
  <2>11. ASSUME NEW m \in DOMAIN onPage
         PROVE  /\ Len(onPage'[m]) = Len(sent[m].ids)
                /\ "loading" \in Members(onPage'[m]) => m \in loader'
                /\ m \in loader' => \A i \in DOMAIN onPage'[m] : onPage'[m][i] = "loading"
    <3>1. CASE m = n
      <4>1. onPage'[m] = read
        BY <2>2, <2>9, <3>1
      <4>2. "loading" \notin Members(read)
        BY <1>7 DEF Members
      <4> QED
        BY <1>1, <1>7, <2>3, <3>1, <4>1, <4>2
    <3>2. CASE m # n
      <4>1. onPage'[m] = onPage[m]
        BY <2>9, <3>2
      <4> QED
        BY <1>1, <2>1, <3>2, <4>1 DEF AttachmentsLoaded
    <3> QED
      BY <3>1, <3>2
  <2> QED
    BY <1>3, <1>8, <2>10, <2>11 DEF AttachmentsLoaded, Members
<1> QED
  BY <1>9, <1>10, <1>11, <1>12, <1>3 DEF ComposerInv

LEMMA ComposerKeep == ASSUME ComposerInv, [ComposerNext]_composerVars PROVE ComposerInv'
<1>1. CASE UNCHANGED composerVars
  <2>1. /\ UNCHANGED <<attached, kind, adding, submits, storedVars, removed, metSubmit>>
        /\ UNCHANGED <<text, running, turnovers>>
    BY <1>1 DEF composerVars, storedVars
  <2>2. text' \in BOOLEAN /\ running' \in BOOLEAN /\ turnovers' \in 0 .. MaxTurnovers
    BY <2>1 DEF ComposerInv, ComposerTyped
  <2> QED
    BY <2>1, <2>2, ComposerStays
<1>2. CASE ComposerNext
  BY <1>2, WriteKeeps, PickKeeps, FileReadKeeps, RemoveAttachmentKeeps, RunEndsKeeps, SubmitsKeep, SubmitReadingKeeps,
     SaveAttachmentKeeps, WriteRowKeeps, OpenTaskKeeps, AttachmentsReadKeeps DEF ComposerNext
<1> QED
  BY <1>1, <1>2

LEMMA ComposerShows == ASSUME ComposerInv PROVE ComposerTypeOK /\ AttachedOnce /\ AttachmentsLoaded
<1>1. ComposerTyped
  BY DEF ComposerInv
<1>2. ComposerTypeOK
  <2>1. Given = 1 .. Cardinality(Given) /\ \A i \in Given : kind[i] \in {"image", "blank", "file"}
    <3>1. kind \in Seq(FileKinds)
      BY <1>1 DEF ComposerTyped
    <3>2. \A i \in Given : kind[i] \in FileKinds
      BY <3>1 DEF Given
    <3> QED
      BY <3>1, <3>2, GivenCount DEF FileKinds
  <2>2. Members(attached) \cup adding \cup removed \subseteq Given /\ \A s \in submits : Members(s.ids) \subseteq Given
    BY <1>1 DEF ComposerTyped, Members
  <2>3. \A n \in SentMessages : /\ Members(sent[n].ids) \subseteq Given
                       /\ \A i \in DOMAIN sent[n].refs : sent[n].refs[i] \in {"file", "data"}
                       /\ sent[n].row \in {"none", "written", "failed"}
    <3>1. TAKE n \in SentMessages
    <3>2. sent[n] \in SentTypes
      BY <1>1 DEF ComposerTyped, SentMessages
    <3>3. sent[n].ids \in Seq(Given) /\ sent[n].refs \in Seq({"file", "data"}) /\ sent[n].row \in {"none", "written", "failed"}
      BY <3>2 DEF SentTypes
    <3> QED
      BY <3>3 DEF Members
  <2>4. \A n \in DOMAIN onPage : \A i \in DOMAIN onPage[n] : onPage[n][i] \in {"data", "loading", "path"}
    <3>1. \A n \in DOMAIN onPage : onPage[n] \in Seq(ShownAs)
      BY <1>1 DEF ComposerTyped
    <3> QED
      BY <3>1 DEF ShownAs
  <2> QED
    BY <1>1, <2>1, <2>2, <2>3, <2>4 DEF ComposerTyped, ComposerTypeOK
<1>3. AttachedOnce
  <2> SUFFICES ASSUME ~metSubmit, NEW id \in Given \ removed
               PROVE  \/ id \in adding /\ id \notin Members(attached) /\ Times(id) = 0
                      \/ id \notin adding /\ id \in Members(attached) /\ Times(id) = 0
                      \/ id \notin adding \cup Members(attached) /\ Times(id) = IF kind[id] = "blank" THEN 0 ELSE 1
    BY DEF AttachedOnce
  <2>1. PlacesInv
    BY DEF ComposerInv
  <2>2. PICK T : T = {n \in SentMessages : InMessage(id, n)}
    OBVIOUS
  <2>3. Times(id) = Cardinality(T)
    BY <2>2 DEF Times, InMessage
  <2>4. T = {} => Times(id) = 0
    BY <2>3, FS_EmptySet
  <2>5. ASSUME NEW n \in T PROVE Times(id) = 1
    <3>1. T = {n}
      BY <2>1, <2>2, <2>5 DEF PlacesInv, MessagesApart
    <3> QED
      BY <2>3, <3>1, FS_Singleton
  <2>6. CASE id \in adding \cup Members(attached)
    <3>1. T = {}
      BY <2>1, <2>2, <2>6 DEF PlacesInv, InputApart
    <3>2. adding \cap Members(attached) = {}
      BY <2>1 DEF PlacesInv, InputApart
    <3> QED
      BY <2>4, <2>6, <3>1, <3>2
  <2>7. CASE id \notin adding \cup Members(attached) /\ kind[id] = "blank"
    <3>1. T = {}
      BY <2>2, <2>7 DEF ComposerInv, ReadFilesInv, InMessage
    <3> QED
      BY <2>4, <2>7, <3>1
  <2>8. CASE id \notin adding \cup Members(attached) /\ kind[id] # "blank"
    <3>1. T # {}
      BY <2>1, <2>2, <2>8 DEF PlacesInv, AllKept
    <3> QED
      BY <2>5, <2>8, <3>1
  <2> QED
    BY <2>6, <2>7, <2>8
<1>4. AttachmentsLoaded
  BY DEF ComposerInv, AttachmentsLoaded
<1> QED
  BY <1>2, <1>3, <1>4

\* Each file the user attached is in the input, being read, or in one message,
\* unless it was removed or could not be read, and the page shows of each
\* message all that was sent with it (ChatInput.tsx, useAgent.ts,
\* attachments.ts).
THEOREM ComposerHolds == ComposerSpec => [](ComposerTypeOK /\ AttachedOnce /\ AttachmentsLoaded)
<1>1. ComposerInit => ComposerInv
  BY ComposerStart
<1>2. ComposerInv /\ [ComposerNext]_composerVars => ComposerInv'
  BY ComposerKeep
<1>3. ComposerInv => ComposerTypeOK /\ AttachedOnce /\ AttachmentsLoaded
  BY ComposerShows
<1> QED
  BY <1>1, <1>2, <1>3, PTL DEF ComposerSpec

-----------------------------------------------------------------------------
(* ShellTranscript: what the groups show of the messages up to a place.    *)

MsgTypes == [type : MessageTypes, of : Nat]
RightTexts == messages \in Seq(MsgTypes) /\ \A i \in DOMAIN messages : Is(i, "text") => messages[i].of \in Replies

\* The states of the grouping whose calls are in T, the groups made complete.
GroupOf(T) == [type : {"none", "other", "task"}, message : Nat, tools : Seq(T), isCompleted : BOOLEAN]
DoneGroup(T) == [type : {"none", "other", "task"}, message : Nat, tools : Seq(T), isCompleted : {TRUE}]
StatesOf(T) == [groups : Seq(DoneGroup(T)), current : GroupOf(T), pending : Nat, lastText : Nat, calls : Nat]
ToolTypes == [call : Nat, result : Nat]
FlatStep == [p \in Seq(Nat) \X GroupTypes |-> p[1] \o GroupPlaces(p[2])]
Flat(groups) == Loop(FlatStep, <<>>, groups)

LEMMA TypesFit ==
    ASSUME NEW T, T \subseteq ToolTypes
    PROVE  /\ GroupOf(T) \subseteq GroupTypes /\ DoneGroup(T) \subseteq GroupOf(T)
           /\ Seq(DoneGroup(T)) \subseteq Seq(GroupTypes)
<1>1. Seq(T) \subseteq Seq(ToolTypes)
  OBVIOUS
<1>2. GroupOf(T) \subseteq GroupTypes /\ DoneGroup(T) \subseteq GroupOf(T)
  BY <1>1 DEF GroupOf, DoneGroup, GroupTypes, GroupsWith, ToolTypes
<1>3. Seq(DoneGroup(T)) \subseteq Seq(GroupTypes)
  <2>1. DoneGroup(T) \subseteq GroupTypes
    BY <1>2
  <2> QED
    BY <2>1
<1> QED
  BY <1>2, <1>3

LEMMA StatesAre == GroupStates = StatesOf(ToolTypes)
<1>1. GroupTypes = GroupOf(ToolTypes) /\ GroupsWith({TRUE}) = DoneGroup(ToolTypes)
  BY DEF GroupTypes, GroupsWith, GroupOf, DoneGroup, ToolTypes
<1> QED
  BY <1>1 DEF GroupStates, StatesOf

\* The places of a group.
CallsOf(g) == [n \in DOMAIN g.tools |-> g.tools[n].call]
TextOf(g) == IF g.message = 0 THEN <<>> ELSE <<g.message>>

LEMMA PlacesTyped ==
    ASSUME NEW g \in GroupTypes
    PROVE  /\ TextOf(g) \in Seq(Nat) /\ CallsOf(g) \in Seq(Nat) /\ Len(CallsOf(g)) = Len(g.tools)
           /\ GroupPlaces(g) = TextOf(g) \o CallsOf(g) /\ GroupPlaces(g) \in Seq(Nat)
<1>1. g.message \in Nat /\ g.tools \in Seq(ToolTypes)
  BY DEF GroupTypes, GroupsWith, ToolTypes
<1>2. TextOf(g) \in Seq(Nat)
  BY <1>1 DEF TextOf
<1>3. CallsOf(g) \in Seq(Nat) /\ Len(CallsOf(g)) = Len(g.tools)
  <2>1. PICK t \in Seq(ToolTypes) : t = g.tools
    BY <1>1
  <2>0. \A n \in 1 .. Len(t) : t[n] \in ToolTypes
    OBVIOUS
  <2>2. DOMAIN t = 1 .. Len(t) /\ Len(t) \in Nat /\ \A n \in 1 .. Len(t) : t[n].call \in Nat
    <3>1. DOMAIN t = 1 .. Len(t) /\ Len(t) \in Nat
      OBVIOUS
    <3> QED
      BY <2>0, <3>1 DEF ToolTypes
  <2>3. CallsOf(g) = [n \in 1 .. Len(t) |-> t[n].call]
    BY <2>1, <2>2 DEF CallsOf
  <2>4. [n \in 1 .. Len(t) |-> t[n].call] \in Seq(Nat) /\ Len([n \in 1 .. Len(t) |-> t[n].call]) = Len(t)
    BY <2>2
  <2> QED
    BY <2>1, <2>3, <2>4
<1>4. GroupPlaces(g) = TextOf(g) \o CallsOf(g)
  BY DEF GroupPlaces, TextOf, CallsOf
<1> QED
  BY <1>2, <1>3, <1>4, ConcatTyped

\* A call more in a group.
LEMMA PlacesWithCall ==
    ASSUME NEW g \in GroupTypes, NEW tool \in ToolTypes, NEW h, h = [g EXCEPT !.tools = Append(@, tool)]
    PROVE  h \in GroupTypes /\ GroupPlaces(h) = Append(GroupPlaces(g), tool.call)
<1>2. g.tools \in Seq(ToolTypes) /\ tool.call \in Nat
  BY DEF GroupTypes, GroupsWith, ToolTypes
<1>1. h \in GroupTypes /\ h.message = g.message /\ h.tools = Append(g.tools, tool)
  <2>1. PICK t : t = Append(g.tools, tool)
    OBVIOUS
  <2>2. t \in Seq(ToolTypes)
    BY <1>2, <2>1
  <2>3. h = [g EXCEPT !.tools = t]
    BY <2>1
  <2> HIDE DEF ToolTypes
  <2> QED
    BY <2>1, <2>2, <2>3 DEF GroupTypes, GroupsWith, ToolTypes
<1>3. PICK t \in Seq(ToolTypes), n \in Nat : t = g.tools /\ n = Len(t)
  BY <1>2
<1>4. DOMAIN t = 1 .. n /\ DOMAIN Append(t, tool) = 1 .. n + 1 /\ Append(t, tool)[n + 1] = tool
      /\ \A i \in 1 .. n : Append(t, tool)[i] = t[i]
  BY <1>3
<1>5. CallsOf(g) = [i \in 1 .. n |-> t[i].call] /\ CallsOf(h) = [i \in 1 .. n + 1 |-> Append(t, tool)[i].call]
  BY <1>1, <1>3, <1>4 DEF CallsOf
<1>6. CallsOf(h) = Append(CallsOf(g), tool.call)
  <2>1. PICK c \in Seq(Nat) : c = CallsOf(g) /\ Len(c) = n
    BY <1>3, PlacesTyped
  <2>2. PICK d \in Seq(Nat) : d = CallsOf(h) /\ Len(d) = n + 1
    <3>1. Len(Append(t, tool)) = n + 1
      BY <1>3
    <3> QED
      BY <1>1, <1>3, <3>1, PlacesTyped
  <2>3. \A i \in 1 .. n : d[i] = c[i]
    BY <1>4, <1>5, <2>1, <2>2
  <2>4. d[n + 1] = tool.call
    BY <1>4, <1>5, <2>2
  <2>5. Append(c, tool.call) \in Seq(Nat) /\ Len(Append(c, tool.call)) = n + 1
    BY <1>2, <2>1
  <2>6. \A i \in 1 .. n + 1 : Append(c, tool.call)[i] = d[i]
    BY <2>1, <2>3, <2>4
  <2>7. Append(c, tool.call) = d
    BY <2>2, <2>5, <2>6, SameSeq
  <2> QED
    BY <2>1, <2>2, <2>7
<1>7. TextOf(h) = TextOf(g)
  BY <1>1 DEF TextOf
<1>8. TextOf(g) \o Append(CallsOf(g), tool.call) = Append(TextOf(g) \o CallsOf(g), tool.call)
  <2>1. PICK a \in Seq(Nat), b \in Seq(Nat) : a = TextOf(g) /\ b = CallsOf(g)
    BY PlacesTyped
  <2>3. PICK x \in Nat : x = tool.call
    BY <1>2
  <2>4. a \o Append(b, x) = Append(a \o b, x)
    BY ConcatAppends
  <2>2. a \o Append(b, tool.call) = Append(a \o b, tool.call)
    BY <2>3, <2>4
  <2> QED
    BY <2>1, <2>2
<1> QED
  BY <1>1, <1>6, <1>7, <1>8, PlacesTyped

LEMMA NoCalls == ASSUME NEW g, g.tools = <<>> PROVE CallsOf(g) = <<>>
  BY DEF CallsOf

\* The groups without calls.
LEMMA PlacesOfNew ==
    ASSUME NEW i \in Nat, NEW T
    PROVE  /\ Other(i) \in DoneGroup(T) /\ Task(i) \in GroupOf(T) /\ NoGroup \in GroupOf(T)
           /\ i # 0 => GroupPlaces(Other(i)) = <<i>> /\ GroupPlaces(Task(i)) = <<i>>
           /\ GroupPlaces(Task(0)) = <<>> /\ GroupPlaces(NoGroup) = <<>>
<1>1. <<>> \in Seq(T)
  OBVIOUS
<1>2. Other(i) \in DoneGroup(T) /\ Task(i) \in GroupOf(T) /\ NoGroup \in GroupOf(T)
  BY <1>1 DEF Other, Task, NoGroup, DoneGroup, GroupOf
<1>3. GroupPlaces(Other(i)) = (IF i = 0 THEN <<>> ELSE <<i>>) \o <<>>
  BY NoCalls DEF Other, GroupPlaces, CallsOf
<1>4. GroupPlaces(Task(i)) = (IF i = 0 THEN <<>> ELSE <<i>>) \o <<>>
  BY NoCalls DEF Task, GroupPlaces, CallsOf
<1>5. GroupPlaces(NoGroup) = <<>> \o <<>> /\ GroupPlaces(Task(0)) = <<>> \o <<>>
  BY NoCalls DEF NoGroup, Task, GroupPlaces, CallsOf
<1>6. <<>> \o <<>> = <<>> /\ <<i>> \o <<>> = <<i>>
  OBVIOUS
<1> QED
  BY <1>2, <1>3, <1>4, <1>5, <1>6

LEMMA FlatSteps ==
    /\ LoopOf(FlatStep, <<>>, Seq(Nat), GroupTypes) /\ Flat(<<>>) = <<>>
    /\ \A gs \in Seq(GroupTypes), g \in GroupTypes :
          Flat(gs) \in Seq(Nat) /\ Flat(Append(gs, g)) = Flat(gs) \o GroupPlaces(g)
<1>1. FlatStep \in [Seq(Nat) \X GroupTypes -> Seq(Nat)]
  <2>1. \A p \in Seq(Nat) \X GroupTypes : p[1] \o GroupPlaces(p[2]) \in Seq(Nat)
    <3>1. TAKE p \in Seq(Nat) \X GroupTypes
    <3>2. p[1] \in Seq(Nat) /\ GroupPlaces(p[2]) \in Seq(Nat)
      BY PlacesTyped
    <3> QED
      BY <3>2, ConcatTyped
  <2> QED
    BY <2>1 DEF FlatStep
<1>2. <<>> \in Seq(Nat)
  OBVIOUS
<1>3. LoopOf(FlatStep, <<>>, Seq(Nat), GroupTypes)
  BY <1>1, <1>2 DEF LoopOf
<1>4. Flat(<<>>) = <<>>
  BY <1>3, LoopStart DEF Flat
<1>5. ASSUME NEW gs \in Seq(GroupTypes), NEW g \in GroupTypes
      PROVE  Flat(gs) \in Seq(Nat) /\ Flat(Append(gs, g)) = Flat(gs) \o GroupPlaces(g)
  <2>1. Flat(gs) \in Seq(Nat) /\ Flat(Append(gs, g)) = FlatStep[<<Flat(gs), g>>]
    BY <1>3, LoopStep DEF Flat
  <2>2. <<Flat(gs), g>> \in Seq(Nat) \X GroupTypes
    BY <2>1
  <2> QED
    BY <2>1, <2>2 DEF FlatStep
<1> QED
  BY <1>3, <1>4, <1>5

PendingOf(s) == IF s.pending = 0 THEN <<>> ELSE <<s.pending>>
ShownBy(s) == (Flat(s.groups) \o PendingOf(s)) \o GroupPlaces(s.current)

\* A text that may stand alone comes after the current group.
FitsIn(s, T) == s \in StatesOf(T) /\ (s.pending # 0 => GroupPlaces(s.current) = <<>>)

\* The group of the next call, and the call in it.
GroupFor(s) == IF s.pending # 0 THEN Task(s.pending) ELSE IF s.current = NoGroup THEN Task(0) ELSE s.current
ResultOf(n) == IF n <= Len(Results) THEN Results[n] ELSE 0
ToolAt(s, i) == [call |-> i, result |-> ResultOf(s.calls + 1)]

LEMMA StateParts ==
    ASSUME NEW T, T \subseteq ToolTypes, NEW s \in StatesOf(T)
    PROVE  /\ s.groups \in Seq(DoneGroup(T)) /\ s.groups \in Seq(GroupTypes) /\ Flat(s.groups) \in Seq(Nat)
           /\ s.current \in GroupOf(T) /\ s.current \in GroupTypes /\ GroupPlaces(s.current) \in Seq(Nat)
           /\ s.pending \in Nat /\ s.lastText \in Nat /\ s.calls \in Nat /\ PendingOf(s) \in Seq(Nat)
           /\ ShownBy(s) \in Seq(Nat)
<1>1. s.groups \in Seq(DoneGroup(T)) /\ s.current \in GroupOf(T) /\ s.pending \in Nat /\ s.lastText \in Nat /\ s.calls \in Nat
  BY DEF StatesOf
<1>2. s.groups \in Seq(GroupTypes) /\ s.current \in GroupTypes
  BY <1>1, TypesFit
<1>3. Flat(s.groups) \in Seq(Nat)
  <2>1. NoGroup \in GroupTypes
    BY <1>2
       , PlacesOfNew, TypesFit
  <2> QED
    BY <1>2, <2>1, FlatSteps
<1>4. GroupPlaces(s.current) \in Seq(Nat)
  BY <1>2, PlacesTyped
<1>5. PendingOf(s) \in Seq(Nat)
  BY <1>1 DEF PendingOf
<1>6. ShownBy(s) \in Seq(Nat)
  BY <1>3, <1>4, <1>5, ConcatTyped DEF ShownBy
<1> QED
  BY <1>1, <1>2, <1>3, <1>4, <1>5, <1>6

\* A state with new fields.
With(s, gs, c, k) == [s EXCEPT !.groups = gs, !.current = c, !.pending = 0, !.calls = k]

LEMMA NewState ==
    ASSUME NEW T, NEW s \in StatesOf(T), NEW gs \in Seq(DoneGroup(T)), NEW c \in GroupOf(T), NEW k \in Nat,
           NEW n, n = With(s, gs, c, k)
    PROVE  /\ n \in StatesOf(T)
           /\ n.groups = gs /\ n.pending = 0 /\ n.current = c /\ n.lastText = s.lastText /\ n.calls = k
<1>1. PICK D, G : D = Seq(DoneGroup(T)) /\ G = GroupOf(T)
  OBVIOUS
<1>2. StatesOf(T) = [groups : D, current : G, pending : Nat, lastText : Nat, calls : Nat]
  BY <1>1 DEF StatesOf
<1>3. s \in [groups : D, current : G, pending : Nat, lastText : Nat, calls : Nat] /\ gs \in D /\ c \in G
  BY <1>1, <1>2
<1>4. n \in [groups : D, current : G, pending : Nat, lastText : Nat, calls : Nat]
  BY <1>3 DEF With
<1>5. n.groups = gs /\ n.pending = 0 /\ n.current = c /\ n.lastText = s.lastText /\ n.calls = k
  BY <1>3 DEF With
<1> QED
  BY <1>2, <1>4, <1>5

LEMMA NothingMore == ASSUME NEW s \in Seq(Nat) PROVE s \o <<>> = s
  OBVIOUS

\* The groups with one more.
LEMMA GroupMore ==
    ASSUME NEW T, T \subseteq ToolTypes, NEW gs \in Seq(DoneGroup(T)), NEW g \in DoneGroup(T)
    PROVE  Append(gs, g) \in Seq(DoneGroup(T)) /\ Flat(Append(gs, g)) = Flat(gs) \o GroupPlaces(g)
<1>1. gs \in Seq(GroupTypes) /\ g \in GroupTypes
  BY TypesFit
<1> QED
  BY <1>1, FlatSteps

LEMMA FlushKeeps ==
    ASSUME NEW T, T \subseteq ToolTypes, NEW s \in StatesOf(T), NEW f, f = FlushText(s)
    PROVE  /\ f \in StatesOf(T) /\ f.pending = 0 /\ f.current = s.current /\ f.lastText = s.lastText /\ f.calls = s.calls
           /\ Flat(f.groups) = Flat(s.groups) \o PendingOf(s)
<1>1. CASE s.pending = 0
  <2>1. f = s
    BY <1>1 DEF FlushText
  <2>2. Flat(s.groups) \o <<>> = Flat(s.groups)
    BY StateParts, NothingMore
  <2> QED
    BY <1>1, <2>1, <2>2 DEF PendingOf
<1>2. CASE s.pending # 0
  <2>1. PICK p \in Nat, gs \in Seq(DoneGroup(T)) : p = s.pending /\ gs = s.groups
    BY StateParts
  <2>2. Other(p) \in DoneGroup(T) /\ GroupPlaces(Other(p)) = <<p>>
    BY <1>2, <2>1, PlacesOfNew
  <2>3. PICK hs \in Seq(DoneGroup(T)) : hs = Append(gs, Other(p)) /\ Flat(hs) = Flat(gs) \o <<p>>
    BY <2>2, GroupMore
  <2>4. f = [s EXCEPT !.groups = hs, !.pending = 0]
    BY <1>2, <2>1, <2>3 DEF FlushText
  <2>5. f \in StatesOf(T) /\ f.groups = hs /\ f.pending = 0 /\ f.current = s.current /\ f.lastText = s.lastText /\ f.calls = s.calls
    <3>1. PICK c \in GroupOf(T), k \in Nat : c = s.current /\ k = s.calls
      BY StateParts
    <3>2. f = With(s, hs, c, k)
      BY <2>4, <3>1 DEF StatesOf, With
    <3>3. /\ f \in StatesOf(T)
          /\ f.groups = hs /\ f.pending = 0 /\ f.current = c /\ f.lastText = s.lastText /\ f.calls = k
      BY <3>2, NewState
    <3> QED
      BY <3>1, <3>3
  <2> QED
    BY <1>2, <2>1, <2>3, <2>5 DEF PendingOf
<1> QED
  BY <1>1, <1>2

LEMMA PushKeeps ==
    ASSUME NEW T, T \subseteq ToolTypes, NEW s \in StatesOf(T), NEW p, p = PushCurrent(s, TRUE)
    PROVE  /\ p \in StatesOf(T) /\ p.pending = s.pending /\ p.lastText = s.lastText /\ p.calls = s.calls
           /\ GroupPlaces(p.current) = <<>> /\ Flat(p.groups) = Flat(s.groups) \o GroupPlaces(s.current)
<1>1. CASE s.current.tools # <<>> \/ s.current.message # 0
  <2>1. PICK gs \in Seq(DoneGroup(T)), c \in GroupOf(T) : gs = s.groups /\ c = s.current
    BY StateParts
  <2>2. PICK d : d = [c EXCEPT !.isCompleted = TRUE]
    OBVIOUS
  <2>3. d \in DoneGroup(T) /\ d.message = c.message /\ d.tools = c.tools
    BY <2>2 DEF GroupOf, DoneGroup
  <2>4. GroupPlaces(d) = GroupPlaces(c)
    BY <2>3 DEF GroupPlaces
  <2>5. PICK hs \in Seq(DoneGroup(T)) : hs = Append(gs, d) /\ Flat(hs) = Flat(gs) \o GroupPlaces(c)
    BY <2>3, <2>4, GroupMore
  <2>6. p = [s EXCEPT !.groups = hs, !.current = NoGroup]
    BY <1>1, <2>1, <2>2, <2>5 DEF PushCurrent
  <2>7. NoGroup \in GroupOf(T) /\ GroupPlaces(NoGroup) = <<>>
    BY PlacesOfNew
  <2>8. /\ p \in StatesOf(T) /\ p.pending = s.pending /\ p.lastText = s.lastText /\ p.calls = s.calls
        /\ p.current = NoGroup /\ p.groups = hs
    BY <2>6, <2>7 DEF StatesOf
  <2> QED
    BY <2>1, <2>5, <2>7, <2>8
<1>2. CASE ~(s.current.tools # <<>> \/ s.current.message # 0)
  <2>1. p = s
    BY <1>2 DEF PushCurrent
  <2>2. CallsOf(s.current) = <<>> /\ TextOf(s.current) = <<>>
    BY <1>2, NoCalls DEF TextOf
  <2>3. GroupPlaces(s.current) = <<>> \o <<>> /\ <<>> \o <<>> = <<>>
    BY <2>2 DEF GroupPlaces, CallsOf, TextOf
  <2>4. Flat(s.groups) \o <<>> = Flat(s.groups)
    BY StateParts, NothingMore
  <2>5. GroupPlaces(p.current) = <<>> /\ Flat(p.groups) = Flat(s.groups) \o GroupPlaces(s.current)
    BY <2>1, <2>3, <2>4
  <2> QED
    BY <2>1, <2>5
<1> QED
  BY <1>1, <1>2

\* Both: the groups are all that is shown.
LEMMA AllPushed ==
    ASSUME NEW T, T \subseteq ToolTypes, NEW s \in StatesOf(T), NEW p, p = PushCurrent(FlushText(s), TRUE)
    PROVE  /\ p \in StatesOf(T) /\ p.pending = 0 /\ p.lastText = s.lastText /\ p.calls = s.calls
           /\ GroupPlaces(p.current) = <<>> /\ Flat(p.groups) = ShownBy(s)
<1>1. PICK f : f = FlushText(s)
  OBVIOUS
<1>2. /\ f \in StatesOf(T) /\ f.pending = 0 /\ f.current = s.current /\ f.lastText = s.lastText /\ f.calls = s.calls
      /\ Flat(f.groups) = Flat(s.groups) \o PendingOf(s)
  BY <1>1, FlushKeeps
<1>3. p = PushCurrent(f, TRUE)
  BY <1>1
<1>4. /\ p \in StatesOf(T) /\ p.pending = f.pending /\ p.lastText = f.lastText /\ p.calls = f.calls
      /\ GroupPlaces(p.current) = <<>> /\ Flat(p.groups) = Flat(f.groups) \o GroupPlaces(f.current)
  BY <1>2, <1>3, PushKeeps
<1> QED
  BY <1>2, <1>4 DEF ShownBy

\* One place more at the end.
LEMMA OneMore == ASSUME NEW s \in Seq(Nat), NEW i \in Nat PROVE s \o <<i>> = Append(s, i)
  OBVIOUS

LEMMA TextShows ==
    ASSUME NEW T, T \subseteq ToolTypes, NEW s \in StatesOf(T), NEW i \in Nat \ {0}, messages[i].of \in Nat,
           messages[i].of # s.lastText, NEW n, n = OnTextMessage(s, i)
    PROVE  /\ FitsIn(n, T) /\ n.lastText = messages[i].of /\ n.calls = s.calls
           /\ ShownBy(n) = Append(ShownBy(s), i)
<1>1. PICK p : p = PushCurrent(FlushText(s), TRUE)
  OBVIOUS
<1>2. p \in StatesOf(T) /\ p.calls = s.calls /\ Flat(p.groups) = ShownBy(s)
  BY <1>1, AllPushed
<1>3. n = [p EXCEPT !.pending = i, !.lastText = messages[i].of, !.current = NoGroup]
  BY <1>1 DEF OnTextMessage
<1>4. NoGroup \in GroupOf(T) /\ GroupPlaces(NoGroup) = <<>>
  BY PlacesOfNew
<1>5. /\ n \in StatesOf(T) /\ n.pending = i /\ n.lastText = messages[i].of /\ n.current = NoGroup
      /\ n.groups = p.groups /\ n.calls = p.calls
  BY <1>2, <1>3, <1>4 DEF StatesOf
<1>6. ShownBy(n) = (ShownBy(s) \o <<i>>) \o <<>>
  BY <1>2, <1>4, <1>5 DEF ShownBy, PendingOf
<1>7. ShownBy(s) \in Seq(Nat)
  BY StateParts
<1>8. ShownBy(s) \o <<i>> = Append(ShownBy(s), i) /\ Append(ShownBy(s), i) \in Seq(Nat)
  BY <1>7, OneMore
<1>9. ShownBy(n) = Append(ShownBy(s), i)
  BY <1>6, <1>8, NothingMore
<1> QED
  BY <1>2, <1>4, <1>5, <1>9 DEF FitsIn

LEMMA OtherShows ==
    ASSUME NEW T, T \subseteq ToolTypes, NEW s \in StatesOf(T), NEW i \in Nat \ {0}, NEW n, n = OnOther(s, i)
    PROVE  /\ FitsIn(n, T) /\ n.lastText = s.lastText /\ n.calls = s.calls
           /\ ShownBy(n) = Append(ShownBy(s), i)
<1>1. PICK p : p = PushCurrent(FlushText(s), TRUE)
  OBVIOUS
<1>2. /\ p \in StatesOf(T) /\ p.pending = 0 /\ p.lastText = s.lastText /\ p.calls = s.calls
      /\ GroupPlaces(p.current) = <<>> /\ Flat(p.groups) = ShownBy(s)
  BY <1>1, AllPushed
<1>3. PICK gs \in Seq(DoneGroup(T)) : gs = p.groups
  BY <1>2, StateParts
<1>4. Other(i) \in DoneGroup(T) /\ GroupPlaces(Other(i)) = <<i>>
  BY PlacesOfNew
<1>5. PICK hs \in Seq(DoneGroup(T)) : hs = Append(gs, Other(i)) /\ Flat(hs) = Flat(gs) \o <<i>>
  BY <1>4, GroupMore
<1>6. n = [p EXCEPT !.groups = hs]
  BY <1>1, <1>3, <1>5 DEF OnOther
<1>7. /\ n \in StatesOf(T) /\ n.groups = hs /\ n.pending = 0 /\ n.current = p.current
      /\ n.lastText = p.lastText /\ n.calls = p.calls
  BY <1>2, <1>6 DEF StatesOf
<1>8. ShownBy(s) \in Seq(Nat)
  BY StateParts
<1>9. Flat(hs) = Append(ShownBy(s), i) /\ Append(ShownBy(s), i) \in Seq(Nat)
  BY <1>2, <1>3, <1>5, <1>8, OneMore
<1>10. ShownBy(n) = (Append(ShownBy(s), i) \o <<>>) \o <<>>
  BY <1>2, <1>7, <1>9 DEF ShownBy, PendingOf
<1>11. ShownBy(n) = Append(ShownBy(s), i)
  BY <1>9, <1>10, NothingMore
<1> QED
  BY <1>2, <1>7, <1>11 DEF FitsIn

LEMMA GroupForFits ==
    ASSUME NEW T, T \subseteq ToolTypes, NEW s \in StatesOf(T), NEW g, g = GroupFor(s)
    PROVE  g \in GroupOf(T) /\ g \in GroupTypes
  BY StateParts, PlacesOfNew, TypesFit DEF GroupFor

LEMMA CallKeeps ==
    ASSUME NEW T, T \subseteq ToolTypes, NEW s \in StatesOf(T), NEW i \in Nat \ {0}, ToolAt(s, i) \in T,
           NEW n, n = OnToolUse(s, i)
    PROVE  /\ n \in StatesOf(T) /\ n.groups = s.groups /\ n.pending = 0 /\ n.lastText = s.lastText
           /\ n.calls = s.calls + 1 /\ GroupPlaces(n.current) = Append(GroupPlaces(GroupFor(s)), i)
<1>1. PICK g : g = GroupFor(s)
  OBVIOUS
<1>2. g \in GroupOf(T) /\ g \in GroupTypes
  BY <1>1, GroupForFits
<1>3. PICK tool \in T : tool = ToolAt(s, i) /\ tool.call = i
  BY DEF ToolAt
<1>4. PICK h : h = [g EXCEPT !.tools = Append(@, tool)]
  OBVIOUS
<1>5. h \in GroupOf(T)
  <2>1. g.tools \in Seq(T)
    BY <1>2 DEF GroupOf
  <2>4. Append(g.tools, tool) \in Seq(T)
    BY <2>1
  <2>2. PICK t \in Seq(T) : t = Append(g.tools, tool)
    BY <2>4
  <2>3. h = [g EXCEPT !.tools = t]
    BY <1>4, <2>2
  <2> QED
    BY <1>2, <2>3 DEF GroupOf
<1>6. GroupPlaces(h) = Append(GroupPlaces(g), i)
  BY <1>2, <1>3, <1>4, PlacesWithCall
<1>7. n = [s EXCEPT !.current = h, !.pending = 0, !.calls = s.calls + 1]
  BY <1>1, <1>3, <1>4 DEF OnToolUse, GroupFor, ToolAt, ResultOf
<1>8. /\ n \in StatesOf(T) /\ n.groups = s.groups /\ n.pending = 0 /\ n.current = h /\ n.lastText = s.lastText
      /\ n.calls = s.calls + 1
  <2>0. s.groups \in Seq(DoneGroup(T)) /\ s.calls \in Nat
    BY StateParts
  <2>1. PICK gs \in Seq(DoneGroup(T)), k \in Nat : gs = s.groups /\ k = s.calls + 1
    BY <2>0
  <2>2. n = With(s, gs, h, k)
    BY <1>7, <2>1 DEF StatesOf, With
  <2>3. /\ n \in StatesOf(T)
        /\ n.groups = gs /\ n.pending = 0 /\ n.current = h /\ n.lastText = s.lastText /\ n.calls = k
    BY <1>5, <2>2, NewState
  <2> QED
    BY <2>1, <2>3
<1> QED
  BY <1>1, <1>6, <1>8

LEMMA CallShows ==
    ASSUME NEW T, T \subseteq ToolTypes, NEW s \in StatesOf(T), FitsIn(s, T), NEW i \in Nat \ {0}, ToolAt(s, i) \in T,
           NEW n, n = OnToolUse(s, i)
    PROVE  /\ FitsIn(n, T) /\ n.lastText = s.lastText /\ n.calls = s.calls + 1
           /\ ShownBy(n) = Append(ShownBy(s), i)
<1>0. s \in StatesOf(T) /\ (s.pending # 0 => GroupPlaces(s.current) = <<>>)
  BY DEF FitsIn
<1>1. PICK g : g = GroupFor(s)
  OBVIOUS
<1>2. g \in GroupTypes
  BY <1>0, <1>1, GroupForFits
<1>8. /\ n \in StatesOf(T) /\ n.groups = s.groups /\ n.pending = 0 /\ n.lastText = s.lastText
      /\ n.calls = s.calls + 1 /\ GroupPlaces(n.current) = Append(GroupPlaces(g), i)
  BY <1>0, <1>1, CallKeeps
<1>9. PICK f \in Seq(Nat), gp \in Seq(Nat) : f = Flat(s.groups) /\ gp = GroupPlaces(g)
  BY <1>0, <1>2, StateParts, PlacesTyped
<1>10. ShownBy(n) = Append(f \o gp, i)
  <2>1. ShownBy(n) = (f \o <<>>) \o Append(gp, i)
    BY <1>8, <1>9 DEF ShownBy, PendingOf
  <2>2. f \o <<>> = f
    BY NothingMore
  <2>3. f \o Append(gp, i) = Append(f \o gp, i)
    BY ConcatAppends
  <2> QED
    BY <2>1, <2>2, <2>3
<1>11. ShownBy(s) = f \o gp
  <2>1. CASE s.pending # 0
    <3>1. PICK q \in Nat : q = s.pending /\ q # 0
      BY <1>0, <2>1, StateParts
    <3>2. gp = <<q>>
      BY <1>1, <1>9, <2>1, <3>1, PlacesOfNew DEF GroupFor
    <3>3. ShownBy(s) = (f \o <<q>>) \o <<>>
      BY <1>0, <1>9, <2>1, <3>1 DEF ShownBy, PendingOf
    <3>4. f \o <<q>> \in Seq(Nat)
      BY ConcatTyped
    <3> QED
      BY <3>2, <3>3, <3>4, NothingMore
  <2>2. CASE s.pending = 0
    <3>1. gp = GroupPlaces(s.current)
      BY <1>1, <1>9, <2>2, PlacesOfNew DEF GroupFor
    <3>2. ShownBy(s) = (f \o <<>>) \o gp
      BY <1>9, <2>2, <3>1 DEF ShownBy, PendingOf
    <3> QED
      BY <3>2, NothingMore
  <2> QED
    BY <2>1, <2>2
<1> QED
  BY <1>8, <1>10, <1>11 DEF FitsIn

(* What the grouping has made of the messages up to a place.              *)

Numbered(m) == [i \in DOMAIN m |-> i]
ResultsOf(m) == Picked(Numbered(m), {i \in DOMAIN m : m[i].type = "tool_result"})
CallsAt(m, k) == {j \in 1 .. k : m[j].type = "tool_use"}

KeptPlaces == {i \in DOMAIN messages : (Is(i, "text") => LastInSegment(i)) /\ (Is(i, "plan") => LastPlan(i))}
PageSet == {i \in DOMAIN messages : OnPage(i)}
UpTo(k) == [i \in 1 .. k |-> i]
GStep == [p \in GroupStates \X DOMAIN messages |-> GroupStep(p[1], p[2])]
GroupsAfter(k) == Loop(GStep, StartGroups, Picked(UpTo(k), KeptPlaces))

\* A call with the result at its own number.
RightTools == {t \in ToolTypes : /\ t.call \in DOMAIN messages /\ Is(t.call, "tool_use")
                                 /\ t.result = ResultOf(Cardinality(CallsAt(messages, t.call)))}

ShowsText(j) == Is(j, "text") /\ LastInSegment(j)
TextSoFar(k, t) ==
    \/ t = 0 /\ \A j \in 1 .. k : ~ShowsText(j)
    \/ \E j \in 1 .. k : ShowsText(j) /\ t = messages[j].of /\ \A m \in j + 1 .. k : ~ShowsText(m)

GroupedTo(k, s) ==
    /\ FitsIn(s, RightTools)
    /\ s.calls = Cardinality(CallsAt(messages, k))
    /\ ShownBy(s) = Picked(UpTo(k), PageSet)
    /\ TextSoFar(k, s.lastText)

LEMMA UpToNext ==
    ASSUME NEW N \in Nat, NEW k \in Nat, k + 1 <= N
    PROVE  /\ UpTo(k) \in Seq(1 .. N) /\ k + 1 \in 1 .. N /\ UpTo(k + 1) = Append(UpTo(k), k + 1)
<1>1. UpTo(k) \in Seq(1 .. N) /\ Len(UpTo(k)) = k /\ UpTo(k + 1) \in Seq(1 .. N) /\ Len(UpTo(k + 1)) = k + 1
  BY DEF UpTo
<1>2. PICK u \in Seq(1 .. N), v \in Seq(1 .. N) : u = UpTo(k) /\ v = UpTo(k + 1) /\ Len(u) = k /\ Len(v) = k + 1
  BY <1>1
<1>3. (\A i \in 1 .. k : u[i] = i) /\ (\A i \in 1 .. k + 1 : v[i] = i)
  BY <1>2 DEF UpTo
<1>4. Append(u, k + 1) \in Seq(1 .. N) /\ Len(Append(u, k + 1)) = k + 1 /\ \A i \in 1 .. k + 1 : Append(u, k + 1)[i] = v[i]
  BY <1>2, <1>3
<1>5. Append(u, k + 1) = v
  BY <1>2, <1>4, SameSeq
<1> QED
  BY <1>2, <1>5

\* The calls up to the next place.
LEMMA CallsNext ==
    ASSUME NEW m, NEW k \in Nat
    PROVE  /\ IsFiniteSet(CallsAt(m, k)) /\ Cardinality(CallsAt(m, k)) \in Nat
           /\ m[k + 1].type = "tool_use" => Cardinality(CallsAt(m, k + 1)) = Cardinality(CallsAt(m, k)) + 1
           /\ m[k + 1].type # "tool_use" => CallsAt(m, k + 1) = CallsAt(m, k)
<1>1. IsFiniteSet(1 .. k)
  BY FS_Interval
<1>2. IsFiniteSet(CallsAt(m, k))
  BY <1>1, FS_Subset DEF CallsAt
<1>3. Cardinality(CallsAt(m, k)) \in Nat
  BY <1>2, FS_CardinalityType
<1>4. 1 .. k + 1 = (1 .. k) \cup {k + 1} /\ k + 1 \notin 1 .. k
  OBVIOUS
<1>5. ASSUME m[k + 1].type = "tool_use" PROVE Cardinality(CallsAt(m, k + 1)) = Cardinality(CallsAt(m, k)) + 1
  <2>1. CallsAt(m, k + 1) = CallsAt(m, k) \cup {k + 1} /\ k + 1 \notin CallsAt(m, k)
    BY <1>4, <1>5 DEF CallsAt
  <2> QED
    BY <1>2, <2>1, FS_AddElement
<1>6. ASSUME m[k + 1].type # "tool_use" PROVE CallsAt(m, k + 1) = CallsAt(m, k)
  BY <1>4, <1>6 DEF CallsAt
<1> QED
  BY <1>2, <1>3, <1>5, <1>6

LEMMA PlacesAre ==
    ASSUME RightTexts
    PROVE  /\ messages \in Seq(MsgTypes) /\ Len(messages) \in Nat /\ DOMAIN messages = 1 .. Len(messages)
           /\ Places = UpTo(Len(messages)) /\ Places \in Seq(DOMAIN messages)
           /\ \A i \in DOMAIN messages : messages[i].of \in Nat /\ messages[i].type \in MessageTypes
<1>1. messages \in Seq(MsgTypes)
  BY DEF RightTexts
<1>2. Len(messages) \in Nat /\ DOMAIN messages = 1 .. Len(messages)
  BY <1>1
<1>3. \A i \in DOMAIN messages : messages[i] \in MsgTypes
  BY <1>1
<1>4. Places = UpTo(Len(messages)) /\ Places \in Seq(DOMAIN messages)
  BY <1>2 DEF Places, UpTo
<1> QED
  BY <1>1, <1>2, <1>3, <1>4 DEF MsgTypes

\* The results are the messages that are results.
LEMMA ResultsAre ==
    ASSUME RightTexts
    PROVE  Results = ResultsOf(messages) /\ Results \in Seq(DOMAIN messages)
<1> DEFINE S == {i \in DOMAIN messages : Is(i, "text") => LastInSegment(i)}
           R == {i \in DOMAIN messages : Is(i, "tool_result")}
<1>1. Results = Picked(Picked(Places, S), R)
  BY DEF Results, MergedMessages
<1>2. R = {i \in DOMAIN messages : messages[i].type = "tool_result"}
  BY DEF Is
<1>3. \A i \in DOMAIN messages : i \in S \cap R <=> i \in R
  BY DEF Is
<1>4. Places = Numbered(messages) /\ Places \in Seq(DOMAIN messages)
  BY PlacesAre DEF Places, Numbered
<1> HIDE DEF S, R
<1>5. Picked(Picked(Places, S), R) = Picked(Places, S \cap R)
  BY <1>4, PickedTwice
<1>6. Picked(Places, S \cap R) = Picked(Places, R)
  BY <1>3, <1>4, PickedSame
<1>7. Picked(Places, R) \in Seq(DOMAIN messages)
  <2>2. Picked(Places, R) \in Seq(DOMAIN messages \cap R)
    BY <1>4, PickedTyped
  <2> QED
    BY <2>2
<1> QED
  BY <1>1, <1>2, <1>4, <1>5, <1>6, <1>7 DEF ResultsOf

LEMMA ResultTyped == ASSUME RightTexts, NEW n \in Nat, n # 0 PROVE ResultOf(n) \in Nat
<1>1. Results \in Seq(DOMAIN messages) /\ DOMAIN messages \subseteq Nat
  BY ResultsAre, PlacesAre
<1>2. CASE n <= Len(Results)
  <2>1. Results[n] \in DOMAIN messages
    BY <1>1, <1>2
  <2> QED
    BY <1>1, <1>2, <2>1 DEF ResultOf
<1>3. CASE ~(n <= Len(Results))
  BY <1>3 DEF ResultOf
<1> QED
  BY <1>2, <1>3

LEMMA FilteredAre ==
    ASSUME RightTexts
    PROVE  FilteredMessages = Picked(Places, KeptPlaces)
<1> DEFINE S == {i \in DOMAIN messages : Is(i, "text") => LastInSegment(i)}
           P == {i \in DOMAIN messages : Is(i, "plan") => LastPlan(i)}
<1>1. FilteredMessages = Picked(Picked(Places, S), P)
  BY DEF FilteredMessages, MergedMessages
<1>2. KeptPlaces = S \cap P
  BY DEF KeptPlaces
<1> HIDE DEF S, P
<1> QED
  BY <1>1, <1>2, PlacesAre, PickedTwice

\* The grouping is a loop over its states.
LEMMA StepTyped ==
    ASSUME RightTexts, NEW s \in StatesOf(ToolTypes), NEW i \in DOMAIN messages, NEW n, n = GroupStep(s, i)
    PROVE  n \in StatesOf(ToolTypes)
<1>1. i \in Nat \ {0} /\ messages[i].of \in Nat
  BY PlacesAre
<1>2. CASE Is(i, "text")
  <2>1. n = OnTextMessage(s, i)
    BY <1>2 DEF GroupStep, Is
  <2>2. CASE messages[i].of = s.lastText
    BY <2>1, <2>2 DEF OnTextMessage
  <2>3. CASE messages[i].of # s.lastText
    <3>1. FitsIn(n, ToolTypes)
      BY <1>1, <2>1, <2>3, TextShows
    <3> QED
      BY <3>1 DEF FitsIn
  <2> QED
    BY <2>2, <2>3
<1>3. CASE Is(i, "tool_use")
  <2>1. n = OnToolUse(s, i)
    BY <1>3 DEF GroupStep, Is
  <2>2. s.calls + 1 \in Nat /\ s.calls + 1 # 0
    BY StateParts
  <2>3. ResultOf(s.calls + 1) \in Nat
    BY <2>2, ResultTyped
  <2>4. ToolAt(s, i) \in ToolTypes
    BY <1>1, <2>3 DEF ToolAt, ToolTypes
  <2> QED
    BY <1>1, <2>1, <2>4, CallKeeps
<1>4. CASE Is(i, "tool_result")
  BY <1>4 DEF GroupStep, Is
<1>5. CASE Is(i, "result") /\ ~LastResult(i)
  BY <1>5 DEF GroupStep, Is
<1>6. CASE ~Is(i, "text") /\ ~Is(i, "tool_use") /\ ~Is(i, "tool_result") /\ ~(Is(i, "result") /\ ~LastResult(i))
  <2>1. n = OnOther(s, i)
    BY <1>6 DEF GroupStep
  <2>2. FitsIn(n, ToolTypes)
    BY <1>1, <2>1, OtherShows
  <2> QED
    BY <2>2 DEF FitsIn
<1> QED
  BY <1>2, <1>3, <1>4, <1>5, <1>6

LEMMA GroupingLoops ==
    ASSUME RightTexts
    PROVE  LoopOf(GStep, StartGroups, GroupStates, DOMAIN messages)
<1>1. \A p \in GroupStates \X DOMAIN messages : GroupStep(p[1], p[2]) \in GroupStates
  <2>1. TAKE p \in GroupStates \X DOMAIN messages
  <2>2. p[1] \in StatesOf(ToolTypes) /\ p[2] \in DOMAIN messages
    BY StatesAre
  <2> QED
    BY <2>2, StepTyped, StatesAre
<1>2. StartGroups \in GroupStates
  <2>1. NoGroup \in GroupOf(ToolTypes) /\ <<>> \in Seq(DoneGroup(ToolTypes))
    BY PlacesOfNew
  <2>2. StartGroups \in StatesOf(ToolTypes)
    BY <2>1 DEF StartGroups, StatesOf
  <2> QED
    BY <2>2, StatesAre
<1> QED
  BY <1>1, <1>2 DEF LoopOf, GStep

LEMMA GroupingBegins == ASSUME RightTexts PROVE GroupedTo(0, GroupsAfter(0))
<1>1. UpTo(0) = <<>>
  BY DEF UpTo
<1>2. GroupsAfter(0) = StartGroups
  BY <1>1, PickedEmpty, GroupingLoops, LoopStart DEF GroupsAfter
<1>3. RightTools \subseteq ToolTypes
  BY DEF RightTools
<1>4. NoGroup \in GroupOf(RightTools) /\ <<>> \in Seq(DoneGroup(RightTools)) /\ GroupPlaces(NoGroup) = <<>>
  BY PlacesOfNew
<1>5. StartGroups \in StatesOf(RightTools)
  BY <1>4 DEF StartGroups, StatesOf
<1>6. FitsIn(StartGroups, RightTools)
  BY <1>5 DEF FitsIn, StartGroups
<1>7. CallsAt(messages, 0) = {}
  BY DEF CallsAt
<1>8. StartGroups.calls = Cardinality(CallsAt(messages, 0))
  BY <1>7, FS_EmptySet DEF StartGroups
<1>9. ShownBy(StartGroups) = (<<>> \o <<>>) \o <<>>
  BY <1>4, FlatSteps DEF ShownBy, StartGroups, PendingOf
<1>10. ShownBy(StartGroups) = Picked(UpTo(0), PageSet)
  BY <1>1, <1>9, PickedEmpty
<1>11. TextSoFar(0, StartGroups.lastText)
  BY DEF TextSoFar, StartGroups
<1> QED
  BY <1>2, <1>6, <1>8, <1>10, <1>11 DEF GroupedTo

\* The texts so far, with the next place.
LEMMA TextNext ==
    ASSUME NEW k \in Nat, NEW t, TextSoFar(k, t)
    PROVE  /\ ~ShowsText(k + 1) => TextSoFar(k + 1, t)
           /\ ShowsText(k + 1) => TextSoFar(k + 1, messages[k + 1].of)
<1>1. 1 .. k + 1 = (1 .. k) \cup {k + 1}
  OBVIOUS
<1>2. ASSUME ~ShowsText(k + 1) PROVE TextSoFar(k + 1, t)
  <2>1. CASE t = 0 /\ \A j \in 1 .. k : ~ShowsText(j)
    BY <1>1, <1>2, <2>1 DEF TextSoFar
  <2>2. CASE \E j \in 1 .. k : ShowsText(j) /\ t = messages[j].of /\ \A m \in j + 1 .. k : ~ShowsText(m)
    <3>1. PICK j \in 1 .. k : ShowsText(j) /\ t = messages[j].of /\ \A m \in j + 1 .. k : ~ShowsText(m)
      BY <2>2
    <3>2. j \in 1 .. k + 1 /\ j + 1 .. k + 1 = (j + 1 .. k) \cup {k + 1}
      OBVIOUS
    <3>3. \A m \in j + 1 .. k + 1 : ~ShowsText(m)
      BY <1>2, <3>1, <3>2
    <3> QED
      BY <3>1, <3>2, <3>3 DEF TextSoFar
  <2> QED
    BY <2>1, <2>2 DEF TextSoFar
<1>3. ASSUME ShowsText(k + 1) PROVE TextSoFar(k + 1, messages[k + 1].of)
  <2>1. k + 1 \in 1 .. k + 1 /\ (k + 1) + 1 .. k + 1 = {}
    OBVIOUS
  <2> QED
    BY <1>3, <2>1 DEF TextSoFar
<1> QED
  BY <1>2, <1>3

\* The last text shown is the one a text may repeat.
LEMMA RepeatIs ==
    ASSUME RightTexts, NEW k \in Nat, k + 1 \in DOMAIN messages, Is(k + 1, "text"), NEW t, TextSoFar(k, t)
    PROVE  RepeatsLast(k + 1) <=> messages[k + 1].of = t
<1>1. messages[k + 1].of \in Replies
  BY DEF RightTexts
<1>2. messages[k + 1].of # 0
  BY <1>1, TranscriptAssumption
<1>3. RepeatsLast(k + 1) <=> \E j \in 1 .. k : /\ ShowsText(j) /\ messages[j].of = messages[k + 1].of
                                              /\ \A m \in j + 1 .. k : ~ShowsText(m)
  <2>1. (k + 1) - 1 = k
    OBVIOUS
  <2>2. RepeatsLast(k + 1) <=> \E j \in 1 .. k :
            /\ Is(j, "text") /\ messages[j].of = messages[k + 1].of /\ LastInSegment(j)
            /\ \A m \in j + 1 .. k : Is(m, "text") => ~LastInSegment(m)
    BY <2>1 DEF RepeatsLast
  <2> QED
    BY <2>2 DEF ShowsText
<1>4. CASE t = 0 /\ \A j \in 1 .. k : ~ShowsText(j)
  BY <1>2, <1>3, <1>4
<1>5. CASE \E j \in 1 .. k : ShowsText(j) /\ t = messages[j].of /\ \A m \in j + 1 .. k : ~ShowsText(m)
  <2>1. PICK j \in 1 .. k : ShowsText(j) /\ t = messages[j].of /\ \A m \in j + 1 .. k : ~ShowsText(m)
    BY <1>5
  <2>2. ASSUME NEW i \in 1 .. k, ShowsText(i), \A m \in i + 1 .. k : ~ShowsText(m) PROVE i = j
    <3>1. ~(i < j) /\ ~(j < i)
      BY <2>1, <2>2
    <3> QED
      BY <3>1
  <2> QED
    BY <1>3, <2>1, <2>2
<1> QED
  BY <1>4, <1>5 DEF TextSoFar

\* The next place, kept or not.
LEMMA AfterNext ==
    ASSUME RightTexts, NEW k \in Nat, k + 1 <= Len(messages)
    PROVE  /\ k + 1 \in DOMAIN messages /\ k + 1 \in Nat \ {0}
           /\ GroupsAfter(k + 1) = IF k + 1 \in KeptPlaces THEN GroupStep(GroupsAfter(k), k + 1) ELSE GroupsAfter(k)
           /\ Picked(UpTo(k), PageSet) \in Seq(Nat)
           /\ Picked(UpTo(k + 1), PageSet) = IF OnPage(k + 1) THEN Append(Picked(UpTo(k), PageSet), k + 1)
                                             ELSE Picked(UpTo(k), PageSet)
<1>1. PICK N \in Nat : N = Len(messages) /\ DOMAIN messages = 1 .. N
  BY PlacesAre
<1>0. PICK e \in 1 .. N : e = k + 1
  BY <1>1
<1>2. PICK u \in Seq(1 .. N) : u = UpTo(k) /\ UpTo(k + 1) = Append(u, e)
  BY <1>0, <1>1, UpToNext
<1>3. LoopOf(GStep, StartGroups, GroupStates, 1 .. N)
  BY <1>1, GroupingLoops
<1>4. /\ Picked(u, KeptPlaces) \in Seq(1 .. N)
      /\ Picked(Append(u, e), KeptPlaces) = IF e \in KeptPlaces THEN Append(Picked(u, KeptPlaces), e) ELSE Picked(u, KeptPlaces)
  <2>1. PICK K : K = KeptPlaces
    OBVIOUS
  <2>2. /\ Picked(u, K) \in Seq(1 .. N)
        /\ Picked(Append(u, e), K) = IF e \in K THEN Append(Picked(u, K), e) ELSE Picked(u, K)
    BY ZenonT(40), PickedAppend
  <2> QED
    BY <2>1, <2>2
<1>5. PICK q \in Seq(1 .. N) : q = Picked(u, KeptPlaces)
  BY <1>4
<1>6. /\ Loop(GStep, StartGroups, q) \in GroupStates
      /\ Loop(GStep, StartGroups, Append(q, e)) = GStep[<<Loop(GStep, StartGroups, q), e>>]
  BY <1>3, LoopStep
<1>7. GStep[<<Loop(GStep, StartGroups, q), e>>] = GroupStep(Loop(GStep, StartGroups, q), e)
  <2>1. <<Loop(GStep, StartGroups, q), e>> \in GroupStates \X DOMAIN messages
    BY <1>1, <1>6
  <2> QED
    BY <2>1 DEF GStep
<1>8. GroupsAfter(k) = Loop(GStep, StartGroups, q)
  BY <1>2, <1>5 DEF GroupsAfter
<1>9. GroupsAfter(k + 1) = IF e \in KeptPlaces THEN GroupStep(GroupsAfter(k), e) ELSE GroupsAfter(k)
  <2>1. GroupsAfter(k + 1) = Loop(GStep, StartGroups, Picked(Append(u, e), KeptPlaces))
    BY <1>2 DEF GroupsAfter
  <2> QED
    BY <1>4, <1>5, <1>6, <1>7, <1>8, <2>1
<1>10. /\ Picked(u, PageSet) \in Seq(1 .. N)
       /\ Picked(Append(u, e), PageSet) = IF e \in PageSet THEN Append(Picked(u, PageSet), e)
                                          ELSE Picked(u, PageSet)
  <2>1. PICK K : K = PageSet
    OBVIOUS
  <2>2. /\ Picked(u, K) \in Seq(1 .. N)
        /\ Picked(Append(u, e), K) = IF e \in K THEN Append(Picked(u, K), e) ELSE Picked(u, K)
    BY ZenonT(40), PickedAppend
  <2> QED
    BY <2>1, <2>2
<1>11. e \in PageSet <=> OnPage(e)
  BY <1>1 DEF PageSet
<1>12. PICK w \in Seq(1 .. N) : w = Picked(u, PageSet)
  BY <1>10
<1>13. w \in Seq(Nat)
  OBVIOUS
<1>14. Picked(UpTo(k + 1), PageSet) = IF OnPage(e) THEN Append(Picked(UpTo(k), PageSet), e)
                                      ELSE Picked(UpTo(k), PageSet)
  BY <1>2, <1>10, <1>11
<1>15. e \in DOMAIN messages /\ e \in Nat \ {0}
  BY <1>1
<1> QED
  BY <1>0, <1>2, <1>9, <1>12, <1>13, <1>14, <1>15

LEMMA GroupingGoesOn ==
    ASSUME RightTexts, NEW k \in Nat, k + 1 <= Len(messages), NEW s, s = GroupsAfter(k), GroupedTo(k, s),
           NEW n, n = GroupsAfter(k + 1)
    PROVE  GroupedTo(k + 1, n)
<1>0. PICK i : i = k + 1
  OBVIOUS
<1> SUFFICES GroupedTo(i, n)
  BY <1>0
<1>1. /\ i \in DOMAIN messages /\ i \in Nat \ {0} /\ n = (IF i \in KeptPlaces THEN GroupStep(s, i) ELSE s)
      /\ Picked(UpTo(k), PageSet) \in Seq(Nat)
      /\ Picked(UpTo(i), PageSet) = IF OnPage(i) THEN Append(Picked(UpTo(k), PageSet), i) ELSE Picked(UpTo(k), PageSet)
  BY <1>0, AfterNext
<1>2. /\ FitsIn(s, RightTools) /\ s.calls = Cardinality(CallsAt(messages, k))
      /\ ShownBy(s) = Picked(UpTo(k), PageSet) /\ TextSoFar(k, s.lastText)
  BY DEF GroupedTo
<1>3. s \in StatesOf(RightTools) /\ RightTools \subseteq ToolTypes
  BY <1>2 DEF FitsIn, RightTools
<1>4. messages[i].of \in Nat
  BY <1>1, PlacesAre
<1>5. /\ Is(i, "tool_use") => Cardinality(CallsAt(messages, i)) = Cardinality(CallsAt(messages, k)) + 1
      /\ ~Is(i, "tool_use") => CallsAt(messages, i) = CallsAt(messages, k)
  BY <1>0, CallsNext DEF Is
<1>6. /\ ~ShowsText(i) => TextSoFar(i, s.lastText)
      /\ ShowsText(i) => TextSoFar(i, messages[i].of)
  BY <1>0, <1>2, TextNext
<1>7. ASSUME n = s, ~Is(i, "tool_use"), ~OnPage(i), TextSoFar(i, s.lastText) PROVE GroupedTo(i, n)
  BY <1>1, <1>2, <1>5, <1>7 DEF GroupedTo
<1>8. CASE i \notin KeptPlaces
  <2>1. (Is(i, "text") /\ ~LastInSegment(i)) \/ (Is(i, "plan") /\ ~LastPlan(i))
    BY <1>1, <1>8 DEF KeptPlaces
  <2>2. ~Is(i, "tool_use") /\ ~OnPage(i) /\ ~ShowsText(i)
    BY <2>1 DEF OnPage, Is, ShowsText
  <2> QED
    BY <1>1, <1>6, <1>7, <1>8, <2>2
<1>9. CASE i \in KeptPlaces /\ Is(i, "text")
  <2>1. LastInSegment(i) /\ n = OnTextMessage(s, i) /\ ~Is(i, "tool_use")
    BY <1>1, <1>9 DEF KeptPlaces, GroupStep, Is
  <2>2. ShowsText(i) /\ (OnPage(i) <=> ~RepeatsLast(i))
    BY <1>9, <2>1 DEF ShowsText, OnPage, Is
  <2>3. RepeatsLast(i) <=> messages[i].of = s.lastText
    BY <1>0, <1>1, <1>2, <1>9, RepeatIs
  <2>4. TextSoFar(i, messages[i].of)
    BY <1>6, <2>2
  <2>5. CASE messages[i].of = s.lastText
    <3>1. n = s
      BY <2>1, <2>5 DEF OnTextMessage
    <3> QED
      BY <1>7, <2>1, <2>2, <2>3, <2>4, <2>5, <3>1
  <2>6. CASE messages[i].of # s.lastText
    <3>1. /\ FitsIn(n, RightTools) /\ n.lastText = messages[i].of /\ n.calls = s.calls
          /\ ShownBy(n) = Append(ShownBy(s), i)
      <4>1. PICK T : T = RightTools
        OBVIOUS
      <4>2. /\ T \subseteq ToolTypes /\ s \in StatesOf(T) /\ n = OnTextMessage(s, i)
            /\ i \in Nat \ {0} /\ messages[i].of \in Nat /\ messages[i].of # s.lastText
        BY <1>1, <1>3, <1>4, <2>1, <2>6, <4>1
      <4>3. /\ FitsIn(n, T) /\ n.lastText = messages[i].of /\ n.calls = s.calls
            /\ ShownBy(n) = Append(ShownBy(s), i)
        BY <4>2, TextShows
      <4> QED
        BY <4>1, <4>3
    <3> QED
      BY <1>1, <1>2, <1>5, <2>1, <2>2, <2>3, <2>4, <2>6, <3>1 DEF GroupedTo
  <2> QED
    BY <2>5, <2>6
<1>10. CASE i \in KeptPlaces /\ Is(i, "tool_use")
  <2>1. n = OnToolUse(s, i) /\ OnPage(i) /\ ~ShowsText(i)
    BY <1>1, <1>10 DEF GroupStep, Is, OnPage, ShowsText
  <2>2. ToolAt(s, i) \in RightTools
    <3>1. s.calls \in Nat /\ s.calls + 1 = Cardinality(CallsAt(messages, i))
      BY <1>2, <1>3, <1>5, <1>10, StateParts
    <3>2. ResultOf(s.calls + 1) \in Nat
      <4>1. s.calls + 1 \in Nat /\ s.calls + 1 # 0
        BY <3>1
      <4> QED
        BY <4>1, ResultTyped
    <3> QED
      BY <1>1, <1>10, <3>1, <3>2 DEF ToolAt, RightTools, ToolTypes
  <2>3. /\ FitsIn(n, RightTools) /\ n.lastText = s.lastText /\ n.calls = s.calls + 1
        /\ ShownBy(n) = Append(ShownBy(s), i)
    <3>1. PICK T : T = RightTools
      OBVIOUS
    <3>2. T \subseteq ToolTypes /\ FitsIn(s, T) /\ ToolAt(s, i) \in T /\ i \in Nat \ {0} /\ n = OnToolUse(s, i)
      BY <1>1, <1>2, <1>3, <2>1, <2>2, <3>1
    <3>3. /\ FitsIn(n, T) /\ n.lastText = s.lastText /\ n.calls = s.calls + 1
          /\ ShownBy(n) = Append(ShownBy(s), i)
      BY <1>3, <3>1, <3>2, CallShows
    <3> QED
      BY <3>1, <3>3
  <2> QED
    BY <1>1, <1>2, <1>5, <1>6, <1>10, <2>1, <2>3 DEF GroupedTo
<1>11. CASE i \in KeptPlaces /\ (Is(i, "tool_result") \/ (Is(i, "result") /\ ~LastResult(i)))
  <2>1. n = s /\ ~OnPage(i) /\ ~ShowsText(i) /\ ~Is(i, "tool_use")
    BY <1>1, <1>11 DEF GroupStep, Is, OnPage, ShowsText
  <2> QED
    BY <1>6, <1>7, <2>1
<1>12. CASE /\ i \in KeptPlaces /\ ~Is(i, "text") /\ ~Is(i, "tool_use") /\ ~Is(i, "tool_result")
            /\ ~(Is(i, "result") /\ ~LastResult(i))
  <2>1. n = OnOther(s, i) /\ OnPage(i) /\ ~ShowsText(i)
    <3>1. n = OnOther(s, i)
      BY <1>1, <1>12 DEF GroupStep
    <3>2. Is(i, "plan") => LastPlan(i)
      BY <1>12 DEF KeptPlaces
    <3>3. OnPage(i)
      BY <1>12, <3>2 DEF OnPage, Is
    <3> QED
      BY <1>12, <3>1, <3>3 DEF ShowsText
  <2>2. /\ FitsIn(n, RightTools) /\ n.lastText = s.lastText /\ n.calls = s.calls
        /\ ShownBy(n) = Append(ShownBy(s), i)
    BY <1>1, <1>3, <2>1, OtherShows
  <2> QED
    BY <1>1, <1>2, <1>5, <1>6, <1>12, <2>1, <2>2 DEF GroupedTo
<1> QED
  BY <1>8, <1>9, <1>10, <1>11, <1>12

LEMMA PageGrouped == ASSUME RightTexts PROVE GroupedTo(Len(messages), GroupsAfter(Len(messages)))
<1> DEFINE U == {k \in Nat : k <= Len(messages) => GroupedTo(k, GroupsAfter(k))}
<1>1. 0 \in U
  BY GroupingBegins
<1>2. ASSUME NEW k \in Nat, k \in U PROVE k + 1 \in U
  <2>1. CASE k + 1 <= Len(messages)
    <3>1. GroupedTo(k, GroupsAfter(k))
      BY <1>2, <2>1, PlacesAre
    <3>2. GroupedTo(k + 1, GroupsAfter(k + 1))
      BY <2>1, <3>1, GroupingGoesOn
    <3> QED
      BY <3>2
  <2> QED
    BY <2>1
<1>3. Nat \subseteq U
  <2> HIDE DEF U
  <2> QED
    BY <1>1, <1>2, AllNats
<1> QED
  BY <1>3, PlacesAre

\* The groups of the page: all that was grouped, the last perhaps under way.
LEMMA LastPushed ==
    ASSUME NEW T, T \subseteq ToolTypes, NEW s \in StatesOf(T), NEW done \in BOOLEAN, NEW gs, gs = PushCurrent(s, done).groups
    PROVE  /\ gs \in Seq(GroupOf(T)) /\ Flat(gs) = Flat(s.groups) \o GroupPlaces(s.current)
           /\ \A g \in DOMAIN gs : gs[g].isCompleted = FALSE => done = FALSE /\ g = Len(gs)
<1>0. PICK hs \in Seq(DoneGroup(T)), c \in GroupOf(T) : hs = s.groups /\ c = s.current
  BY StateParts
<1>9. hs \in Seq(GroupOf(T)) /\ hs \in Seq(GroupTypes) /\ DoneGroup(T) \subseteq GroupOf(T) /\ GroupOf(T) \subseteq GroupTypes
  <2>1. DoneGroup(T) \subseteq GroupOf(T) /\ GroupOf(T) \subseteq GroupTypes
    BY TypesFit
  <2> QED
    BY <2>1
<1>8. \A g \in 1 .. Len(hs) : hs[g].isCompleted = TRUE
  <2>1. \A g \in 1 .. Len(hs) : hs[g] \in DoneGroup(T)
    OBVIOUS
  <2> QED
    BY <2>1 DEF DoneGroup
<1>7. Len(hs) \in Nat /\ DOMAIN hs = 1 .. Len(hs)
  OBVIOUS
<1>1. CASE s.current.tools # <<>> \/ s.current.message # 0
  <2>1. PICK d : d = [c EXCEPT !.isCompleted = done]
    OBVIOUS
  <2>2. d \in GroupOf(T) /\ d.message = c.message /\ d.tools = c.tools /\ d.isCompleted = done
    BY <2>1 DEF GroupOf
  <2>3. GroupPlaces(d) = GroupPlaces(c)
    BY <2>2 DEF GroupPlaces
  <2>4. gs = Append(hs, d)
    BY <1>0, <1>1, <2>1 DEF PushCurrent, StatesOf
  <2>5. Flat(gs) = Flat(hs) \o GroupPlaces(d)
    BY <1>9, <2>2, <2>4, FlatSteps
  <2>6. gs \in Seq(GroupOf(T)) /\ Len(gs) = Len(hs) + 1 /\ DOMAIN gs = 1 .. Len(hs) + 1 /\ gs[Len(hs) + 1] = d
        /\ \A g \in 1 .. Len(hs) : gs[g] = hs[g]
    BY <1>7, <1>9, <2>2, <2>4
  <2>7. ASSUME NEW g \in DOMAIN gs, gs[g].isCompleted = FALSE PROVE done = FALSE /\ g = Len(gs)
    <3>1. CASE g \in 1 .. Len(hs)
      BY <1>8, <2>6, <2>7, <3>1
    <3>2. CASE g = Len(hs) + 1
      <4>1. gs[g] = d
        BY <2>6, <3>2
      <4>2. done = FALSE
        BY <2>2, <2>7, <4>1
      <4> QED
        BY <2>6, <3>2, <4>2
    <3>3. g \in 1 .. Len(hs) \/ g = Len(hs) + 1
      <4>1. g \in 1 .. Len(hs) + 1
        BY <2>6
      <4> QED
        BY <1>7, <4>1
    <3> QED
      BY <3>1, <3>2, <3>3
  <2> QED
    BY <1>0, <2>3, <2>5, <2>6, <2>7
<1>2. CASE ~(s.current.tools # <<>> \/ s.current.message # 0)
  <2>1. gs = hs
    BY <1>0, <1>2 DEF PushCurrent
  <2>2. CallsOf(s.current) = <<>> /\ TextOf(s.current) = <<>>
    BY <1>2, NoCalls DEF TextOf
  <2>3. GroupPlaces(s.current) = <<>> \o <<>> /\ <<>> \o <<>> = <<>>
    BY <2>2 DEF GroupPlaces, CallsOf, TextOf
  <2>4. Flat(s.groups) \o <<>> = Flat(s.groups)
    BY StateParts, NothingMore
  <2>5. \A g \in DOMAIN gs : gs[g].isCompleted = TRUE
    BY <1>7, <1>8, <2>1
  <2> QED
    BY <1>0, <1>9, <2>1, <2>3, <2>4, <2>5
<1> QED
  BY <1>1, <1>2

LEMMA GroupsAre ==
    ASSUME RightTexts, NEW over \in BOOLEAN, over = ~isRunning
    PROVE  /\ Groups \in Seq(GroupOf(RightTools)) /\ Flat(Groups) = Picked(Places, PageSet)
           /\ \A g \in DOMAIN Groups : Groups[g].isCompleted = FALSE => over = FALSE /\ g = Len(Groups)
<1>1. PICK s : s = GroupsAfter(Len(messages))
  OBVIOUS
<1>2. s \in StatesOf(RightTools) /\ ShownBy(s) = Picked(Places, PageSet)
  BY <1>1, PageGrouped, PlacesAre DEF GroupedTo, FitsIn
<1>3. RightTools \subseteq ToolTypes
  BY DEF RightTools
<1>4. PICK f : f = FlushText(s)
  OBVIOUS
<1>5. f \in StatesOf(RightTools) /\ f.current = s.current /\ Flat(f.groups) = Flat(s.groups) \o PendingOf(s)
  BY <1>2, <1>3, <1>4, FlushKeeps
<1>6. s = Loop(GStep, StartGroups, FilteredMessages)
  BY <1>1, FilteredAre, PlacesAre DEF GroupsAfter
<1>7. PICK gs : gs = PushCurrent(f, over).groups
  OBVIOUS
<1>8. Groups = gs
  BY <1>4, <1>6, <1>7 DEF Groups, GStep
<1>9. /\ gs \in Seq(GroupOf(RightTools)) /\ Flat(gs) = Flat(f.groups) \o GroupPlaces(f.current)
      /\ \A g \in DOMAIN gs : gs[g].isCompleted = FALSE => over = FALSE /\ g = Len(gs)
  BY <1>3, <1>5, <1>7, LastPushed
<1>10. Flat(gs) = Picked(Places, PageSet)
  BY <1>2, <1>5, <1>9 DEF ShownBy
<1> QED
  BY <1>8, <1>9, <1>10

LEMMA PageIsWhole == ASSUME RightTexts, isRunning \in BOOLEAN PROVE PageTellsAll /\ LastGroupRuns
<1>1. PICK over \in BOOLEAN : over = ~isRunning
  BY Zenon
<1>2. /\ Groups \in Seq(GroupOf(RightTools)) /\ Flat(Groups) = Picked(Places, PageSet)
      /\ \A g \in DOMAIN Groups : Groups[g].isCompleted = FALSE => over = FALSE /\ g = Len(Groups)
  BY <1>1, GroupsAre
<1>3. ShownPlaces = Flat(Groups)
  BY DEF ShownPlaces, Flat, FlatStep
<1>4. PageTellsAll
  BY <1>2, <1>3 DEF PageTellsAll, PageSet
<1>5. \A g \in DOMAIN Groups : Groups[g].isCompleted \in BOOLEAN
  <2>1. PICK gs \in Seq(GroupOf(RightTools)) : gs = Groups
    BY <1>2
  <2>2. \A g \in 1 .. Len(gs) : gs[g] \in GroupOf(RightTools)
    OBVIOUS
  <2>3. ASSUME NEW g \in DOMAIN gs PROVE gs[g].isCompleted \in BOOLEAN
    <3>1. gs[g] \in GroupOf(RightTools)
      OBVIOUS
    <3> QED
      BY <3>1 DEF GroupOf
  <2> QED
    BY <2>1, <2>3
<1>6. over = FALSE => isRunning
  BY <1>1, Zenon
<1>7. LastGroupRuns
  BY <1>2, <1>5, <1>6 DEF LastGroupRuns
<1> QED
  BY <1>4, <1>7

LEMMA ShownAreRight == ASSUME RightTexts, isRunning \in BOOLEAN PROVE ShownTools \subseteq RightTools
<1>1. PICK over \in BOOLEAN : over = ~isRunning
  BY Zenon
<1>2. Groups \in Seq(GroupOf(RightTools))
  BY <1>1, GroupsAre
<1>3. PICK gs \in Seq(GroupOf(RightTools)) : gs = Groups
  BY <1>2
<1>4. ASSUME NEW g \in DOMAIN gs PROVE ToSet(gs[g].tools) \subseteq RightTools
  <2>1. gs[g] \in GroupOf(RightTools)
    OBVIOUS
  <2>2. PICK t \in Seq(RightTools) : t = gs[g].tools
    BY <2>1 DEF GroupOf
  <2>3. \A i \in DOMAIN t : t[i] \in RightTools
    OBVIOUS
  <2> QED
    BY <2>2, <2>3 DEF ToSet
<1> QED
  BY <1>3, <1>4 DEF ShownTools

-----------------------------------------------------------------------------
(* ShellTranscript: the messages of a run.                                 *)

\* The parts of the invariant, of a sequence of messages: the texts are
\* replies, the calls are numbered as they come, and so are the results once
\* every call of the runs before, k of them, has its own.
SaysReplies(m) == \A i \in DOMAIN m : m[i].type = "text" => m[i].of \in Replies
NumbersCalls(m) == \A i \in DOMAIN m : m[i].type = "tool_use" => m[i].of = Cardinality(CallsAt(m, i))
HasNumber(m, c) == \E n \in DOMAIN ResultsOf(m) : m[ResultsOf(m)[n]].of = c
NumbersResults(m, k) == (\A c \in 1 .. k : HasNumber(m, c)) => \A n \in DOMAIN ResultsOf(m) : m[ResultsOf(m)[n]].of = n

GoodMessages(m, k) ==
    /\ m \in Seq(MsgTypes) /\ Len(m) <= MaxShown
    /\ SaysReplies(m) /\ NumbersCalls(m) /\ NumbersResults(m, k)
    /\ k \in 0 .. Cardinality(CallsAt(m, Len(m)))

TranscriptInv == GoodMessages(messages, runFrom) /\ isRunning \in BOOLEAN

LEMMA InvParts ==
    ASSUME TranscriptInv
    PROVE  /\ RightTexts /\ NumbersCalls(messages) /\ NumbersResults(messages, runFrom)
           /\ Made = Cardinality(CallsAt(messages, Len(messages))) /\ Made \in Nat
           /\ isRunning \in BOOLEAN /\ runFrom \in 0 .. Made /\ TranscriptTypeOK
<1>1. RightTexts
  BY DEF TranscriptInv, GoodMessages, RightTexts, SaysReplies, Is
<1>2. {i \in DOMAIN messages : messages[i].type = "tool_use"} = CallsAt(messages, Len(messages))
  BY <1>1, PlacesAre DEF CallsAt
<1>3. Made = Cardinality(CallsAt(messages, Len(messages))) /\ Made \in Nat
  BY <1>1, <1>2, CallsNext, PlacesAre DEF Made
<1>4. TranscriptTypeOK
  BY <1>3 DEF TranscriptInv, GoodMessages, TranscriptTypeOK, MsgTypes
<1> QED
  BY <1>1, <1>3, <1>4 DEF TranscriptInv, GoodMessages

\* A call has a result if one of the results is its.
HasIn(m, c) == Msg("tool_result", c) \in ToSet(m)

LEMMA AnswersIs ==
    ASSUME NEW m \in Seq(MsgTypes), NEW c \in Nat
    PROVE  HasIn(m, c) <=> HasNumber(m, c)
<1>1. PICK p : p = ResultsOf(m)
  OBVIOUS
<1>2. PICK q \in Seq(DOMAIN m) : q = Numbered(m)
  <2>1. Numbered(m) \in Seq(DOMAIN m)
    BY DEF Numbered
  <2> QED
    BY <2>1
<1>3. {q[i] : i \in DOMAIN q} = DOMAIN m
  BY <1>2 DEF Numbered
<1>4. {p[n] : n \in DOMAIN p} = DOMAIN m \cap {i \in DOMAIN m : m[i].type = "tool_result"}
  <2>1. PICK R : R = {i \in DOMAIN m : m[i].type = "tool_result"}
    OBVIOUS
  <2>2. p = Picked(q, R)
    BY <1>1, <1>2, <2>1 DEF ResultsOf
  <2>3. {p[n] : n \in DOMAIN p} = {q[i] : i \in DOMAIN q} \cap R
    BY <2>2, PickedHas
  <2> QED
    BY <1>3, <2>1, <2>3
<1>5. HasIn(m, c) <=> \E i \in DOMAIN m : m[i] = Msg("tool_result", c)
  BY DEF HasIn, ToSet
<1>6. ASSUME NEW i \in DOMAIN m PROVE m[i] = Msg("tool_result", c) <=> m[i].type = "tool_result" /\ m[i].of = c
  <2>1. m[i] \in MsgTypes
    OBVIOUS
  <2> QED
    BY <2>1 DEF MsgTypes, Msg
<1>7. HasIn(m, c) <=> \E i \in {p[n] : n \in DOMAIN p} : m[i].of = c
  BY <1>4, <1>5, <1>6
<1> QED
  BY <1>1, <1>7 DEF HasNumber

\* The results, with one message more.
LEMMA ResultsNext ==
    ASSUME NEW m \in Seq(MsgTypes), NEW e \in MsgTypes, NEW w, w = Append(m, e)
    PROVE  /\ ResultsOf(m) \in Seq(1 .. Len(m)) /\ Len(m) \in Nat
           /\ e.type # "tool_result" => ResultsOf(w) = ResultsOf(m)
           /\ e.type = "tool_result" => ResultsOf(w) = Append(ResultsOf(m), Len(m) + 1)
<1> DEFINE R(v) == {i \in DOMAIN v : v[i].type = "tool_result"}
<1>1. PICK N \in Nat : N = Len(m) /\ DOMAIN m = 1 .. N
  OBVIOUS
<1>2. w \in Seq(MsgTypes) /\ DOMAIN w = 1 .. N + 1 /\ w[N + 1] = e /\ \A i \in 1 .. N : w[i] = m[i]
  BY <1>1
<1>3. Numbered(m) = UpTo(N) /\ Numbered(w) = UpTo(N + 1)
  BY <1>1, <1>2 DEF Numbered, UpTo
<1>4. PICK x \in 1 .. N + 1 : x = N + 1
  OBVIOUS
<1>5. PICK u \in Seq(1 .. N + 1) : u = UpTo(N) /\ UpTo(N + 1) = Append(u, x)
  <2>1. N + 1 \in Nat /\ N + 1 <= N + 1
    OBVIOUS
  <2> QED
    BY <1>4, <2>1, UpToNext
<1>6. u \in Seq(1 .. N)
  <2>1. UpTo(N) \in Seq(1 .. N)
    BY DEF UpTo
  <2> QED
    BY <1>5, <2>1
<1>7. Picked(Append(u, x), R(w)) = IF x \in R(w) THEN Append(Picked(u, R(w)), x) ELSE Picked(u, R(w))
  <2> HIDE DEF R
  <2> QED
    BY PickedAppend
<1>8. Picked(u, R(w)) = Picked(u, R(m))
  <2>1. \A i \in 1 .. N : i \in R(w) <=> i \in R(m)
    BY <1>1, <1>2
  <2> HIDE DEF R
  <2> QED
    BY <1>6, <2>1, PickedSame
<1>9. x \in R(w) <=> e.type = "tool_result"
  BY <1>2, <1>4
<1>10. ResultsOf(m) = Picked(u, R(m)) /\ ResultsOf(w) = Picked(Append(u, x), R(w))
  BY <1>3, <1>5 DEF ResultsOf
<1> HIDE DEF R
<1>11. Picked(u, R(m)) \in Seq(1 .. N)
  <2>1. Picked(u, R(m)) \in Seq((1 .. N) \cap R(m))
    BY <1>6, PickedTyped
  <2> QED
    BY <2>1
<1> QED
  BY <1>1, <1>4, <1>7, <1>8, <1>9, <1>10, <1>11

\* What TranscriptInv says of the messages shown.
LEMMA TranscriptShows ==
    ASSUME TranscriptInv
    PROVE  PageTellsAll /\ LastGroupRuns /\ CallsHaveTheirResults
<1>0. RightTexts /\ NumbersCalls(messages) /\ NumbersResults(messages, runFrom) /\ isRunning \in BOOLEAN
      /\ runFrom \in 0 .. Made
  BY InvParts
<1>1. Made \in Nat
  BY InvParts
<1>2. PICK over \in Nat : over = IF isRunning THEN runFrom ELSE Made
  BY <1>0, <1>1
<1>3. 1 .. runFrom \subseteq 1 .. over
  BY <1>0, <1>1, <1>2
<1>4. ASSUME \A c \in 1 .. over : HasResult(c), NEW tool \in ShownTools
      PROVE  IF tool.result # 0 THEN messages[tool.result].of = messages[tool.call].of
                                ELSE ~HasResult(messages[tool.call].of)
  <2>1. PICK p \in Seq(DOMAIN messages) : p = Results /\ p = ResultsOf(messages)
    BY <1>0, ResultsAre
  <2>0. \A c \in 1 .. runFrom : HasNumber(messages, c)
    <3>1. \A c \in 1 .. over : HasIn(messages, c)
      BY <1>4 DEF HasResult, HasIn
    <3>2. PICK m \in Seq(MsgTypes) : m = messages
      BY <1>0, PlacesAre
    <3>3. ASSUME NEW c \in 1 .. runFrom PROVE HasNumber(m, c)
      <4>1. c \in Nat /\ HasIn(m, c)
        BY <1>0, <1>1, <1>3, <3>1, <3>2
      <4> QED
        BY <4>1, AnswersIs
    <3> QED
      BY <3>2, <3>3
  <2>2. \A n \in 1 .. Len(p) : messages[p[n]].of = n /\ p[n] \in DOMAIN messages
    BY <1>0, <2>0, <2>1 DEF NumbersResults
  <2>3. tool \in RightTools
    BY <1>0, <1>4, ShownAreRight
  <2>4. PICK i \in DOMAIN messages : i = tool.call /\ Is(i, "tool_use") /\ tool.result = ResultOf(Cardinality(CallsAt(messages, i)))
    BY <2>3 DEF RightTools
  <2>5. messages[i].of = Cardinality(CallsAt(messages, i)) /\ messages[i].of \in Nat
    BY <1>0, <2>4, PlacesAre DEF NumbersCalls, Is
  <2>6. PICK c \in Nat : c = messages[i].of /\ c # 0 /\ tool.result = ResultOf(c)
    <3>1. PICK k \in Nat : i = k + 1
      <4>1. i \in Nat /\ i # 0
        BY <1>0, PlacesAre
      <4>2. i - 1 \in Nat /\ i = (i - 1) + 1
        BY <4>1
      <4> QED
        BY <4>2
    <3>2. Cardinality(CallsAt(messages, i)) = Cardinality(CallsAt(messages, k)) + 1 /\ Cardinality(CallsAt(messages, k)) \in Nat
      BY <2>4, <3>1, CallsNext DEF Is
    <3> QED
      BY <2>4, <2>5, <3>2
  <2>7. CASE c <= Len(p)
    <3>1. c \in 1 .. Len(p)
      BY <2>6, <2>7
    <3>2. tool.result = p[c]
      BY <2>1, <2>6, <2>7 DEF ResultOf
    <3>3. p[c] # 0 /\ messages[p[c]].of = c
      BY <1>0, <2>2, <3>1, PlacesAre
    <3> QED
      BY <2>4, <2>6, <3>2, <3>3
  <2>8. CASE ~(c <= Len(p))
    <3>1. tool.result = 0
      BY <2>1, <2>6, <2>8 DEF ResultOf
    <3>2. ~HasResult(c)
      <4>1. HasResult(c) <=> \E n \in DOMAIN p : messages[p[n]].of = c
        <5>1. HasIn(messages, c) <=> HasNumber(messages, c)
          BY <1>0, AnswersIs, PlacesAre
        <5>2. HasResult(c) <=> HasIn(messages, c)
          BY DEF HasResult, HasIn
        <5>3. HasNumber(messages, c) <=> \E n \in DOMAIN p : messages[p[n]].of = c
          BY <2>1 DEF HasNumber
        <5> QED
          BY <5>1, <5>2, <5>3
      <4>2. DOMAIN p = 1 .. Len(p)
        OBVIOUS
      <4> QED
        BY <2>2, <2>8, <4>1, <4>2
    <3> QED
      BY <2>4, <2>6, <3>1, <3>2
  <2> QED
    BY <2>7, <2>8
<1>5. CallsHaveTheirResults
  BY <1>2, <1>4 DEF CallsHaveTheirResults
<1> QED
  BY <1>0, <1>5, PageIsWhole

LEMMA MsgTyped ==
    ASSUME NEW type \in MessageTypes, NEW of \in Nat
    PROVE  \E e \in MsgTypes : e = Msg(type, of) /\ e.type = type /\ e.of = of
<1>1. Msg(type, of) \in MsgTypes /\ Msg(type, of).type = type /\ Msg(type, of).of = of
  BY DEF Msg, MsgTypes
<1> QED
  BY <1>1

LEMMA TypesNamed == {"user", "text", "tool_use", "tool_result", "plan", "result", "error"} = MessageTypes
  BY DEF MessageTypes

\* A message that says, calls or answers as the run does keeps them good.
LEMMA GoodNext ==
    ASSUME NEW m, NEW k, GoodMessages(m, k), Len(m) < MaxShown, NEW e \in MsgTypes, NEW w, w = Append(m, e),
           NEW number \in Nat, number = Cardinality(CallsAt(m, Len(m))),
           e.type = "text" => e.of \in Replies,
           e.type = "tool_use" => e.of = number + 1,
           e.type = "tool_result" => /\ e.of \in k + 1 .. number /\ ~HasNumber(m, e.of)
                                     /\ \A d \in k + 1 .. number : ~HasNumber(m, d) => e.of <= d
    PROVE  GoodMessages(w, k)
<1>1. /\ m \in Seq(MsgTypes) /\ Len(m) <= MaxShown /\ SaysReplies(m) /\ NumbersCalls(m) /\ NumbersResults(m, k)
      /\ k \in 0 .. number
  BY DEF GoodMessages
<1>2. PICK N \in Nat : N = Len(m) /\ DOMAIN m = 1 .. N
  BY <1>1
<1>3. /\ w \in Seq(MsgTypes) /\ Len(w) = N + 1 /\ DOMAIN w = (1 .. N) \cup {N + 1}
      /\ w[N + 1] = e /\ \A i \in 1 .. N : w[i] = m[i] /\ CallsAt(w, i) = CallsAt(m, i)
      /\ e.type = "tool_use" => Cardinality(CallsAt(w, N + 1)) = number + 1
      /\ e.type # "tool_use" => Cardinality(CallsAt(w, N + 1)) = number
  <2>1. w \in Seq(MsgTypes) /\ Len(w) = N + 1 /\ DOMAIN w = 1 .. N + 1 /\ w[N + 1] = e /\ \A i \in 1 .. N : w[i] = m[i]
    BY <1>1, <1>2
  <2>2. 1 .. N + 1 = (1 .. N) \cup {N + 1}
    OBVIOUS
  <2>3. ASSUME NEW i \in 0 .. N PROVE CallsAt(w, i) = CallsAt(m, i)
    <3>1. 1 .. i \subseteq 1 .. N
      OBVIOUS
    <3> QED
      BY <2>1, <3>1 DEF CallsAt
  <2>4. CallsAt(w, N) = CallsAt(m, N) /\ \A i \in 1 .. N : CallsAt(w, i) = CallsAt(m, i)
    <3>1. N \in 0 .. N /\ \A i \in 1 .. N : i \in 0 .. N
      OBVIOUS
    <3> QED
      BY <2>3, <3>1
  <2>5. /\ e.type = "tool_use" => Cardinality(CallsAt(w, N + 1)) = Cardinality(CallsAt(w, N)) + 1
        /\ e.type # "tool_use" => CallsAt(w, N + 1) = CallsAt(w, N)
    <3>1. w[N + 1].type = e.type
      BY <2>1
    <3>2. /\ w[N + 1].type = "tool_use" => Cardinality(CallsAt(w, N + 1)) = Cardinality(CallsAt(w, N)) + 1
          /\ w[N + 1].type # "tool_use" => CallsAt(w, N + 1) = CallsAt(w, N)
      BY ZenonT(40), CallsNext
    <3> QED
      BY <3>1, <3>2
  <2>6. Cardinality(CallsAt(w, N)) = number
    BY <1>2, <2>4
  <2>7. /\ e.type = "tool_use" => Cardinality(CallsAt(w, N + 1)) = number + 1
        /\ e.type # "tool_use" => Cardinality(CallsAt(w, N + 1)) = number
    BY <2>5, <2>6
  <2> QED
    BY <2>1, <2>2, <2>4, <2>7
<1>4. Len(w) <= MaxShown /\ k \in 0 .. Cardinality(CallsAt(w, Len(w)))
  BY <1>1, <1>2, <1>3, TranscriptAssumption
<1>5. SaysReplies(w)
  BY <1>1, <1>2, <1>3 DEF SaysReplies
<1>6. NumbersCalls(w)
  <2>1. ASSUME NEW i \in 1 .. N, w[i].type = "tool_use" PROVE w[i].of = Cardinality(CallsAt(w, i))
    BY <1>1, <1>2, <1>3, <2>1 DEF NumbersCalls
  <2>2. ASSUME w[N + 1].type = "tool_use" PROVE w[N + 1].of = Cardinality(CallsAt(w, N + 1))
    BY <1>3, <2>2
  <2>3. ASSUME NEW i \in DOMAIN w, w[i].type = "tool_use" PROVE w[i].of = Cardinality(CallsAt(w, i))
    <3>1. i \in 1 .. N \/ i = N + 1
      BY <1>3
    <3>2. CASE i \in 1 .. N
      BY <2>1, <2>3, <3>2
    <3>3. CASE i = N + 1
      BY <2>2, <2>3, <3>3
    <3> QED
      BY <3>1, <3>2, <3>3
  <2> QED
    BY <2>3 DEF NumbersCalls
<1>7. PICK p \in Seq(1 .. N) : /\ p = ResultsOf(m)
                               /\ e.type # "tool_result" => ResultsOf(w) = p
                               /\ e.type = "tool_result" => ResultsOf(w) = Append(p, N + 1)
  BY ZenonT(40), <1>1, <1>2, ResultsNext
<1>8. PICK L \in Nat : L = Len(p) /\ DOMAIN p = 1 .. L /\ \A n \in 1 .. L : p[n] \in 1 .. N
  OBVIOUS
<1>9. \A n \in 1 .. L : w[p[n]] = m[p[n]]
  BY <1>3, <1>8
<1>10. \A c : HasNumber(m, c) <=> \E n \in 1 .. L : m[p[n]].of = c
  BY <1>7, <1>8 DEF HasNumber
<1>11. NumbersResults(w, k)
  <2>1. CASE e.type # "tool_result"
    <3>1. ASSUME NEW c PROVE HasNumber(w, c) <=> HasNumber(m, c)
      <4>1. HasNumber(w, c) <=> \E n \in 1 .. L : w[p[n]].of = c
        BY <1>7, <1>8, <2>1 DEF HasNumber
      <4> QED
        BY <1>9, <1>10, <4>1
    <3>2. (\A c \in 1 .. k : HasNumber(m, c)) => \A n \in 1 .. L : m[p[n]].of = n
      BY <1>1, <1>7, <1>8 DEF NumbersResults
    <3>3. NumbersResults(w, k) <=> ((\A c \in 1 .. k : HasNumber(w, c)) => \A n \in 1 .. L : w[p[n]].of = n)
      BY <1>7, <1>8, <2>1 DEF NumbersResults
    <3> QED
      BY <1>9, <3>1, <3>2, <3>3
  <2>2. CASE e.type = "tool_result"
    <3>1. PICK q \in Seq(1 .. N + 1) : q = Append(p, N + 1) /\ q = ResultsOf(w)
      <4>1. p \in Seq(1 .. N + 1) /\ N + 1 \in 1 .. N + 1
        BY <1>8
      <4>2. Append(p, N + 1) \in Seq(1 .. N + 1)
        BY <4>1
      <4> QED
        BY <1>7, <2>2, <4>2
    <3>2. DOMAIN q = 1 .. L + 1 /\ q[L + 1] = N + 1 /\ \A n \in 1 .. L : q[n] = p[n]
      BY <1>8, <3>1
    <3>3. 1 .. L + 1 = (1 .. L) \cup {L + 1}
      OBVIOUS
    <3>4. ASSUME NEW c PROVE HasNumber(w, c) <=> HasNumber(m, c) \/ c = e.of
      <4>1. HasNumber(w, c) <=> \E n \in 1 .. L + 1 : w[q[n]].of = c
        BY <3>1, <3>2 DEF HasNumber
      <4>2. w[q[L + 1]].of = e.of /\ \A n \in 1 .. L : w[q[n]].of = m[p[n]].of
        BY <1>3, <1>9, <3>2
      <4>3. (\E n \in 1 .. L + 1 : w[q[n]].of = c) <=> (\E n \in 1 .. L : w[q[n]].of = c) \/ w[q[L + 1]].of = c
        <5>1. PICK I : I = 1 .. L
          OBVIOUS
        <5>2. (\E n \in I \cup {L + 1} : w[q[n]].of = c) <=> (\E n \in I : w[q[n]].of = c) \/ w[q[L + 1]].of = c
          OBVIOUS
        <5> QED
          BY <3>3, <5>1, <5>2
      <4>4. (\E n \in 1 .. L : w[q[n]].of = c) <=> HasNumber(m, c)
        <5>1. \A n \in 1 .. L : w[q[n]].of = c <=> m[p[n]].of = c
          BY <4>2
        <5> QED
          BY <1>10, <5>1
      <4> QED
        BY <4>1, <4>2, <4>3, <4>4
    <3>5. SUFFICES ASSUME \A c \in 1 .. k : HasNumber(w, c) PROVE \A n \in 1 .. L + 1 : w[q[n]].of = n
      BY <3>1, <3>2 DEF NumbersResults
    <3>6. PICK a \in k + 1 .. number : a = e.of /\ ~HasNumber(m, a) /\ \A d \in k + 1 .. number : ~HasNumber(m, d) => a <= d
      BY <2>2
    <3>7. \A c \in 1 .. k : HasNumber(m, c)
      BY <1>1, <3>4, <3>5, <3>6
    <3>8. \A n \in 1 .. L : m[p[n]].of = n
      BY <1>1, <1>7, <1>8, <3>7 DEF NumbersResults
    <3>9. ASSUME NEW c \in Nat PROVE HasNumber(m, c) <=> c \in 1 .. L
      <4>1. HasNumber(m, c) <=> \E n \in 1 .. L : m[p[n]].of = c
        BY <1>10
      <4>2. HasNumber(m, c) <=> \E n \in 1 .. L : n = c
        BY <3>8, <4>1
      <4> QED
        BY <4>2
    <3>10. k <= L
      <4>1. CASE k = 0
        BY <4>1
      <4>2. CASE k # 0
        <5>1. k \in 1 .. k /\ k \in Nat
          BY <1>1, <4>2
        <5> QED
          BY <3>7, <3>9, <5>1
      <4> QED
        BY <4>1, <4>2
    <3>11. a \notin 1 .. L /\ a \in Nat
      BY <1>1, <3>6, <3>9
    <3>12. L + 1 \in k + 1 .. number /\ L + 1 \in Nat /\ L + 1 \notin 1 .. L
      BY <1>1, <3>6, <3>10, <3>11
    <3>13. a <= L + 1
      BY <3>6, <3>9, <3>12
    <3>14. a = L + 1
      <4>1. a >= 1
        BY <1>1
      <4> QED
        BY <3>11, <3>13, <4>1
    <3> QED
      BY <1>3, <1>9, <3>2, <3>3, <3>6, <3>8, <3>14
  <2> QED
    BY <2>1, <2>2
<1> QED
  BY <1>3, <1>4, <1>5, <1>6, <1>11 DEF GoodMessages

\* A run begins after all the calls made.
LEMMA GoodLater ==
    ASSUME NEW m, NEW k, GoodMessages(m, k), NEW number \in Nat, number = Cardinality(CallsAt(m, Len(m)))
    PROVE  GoodMessages(m, number)
<1>1. k \in 0 .. number /\ NumbersResults(m, k)
  BY DEF GoodMessages
<1>2. 1 .. k \subseteq 1 .. number
  BY <1>1
<1>3. NumbersResults(m, number)
  BY <1>1, <1>2 DEF NumbersResults
<1>4. number \in 0 .. number
  OBVIOUS
<1> QED
  BY <1>3, <1>4 DEF GoodMessages

LEMMA TranscriptBegins == TranscriptInit => TranscriptInv
<1> SUFFICES ASSUME TranscriptInit PROVE TranscriptInv
  OBVIOUS
<1>0. <<>> \in Seq(MsgTypes)
  OBVIOUS
<1>1. PICK m \in Seq(MsgTypes) : m = <<>>
  BY <1>0
<1>2. DOMAIN m = {} /\ Len(m) = 0
  BY <1>1
<1>3. CallsAt(m, Len(m)) = {} /\ ResultsOf(m) = <<>>
  <2>1. Numbered(m) = <<>>
    BY <1>1 DEF Numbered
  <2> QED
    BY <1>2, <2>1, PickedEmpty DEF CallsAt, ResultsOf
<1>4. 0 = Cardinality(CallsAt(m, Len(m)))
  BY <1>3, FS_EmptySet
<1>5. GoodMessages(m, 0)
  <2>1. SaysReplies(m) /\ NumbersCalls(m)
    BY <1>2 DEF SaysReplies, NumbersCalls
  <2>2. NumbersResults(m, 0)
    BY <1>3 DEF NumbersResults
  <2> QED
    BY <1>2, <1>4, <2>1, <2>2, TranscriptAssumption DEF GoodMessages
<1>6. PICK e \in MsgTypes : e = Msg("user", 0) /\ e.type = "user"
  <2>1. "user" \in MessageTypes /\ 0 \in Nat
    BY TypesNamed
  <2> QED
    BY <2>1, MsgTyped
<1>7. PICK w : w = Append(m, e)
  OBVIOUS
<1>8. messages = w /\ runFrom = 0 /\ isRunning = TRUE
  BY <1>1, <1>6, <1>7 DEF TranscriptInit
<1>9. Len(m) < MaxShown
  BY <1>2, TranscriptAssumption
<1>10. GoodMessages(w, 0)
  BY <1>4, <1>5, <1>6, <1>7, <1>9, GoodNext
<1> QED
  BY <1>8, <1>10 DEF TranscriptInv

LEMMA TranscriptKeep == TranscriptInv /\ [TranscriptNext]_transcriptVars => TranscriptInv'
<1> SUFFICES ASSUME TranscriptInv, [TranscriptNext]_transcriptVars PROVE TranscriptInv'
  OBVIOUS
<1>0. PICK number \in Nat : number = Made
  BY InvParts
<1>1. PICK m, k : m = messages /\ k = runFrom /\ number = Made
  BY <1>0
<1>2. GoodMessages(m, k) /\ isRunning \in BOOLEAN /\ number = Cardinality(CallsAt(m, Len(m)))
  BY <1>1, InvParts DEF TranscriptInv
<1>3. GoodMessages(m, number)
  BY <1>2, GoodLater
<1>4. SUFFICES GoodMessages(messages', runFrom') /\ isRunning' \in BOOLEAN
  BY DEF TranscriptInv
<1>5. m \in Seq(MsgTypes) /\ k \in 0 .. number
  BY <1>2 DEF GoodMessages
\* Messages that neither say, call nor answer.
<1>6. ASSUME NEW type \in {"user", "plan", "result", "error"}, Adds(type, 0), NEW j \in {k, number}
      PROVE  GoodMessages(messages', j)
  <2>1. PICK e \in MsgTypes : e = Msg(type, 0) /\ e.type = type
    BY MsgTyped, TypesNamed
  <2>2. messages' = Append(m, e) /\ Len(m) < MaxShown
    BY <1>1, <1>6, <2>1 DEF Adds
  <2>3. PICK w : w = Append(m, e)
    OBVIOUS
  <2>4. GoodMessages(m, j)
    BY <1>2, <1>3
  <2>5. e.type # "text" /\ e.type # "tool_use" /\ e.type # "tool_result"
    BY <2>1
  <2>6. GoodMessages(w, j)
    BY <1>2, <2>2, <2>3, <2>4, <2>5, GoodNext
  <2> QED
    BY <2>2, <2>3, <2>6
<1>7. CASE Asks
  BY <1>1, <1>6, <1>7 DEF Asks, RunBegins
<1>8. CASE Approves
  BY <1>1, <1>3, <1>8 DEF Approves, RunBegins
<1>9. CASE Says
  <2>1. PICK r \in Replies : Adds("text", r)
    BY <1>9 DEF Says
  <2>2. PICK e \in MsgTypes : e = Msg("text", r) /\ e.type = "text" /\ e.of = r
    <3>1. r \in Nat
      BY TranscriptAssumption
    <3> QED
      BY <3>1, MsgTyped, TypesNamed
  <2>3. PICK w : w = Append(m, e)
    OBVIOUS
  <2>4. messages' = w /\ Len(m) < MaxShown
    BY <1>1, <2>1, <2>2, <2>3 DEF Adds
  <2>5. GoodMessages(w, k)
    BY <1>2, <2>2, <2>3, <2>4, GoodNext
  <2> QED
    BY <1>1, <1>2, <1>9, <2>4, <2>5 DEF Says
<1>10. CASE Calls
  <2>2. PICK e \in MsgTypes : e = Msg("tool_use", number + 1) /\ e.type = "tool_use" /\ e.of = number + 1
    BY MsgTyped, TypesNamed
  <2>3. PICK w : w = Append(m, e)
    OBVIOUS
  <2>4. messages' = w /\ Len(m) < MaxShown
    BY <1>1, <1>10, <2>2, <2>3 DEF Calls, Adds
  <2>5. GoodMessages(w, k)
    BY <1>2, <2>2, <2>3, <2>4, GoodNext
  <2> QED
    BY <1>1, <1>2, <1>10, <2>4, <2>5 DEF Calls
<1>11. CASE ResultComes
  <2>1. Open = {c \in k + 1 .. number : ~HasNumber(m, c)}
    <3>1. \A c \in k + 1 .. number : HasResult(c) <=> HasNumber(m, c)
      <4>1. \A c \in k + 1 .. number : c \in Nat
        BY <1>5
      <4> QED
        BY <1>1, <1>5, <4>1, AnswersIs DEF HasResult, HasIn
    <3> QED
      BY <1>1, <3>1 DEF Open
  <2>2. PICK a : a = CHOOSE c \in Open : \A d \in Open : c <= d
    OBVIOUS
  <2>3. a \in Open /\ \A d \in Open : a <= d
    <3>1. PICK O : O = Open
      OBVIOUS
    <3>2. O \subseteq Nat /\ O # {}
      BY <1>5, <1>11, <2>1, <3>1 DEF ResultComes
    <3>3. \E c \in O : \A d \in O : c <= d
      BY <3>2, LeastNat
    <3> QED
      BY <2>2, <3>1, <3>3
  <2>4. a \in Nat
    BY <1>5, <2>1, <2>3
  <2>5. PICK e \in MsgTypes : e = Msg("tool_result", a) /\ e.type = "tool_result" /\ e.of = a
    BY <2>4, MsgTyped, TypesNamed
  <2>6. PICK w : w = Append(m, e)
    OBVIOUS
  <2>7. messages' = w /\ Len(m) < MaxShown
    BY <1>1, <1>11, <2>2, <2>5, <2>6 DEF ResultComes, Adds
  <2>8. /\ e.of \in k + 1 .. number /\ ~HasNumber(m, e.of)
        /\ \A d \in k + 1 .. number : ~HasNumber(m, d) => e.of <= d
    BY <2>1, <2>3, <2>5
  <2>9. GoodMessages(w, k)
    BY <1>2, <2>5, <2>6, <2>7, <2>8, GoodNext
  <2> QED
    BY <1>1, <1>2, <1>11, <2>7, <2>9 DEF ResultComes
<1>12. CASE Plans
  BY <1>1, <1>6, <1>12 DEF Plans, RunOver
<1>13. CASE Summarises
  BY <1>1, <1>6, <1>13 DEF Summarises, RunOver
<1>14. CASE FailsToAnswer
  BY <1>1, <1>6, <1>14 DEF FailsToAnswer, RunOver
<1>15. CASE Stops
  BY <1>1, <1>2, <1>15 DEF Stops, RunOver
<1>16. CASE UNCHANGED transcriptVars
  BY <1>1, <1>2, <1>16 DEF transcriptVars
<1> QED
  BY <1>7, <1>8, <1>9, <1>10, <1>11, <1>12, <1>13, <1>14, <1>15, <1>16 DEF TranscriptNext

\* The page tells all of a conversation in order, each call with its own
\* result as long as every run got all of its own, and only the last group
\* may be told to be under way.
THEOREM TranscriptHolds == TranscriptSpec => [](TranscriptTypeOK /\ PageTellsAll /\ CallsHaveTheirResults /\ LastGroupRuns)
<1>1. TranscriptInit => TranscriptInv
  BY TranscriptBegins
<1>2. TranscriptInv /\ [TranscriptNext]_transcriptVars => TranscriptInv'
  BY TranscriptKeep
<1>3. TranscriptInv => TranscriptTypeOK /\ PageTellsAll /\ CallsHaveTheirResults /\ LastGroupRuns
  BY TranscriptShows, InvParts
<1> QED
  BY <1>1, <1>2, <1>3, PTL DEF TranscriptSpec
=============================================================================
