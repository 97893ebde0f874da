------------------------------ MODULE SdkProofs -------------------------------
(***************************************************************************)
(* Proofs about the components of the TypeScript SDK, its hooks apart, for *)
(* every value of their constants: the registry of skills, the stores of   *)
(* the tools, the sessions, the file cache, the conversion of messages for *)
(* the provider with the retries, and the agent. The lemmas about loops    *)
(* are those of PageProofs.                                                *)
(***************************************************************************)
EXTENDS SdkSkills, SdkTools, SdkSessions, SdkCache, SdkWire, SdkEngine, PageProofs,
        FiniteSetTheorems, TLAPS

-----------------------------------------------------------------------------
(* SdkSkills: the aliases of an uncontested skill are its own.             *)

\* A skill's type, an alias map's.
SkillRecords == [aliases : SUBSET SkillNames, enabled : BOOLEAN]

\* What there is of an uncontested skill: all its aliases lead to it, no other
\* alias does, and no registered skill has one of them too.
OwnAliases(n) ==
    /\ \A a \in skills[n].aliases : a \in DOMAIN aliases /\ aliases[a] = n
    /\ \A a \in DOMAIN aliases : aliases[a] = n => a \in skills[n].aliases
    /\ \A m \in DOMAIN skills : m # n => skills[m].aliases \cap skills[n].aliases = {}

SkillsInv ==
    /\ SkillsTypeOK
    /\ \A n \in SkillNames \ contested :
         IF n \in DOMAIN skills THEN OwnAliases(n) ELSE \A a \in DOMAIN aliases : aliases[a] # n

LEMMA SkillsTypeStep ==
    ASSUME MaxSkillCalls \in Nat, SkillsTypeOK, SkillsNext PROVE SkillsTypeOK'
<1>1. CASE RegisterSkill
  <2>1. PICK x \in SkillNames, as \in SUBSET SkillNames, on \in BOOLEAN :
         /\ skills' = [m \in DOMAIN skills \cup {x} |-> IF m = x THEN [aliases |-> as, enabled |-> on] ELSE skills[m]]
         /\ aliases' = [a \in DOMAIN aliases \cup as |-> IF a \in as THEN x ELSE aliases[a]]
         /\ LET sharing == {m \in DOMAIN skills \ {x} : skills[m].aliases \cap as # {}}
            IN contested' = contested \cup ({x} \cap DOMAIN skills) \cup sharing
                              \cup (IF sharing = {} THEN {} ELSE {x})
    BY <1>1 DEF RegisterSkill
  <2>2. DOMAIN skills' \subseteq SkillNames /\ contested' \subseteq SkillNames
    BY <2>1 DEF SkillsTypeOK
  <2>3. \A n \in DOMAIN skills' : skills'[n].aliases \subseteq SkillNames /\ skills'[n].enabled \in BOOLEAN
    BY <2>1 DEF SkillsTypeOK
  <2>4. DOMAIN aliases' \subseteq SkillNames /\ \A a \in DOMAIN aliases' : aliases'[a] \in SkillNames
    BY <2>1 DEF SkillsTypeOK
  <2>5. skillCalls' \in 0 .. MaxSkillCalls
    BY <1>1 DEF RegisterSkill, SkillCall, SkillsTypeOK
  <2> QED
    BY <2>2, <2>3, <2>4, <2>5 DEF SkillsTypeOK
<1>2. CASE UnregisterSkill
  BY <1>2 DEF UnregisterSkill, SkillCall, SkillsTypeOK, AliasesWithout, Restrict
<1>3. CASE ClearSkills
  BY <1>3 DEF ClearSkills, SkillCall, SkillsTypeOK
<1> QED
  BY <1>1, <1>2, <1>3 DEF SkillsNext

LEMMA SkillsStart == ASSUME MaxSkillCalls \in Nat, SkillsInit PROVE SkillsInv
  BY DEF SkillsInit, SkillsInv, SkillsTypeOK

LEMMA RegisterKeepsAliases ==
    ASSUME SkillsInv, RegisterSkill, NEW n \in SkillNames \ contested'
    PROVE  IF n \in DOMAIN skills' THEN OwnAliases(n)' ELSE \A a \in DOMAIN aliases' : aliases'[a] # n
<1> PICK x \in SkillNames, as \in SUBSET SkillNames, on \in BOOLEAN :
         /\ skills' = [m \in DOMAIN skills \cup {x} |-> IF m = x THEN [aliases |-> as, enabled |-> on] ELSE skills[m]]
         /\ aliases' = [a \in DOMAIN aliases \cup as |-> IF a \in as THEN x ELSE aliases[a]]
         /\ LET sharing == {m \in DOMAIN skills \ {x} : skills[m].aliases \cap as # {}}
            IN contested' = contested \cup ({x} \cap DOMAIN skills) \cup sharing
                              \cup (IF sharing = {} THEN {} ELSE {x})
  BY DEF RegisterSkill
<1> DEFINE sharing == {m \in DOMAIN skills \ {x} : skills[m].aliases \cap as # {}}
<1>1. n \notin contested /\ n \notin sharing /\ (n = x => n \notin DOMAIN skills /\ sharing = {})
  OBVIOUS
<1>2. CASE n = x
  <2>1. \A a \in DOMAIN aliases : aliases[a] # n
    BY <1>1, <1>2 DEF SkillsInv
  <2>2. \A m \in DOMAIN skills : m # n => skills[m].aliases \cap as = {}
    BY <1>1, <1>2
  <2> QED
    BY <1>2, <2>1, <2>2 DEF OwnAliases
<1>3. CASE n # x /\ n \in DOMAIN skills
  <2>1. OwnAliases(n) /\ skills[n].aliases \cap as = {}
    BY <1>1, <1>3 DEF SkillsInv
  <2>2. \A a \in DOMAIN aliases' : aliases'[a] = n => a \notin as /\ aliases[a] = n
    BY <1>3
  <2> QED
    BY <1>3, <2>1, <2>2 DEF OwnAliases
<1>4. CASE n # x /\ n \notin DOMAIN skills
  BY <1>1, <1>4 DEF SkillsInv
<1> QED
  BY <1>2, <1>3, <1>4

LEMMA UnregisterKeepsAliases ==
    ASSUME SkillsInv, UnregisterSkill, NEW n \in SkillNames \ contested'
    PROVE  IF n \in DOMAIN skills' THEN OwnAliases(n)' ELSE \A a \in DOMAIN aliases' : aliases'[a] # n
<1> PICK x \in DOMAIN skills :
         /\ aliases' = [a \in DOMAIN aliases \ skills[x].aliases |-> aliases[a]]
         /\ skills' = [m \in DOMAIN skills \ {x} |-> skills[m]]
  BY DEF UnregisterSkill, AliasesWithout, Restrict
<1>1. n \in SkillNames \ contested
  BY DEF UnregisterSkill
<1>2. CASE n = x
  BY <1>1, <1>2 DEF SkillsInv, OwnAliases
<1>3. CASE n # x /\ n \in DOMAIN skills
  <2>1. OwnAliases(n) /\ skills[x].aliases \cap skills[n].aliases = {}
    BY <1>1, <1>3 DEF SkillsInv, OwnAliases
  <2> QED
    BY <1>3, <2>1 DEF OwnAliases
<1>4. CASE n # x /\ n \notin DOMAIN skills
  BY <1>1, <1>4 DEF SkillsInv
<1> QED
  BY <1>2, <1>3, <1>4

LEMMA SkillsStep ==
    ASSUME MaxSkillCalls \in Nat, SkillsInv, [SkillsNext]_skillVars PROVE SkillsInv'
<1>1. CASE UNCHANGED skillVars
  BY <1>1 DEF skillVars, SkillsInv, SkillsTypeOK, OwnAliases
<1>2. CASE SkillsNext
  <2>1. SkillsTypeOK'
    BY <1>2, SkillsTypeStep DEF SkillsInv
  <2>2. CASE RegisterSkill
    BY <2>1, <2>2, RegisterKeepsAliases DEF SkillsInv
  <2>3. CASE UnregisterSkill
    BY <2>1, <2>3, UnregisterKeepsAliases DEF SkillsInv
  <2>4. CASE ClearSkills
    BY <2>1, <2>4 DEF SkillsInv, ClearSkills
  <2> QED
    BY <1>2, <2>2, <2>3, <2>4 DEF SkillsNext
<1> QED
  BY <1>1, <1>2

LEMMA SkillsAreFoundThen == ASSUME SkillsInv PROVE SkillsAreFound
<1> SUFFICES ASSUME NEW n \in SkillNames \ contested
    PROVE  /\ n \in DOMAIN skills => GetSkill(n) = n /\ (SkillRuns(n) <=> skills[n].enabled)
           /\ n \in DOMAIN skills => \A a \in skills[n].aliases \ DOMAIN skills : GetSkill(a) = n
           /\ n \notin DOMAIN skills => \A a \in DOMAIN aliases : aliases[a] # n
  BY DEF SkillsAreFound
<1>1. CASE n \in DOMAIN skills
  <2>1. GetSkill(n) = n /\ n # NoSkill
    BY <1>1, NoSkillAssumption DEF GetSkill
  <2>2. SkillRuns(n) <=> skills[n].enabled
    BY <2>1 DEF SkillRuns
  <2>3. ASSUME NEW a \in skills[n].aliases \ DOMAIN skills PROVE GetSkill(a) = n
    BY <1>1, <2>3 DEF GetSkill, SkillsInv, OwnAliases
  <2> QED
    BY <1>1, <2>1, <2>2, <2>3
<1>2. CASE n \notin DOMAIN skills
  BY <1>2 DEF SkillsInv
<1> QED
  BY <1>1, <1>2

\* The SDK's registry: over every order of registrations and removals, an
\* uncontested skill is found under its name and aliases, and not once it is gone.
THEOREM SkillsAlwaysFound == SkillsSpec => [](SkillsTypeOK /\ SkillsAreFound)
<1>1. SkillsInit => SkillsInv
  BY SkillsAssumption, SkillsStart
<1>2. SkillsInv /\ [SkillsNext]_skillVars => SkillsInv'
  BY SkillsAssumption, SkillsStep
<1>3. SkillsInv => SkillsTypeOK /\ SkillsAreFound
  BY SkillsAreFoundThen DEF SkillsInv
<1> QED
  BY <1>1, <1>2, <1>3, PTL DEF SkillsSpec

-----------------------------------------------------------------------------
(* Sequences.                                                              *)

LEMMA WiderSeq == ASSUME NEW A, NEW B, A \subseteq B, NEW s \in Seq(A) PROVE s \in Seq(B)
<1>1. s \in [1 .. Len(s) -> B] /\ Len(s) \in Nat
  OBVIOUS
<1> QED
  BY <1>1

-----------------------------------------------------------------------------
(* SdkTools: stamps grow with the calls, and ids with the entries.         *)

\* What the model was told of an entry holds, unless the ids began anew.
KnownEntry(m) ==
    m.kind \in restarted \/ /\ m.id \in 1 .. counter[m.kind]
                            /\ m.id \in DOMAIN book[m.kind] => book[m.kind][m.id] = m.stamp

BookInv ==
    /\ toolCalls \in 0 .. MaxToolCalls /\ restarted \subseteq BookKinds
    /\ counter \in [BookKinds -> 0 .. toolCalls] /\ DOMAIN book = BookKinds
    /\ \A k \in BookKinds : DOMAIN book[k] \subseteq 1 .. counter[k] /\ \A i \in DOMAIN book[k] : book[k][i] \in Stamps
    /\ noted \subseteq [kind : BookKinds, id : Stamps, stamp : Stamps]
    /\ \A m \in noted : KnownEntry(m)
    /\ IdsKeepTheirMeaning

LEMMA BooksStay ==
    ASSUME MaxToolCalls \in Nat, BookInv, UNCHANGED bookVars, toolCalls' = toolCalls \/ Called PROVE BookInv'
<1>1. toolCalls' \in 0 .. MaxToolCalls /\ toolCalls <= toolCalls'
  BY DEF BookInv, Called
<1>2. counter' \in [BookKinds -> 0 .. toolCalls']
  BY <1>1 DEF BookInv, bookVars
<1> QED
  BY <1>1, <1>2 DEF BookInv, bookVars, KnownEntry, IdsKeepTheirMeaning, Stamps

LEMMA CreateKeepsBooks ==
    ASSUME MaxToolCalls \in Nat, BookInv, CreateEntry PROVE BookInv'
<1>1. PICK k \in BookKinds :
         /\ book' = [book EXCEPT ![k] = [i \in DOMAIN @ \cup {NextId(k)} |-> IF i = NextId(k) THEN toolCalls' ELSE @[i]]]
         /\ counter' = [counter EXCEPT ![k] = @ + 1]
         /\ noted' = noted \cup {[kind |-> k, id |-> NextId(k), stamp |-> toolCalls']}
  BY DEF CreateEntry
<1> DEFINE id == counter[k] + 1
<1>2. /\ toolCalls' = toolCalls + 1 /\ toolCalls \in Nat /\ toolCalls' \in Stamps /\ toolCalls' <= MaxToolCalls
      /\ counter[k] \in 0 .. toolCalls /\ id \in Stamps /\ id \in 1 .. toolCalls' /\ id \notin DOMAIN book[k]
      /\ UNCHANGED <<hits, restarted>>
  BY DEF CreateEntry, BookInv, Called, Stamps
<1>3. /\ counter' = [counter EXCEPT ![k] = id]
      /\ DOMAIN book' = BookKinds
      /\ \A x \in BookKinds \ {k} : book'[x] = book[x]
      /\ book'[k] = [i \in DOMAIN book[k] \cup {id} |-> IF i = id THEN toolCalls' ELSE book[k][i]]
      /\ noted' = noted \cup {[kind |-> k, id |-> id, stamp |-> toolCalls']}
  BY <1>1 DEF BookInv, NextId
<1> HIDE DEF id
<1>4. counter' \in [BookKinds -> 0 .. toolCalls'] /\ counter'[k] = id /\ counter[k] < id
      /\ \A x \in BookKinds \ {k} : counter'[x] = counter[x]
  BY <1>2, <1>3 DEF BookInv, id
<1>5. ASSUME NEW x \in BookKinds
      PROVE  DOMAIN book'[x] \subseteq 1 .. counter'[x] /\ \A i \in DOMAIN book'[x] : book'[x][i] \in Stamps
  <2>1. CASE x = k
    <3>1. DOMAIN book[k] \subseteq 1 .. counter[k] /\ \A i \in DOMAIN book[k] : book[k][i] \in Stamps
      BY DEF BookInv
    <3>2. DOMAIN book'[k] \subseteq 1 .. id
      BY <1>2, <1>3, <1>4, <3>1
    <3> QED
      BY <1>2, <1>3, <1>4, <2>1, <3>1, <3>2
  <2>2. CASE x # k
    BY <1>3, <1>4, <2>2 DEF BookInv
  <2> QED
    BY <2>1, <2>2
<1>6. noted' \subseteq [kind : BookKinds, id : Stamps, stamp : Stamps]
  BY <1>2, <1>3 DEF BookInv
<1>7. ASSUME NEW m \in noted' PROVE KnownEntry(m)'
  <2>1. CASE m \in noted
    <3>1. KnownEntry(m) /\ m.kind \in BookKinds /\ m.id \in Stamps
      BY <2>1 DEF BookInv
    <3>2. CASE m.kind = k
      BY <1>2, <1>3, <1>4, <3>1, <3>2 DEF KnownEntry, Stamps
    <3>3. CASE m.kind # k
      BY <1>2, <1>3, <1>4, <3>1, <3>3 DEF KnownEntry
    <3> QED
      BY <3>2, <3>3
  <2>2. CASE m = [kind |-> k, id |-> id, stamp |-> toolCalls']
    BY <1>2, <1>3, <1>4, <2>2 DEF KnownEntry
  <2> QED
    BY <1>3, <2>1, <2>2
<1>8. toolCalls' \in 0 .. MaxToolCalls /\ restarted' \subseteq BookKinds /\ IdsKeepTheirMeaning'
  BY <1>2 DEF BookInv, IdsKeepTheirMeaning, Stamps
<1> QED
  BY <1>3, <1>4, <1>5, <1>6, <1>7, <1>8 DEF BookInv

LEMMA HitMeans == ASSUME BookInv, NEW m \in noted, hits' = Hit(m), restarted' = restarted PROVE IdsKeepTheirMeaning'
<1> SUFFICES ASSUME NEW h \in hits' PROVE h[1] \in restarted \/ h[2] = h[3]
  BY DEF IdsKeepTheirMeaning
<1>1. KnownEntry(m)
  BY DEF BookInv
<1>2. CASE h \in hits
  BY <1>2 DEF BookInv, IdsKeepTheirMeaning
<1>3. CASE m.id \in DOMAIN book[m.kind] /\ h = <<m.kind, m.stamp, book[m.kind][m.id]>>
  BY <1>1, <1>3 DEF KnownEntry
<1> QED
  BY <1>2, <1>3 DEF Hit

\* Entries go, the ids go on.
LEMMA FewerEntries ==
    ASSUME MaxToolCalls \in Nat, BookInv, Called, UNCHANGED <<counter, noted, restarted>>, IdsKeepTheirMeaning',
           DOMAIN book' = BookKinds,
           \A x \in BookKinds : /\ DOMAIN book'[x] \subseteq DOMAIN book[x]
                                /\ \A i \in DOMAIN book'[x] : book'[x][i] = book[x][i]
    PROVE  BookInv'
<1>1. toolCalls' \in 0 .. MaxToolCalls /\ counter' \in [BookKinds -> 0 .. toolCalls']
  BY DEF BookInv, Called
<1>2. \A k \in BookKinds : DOMAIN book'[k] \subseteq 1 .. counter'[k] /\ \A i \in DOMAIN book'[k] : book'[k][i] \in Stamps
  BY DEF BookInv
<1>3. ASSUME NEW m \in noted PROVE KnownEntry(m)'
  BY DEF BookInv, KnownEntry
<1> QED
  BY <1>1, <1>2, <1>3 DEF BookInv

LEMMA DeleteKeepsBooks ==
    ASSUME MaxToolCalls \in Nat, BookInv, DeleteEntry PROVE BookInv'
<1>1. PICK m \in noted :
         hits' = Hit(m) /\ book' = [book EXCEPT ![m.kind] = [i \in DOMAIN @ \ {m.id} |-> @[i]]]
  BY DEF DeleteEntry, Restrict
<1>2. m.kind \in BookKinds /\ Called /\ UNCHANGED <<counter, noted, restarted>>
  BY DEF DeleteEntry, BookInv
<1>3. IdsKeepTheirMeaning'
  BY <1>1, <1>2, HitMeans
<1>4. DOMAIN book' = BookKinds /\ \A x \in BookKinds : /\ DOMAIN book'[x] \subseteq DOMAIN book[x]
                                                     /\ \A i \in DOMAIN book'[x] : book'[x][i] = book[x][i]
  BY <1>1, <1>2 DEF BookInv
<1> QED
  BY <1>2, <1>3, <1>4, FewerEntries

LEMMA ClearTodoKeepsBooks ==
    ASSUME MaxToolCalls \in Nat, BookInv, ClearTodoList PROVE BookInv'
<1>1. DOMAIN book' = BookKinds /\ \A x \in BookKinds : /\ DOMAIN book'[x] \subseteq DOMAIN book[x]
                                                     /\ \A i \in DOMAIN book'[x] : book'[x][i] = book[x][i]
  BY DEF BookInv, ClearTodoList
<1>2. Called /\ UNCHANGED <<counter, noted, restarted, hits>>
  BY DEF ClearTodoList
<1>3. IdsKeepTheirMeaning'
  BY <1>2 DEF BookInv, IdsKeepTheirMeaning
<1> QED
  BY <1>1, <1>2, <1>3, FewerEntries

LEMMA ClearKeepsBooks ==
    ASSUME MaxToolCalls \in Nat, BookInv, ClearEntries PROVE BookInv'
<1>1. PICK k \in BookKinds : /\ book' = [book EXCEPT ![k] = <<>>] /\ counter' = [counter EXCEPT ![k] = 0]
                             /\ restarted' = restarted \cup {k}
  BY DEF ClearEntries
<1>2. UNCHANGED <<noted, hits>> /\ toolCalls' \in 0 .. MaxToolCalls /\ toolCalls' = toolCalls + 1 /\ toolCalls \in Nat
  BY DEF ClearEntries, BookInv, Called
<1>3. counter' \in [BookKinds -> 0 .. toolCalls']
  BY <1>1, <1>2 DEF BookInv
<1>4. \A x \in BookKinds : DOMAIN book'[x] \subseteq 1 .. counter'[x] /\ \A i \in DOMAIN book'[x] : book'[x][i] \in Stamps
  BY <1>1 DEF BookInv
<1>5. ASSUME NEW m \in noted PROVE KnownEntry(m)'
  BY <1>1 DEF BookInv, KnownEntry
<1> QED
  BY <1>1, <1>2, <1>3, <1>4, <1>5 DEF BookInv, IdsKeepTheirMeaning

LEMMA BookStep ==
    ASSUME MaxToolCalls \in Nat, BookInv, [ToolsNext]_toolVars PROVE BookInv'
<1>1. CASE UNCHANGED toolVars
  BY <1>1, BooksStay DEF toolVars, bookVars
<1>2. CASE CreateEntry
  BY <1>2, CreateKeepsBooks
<1>3. CASE UpdateEntry
  <2>1. PICK m \in noted : hits' = Hit(m)
    BY <1>3 DEF UpdateEntry
  <2>2. Called /\ UNCHANGED <<book, counter, noted, restarted>>
    BY <1>3 DEF UpdateEntry
  <2>3. IdsKeepTheirMeaning'
    BY <2>1, <2>2, HitMeans
  <2>4. DOMAIN book' = BookKinds /\ \A x \in BookKinds : /\ DOMAIN book'[x] \subseteq DOMAIN book[x]
                                                         /\ \A i \in DOMAIN book'[x] : book'[x][i] = book[x][i]
    BY <2>2 DEF BookInv
  <2> QED
    BY <2>2, <2>3, <2>4, FewerEntries
<1>4. CASE DeleteEntry
  BY <1>4, DeleteKeepsBooks
<1>5. CASE ClearTodoList
  BY <1>5, ClearTodoKeepsBooks
<1>6. CASE ClearEntries
  BY <1>6, ClearKeepsBooks
<1>7. CASE SendMessage \/ ReadMailbox \/ ClearMailboxes \/ EnterWorktree \/ ExitWorktree
  <2>1. Called /\ UNCHANGED bookVars
    BY <1>7 DEF SendMessage, ReadMailbox, ClearMailboxes, EnterWorktree, ExitWorktree
  <2> QED
    BY <2>1, BooksStay
<1> QED
  BY <1>1, <1>2, <1>3, <1>4, <1>5, <1>6, <1>7 DEF ToolsNext

\* What was read and what is in the box, of an agent.
AllMail(n) == got[n] \o Box(n)
Increasing(s) == \A i, j \in 1 .. Len(s) : i < j => s[i] < s[j]

MailInv ==
    /\ toolCalls \in 0 .. MaxToolCalls
    /\ DOMAIN mail \subseteq Mates /\ \A n \in DOMAIN mail : mail[n] \in Seq(Stamps)
    /\ due \in [Mates -> SUBSET (1 .. toolCalls)] /\ got \in [Mates -> Seq(Stamps)]
    /\ \A n \in Mates : Range(AllMail(n)) = due[n] /\ Increasing(AllMail(n))

LEMMA AppendGrows ==
    ASSUME NEW s \in Seq(Nat), NEW x \in Nat, \A y \in Range(s) : y < x, Increasing(s)
    PROVE  Range(Append(s, x)) = Range(s) \cup {x} /\ Increasing(Append(s, x))
<1> DEFINE t == Append(s, x)
<1>1. Len(s) \in Nat /\ Len(t) = Len(s) + 1 /\ DOMAIN s = 1 .. Len(s) /\ DOMAIN t = 1 .. Len(t) /\ t[Len(s) + 1] = x
  OBVIOUS
<1>2. \A i \in 1 .. Len(s) : t[i] = s[i] /\ s[i] \in Nat /\ s[i] < x
  BY DEF Range
<1> HIDE DEF t
<1>3. Increasing(t)
  BY <1>1, <1>2 DEF Increasing
<1>4. Range(t) = Range(s) \cup {x}
  BY SMTT(20), <1>1, <1>2 DEF Range
<1> QED
  BY <1>3, <1>4 DEF t

LEMMA BoxTyped == ASSUME MailInv, NEW n \in Mates PROVE Box(n) \in Seq(Stamps) /\ AllMail(n) \in Seq(Stamps) /\ AllMail(n) \in Seq(Nat)
<1>1. Box(n) \in Seq(Stamps) /\ got[n] \in Seq(Stamps)
  BY DEF MailInv, Box
<1>2. AllMail(n) \in Seq(Stamps)
  BY <1>1 DEF AllMail
<1>3. Stamps \subseteq Nat
  BY DEF Stamps
<1>4. AllMail(n) \in Seq(Nat)
  BY <1>2, <1>3, WiderSeq
<1> QED
  BY <1>1, <1>2, <1>4

\* A message that none has yet comes last.
LEMMA DeliveryKeepsMail ==
    ASSUME MaxToolCalls \in Nat, MailInv, Called, NEW names \in SUBSET Mates, Delivered(names), UNCHANGED got
    PROVE  MailInv'
<1> DEFINE c == toolCalls + 1
<1>1. /\ toolCalls' = c /\ c \in Stamps /\ toolCalls \in Nat /\ c <= MaxToolCalls
      /\ mail' = [n \in DOMAIN mail \cup names |-> IF n \in names THEN Append(Box(n), c) ELSE mail[n]]
      /\ due' = [n \in Mates |-> IF n \in names THEN due[n] \cup {c} ELSE due[n]]
  BY DEF Delivered, Called, MailInv, Stamps
<1> HIDE DEF c
<1>2. DOMAIN mail' \subseteq Mates /\ \A n \in DOMAIN mail' : mail'[n] \in Seq(Stamps)
  BY <1>1, BoxTyped DEF MailInv
<1>3. due' \in [Mates -> SUBSET (1 .. toolCalls')]
  BY <1>1 DEF MailInv, c
<1>4. ASSUME NEW n \in Mates PROVE Range(AllMail(n)') = due'[n] /\ Increasing(AllMail(n)')
  <2>1. CASE n \in names
    <3>1. got[n] \in Seq(Stamps) /\ Box(n) \in Seq(Stamps)
      BY BoxTyped DEF MailInv
    <3>2. AllMail(n)' = got[n] \o Append(Box(n), c)
      BY <1>1, <2>1 DEF AllMail, Box
    <3>7. PICK g \in Seq(Stamps), box \in Seq(Stamps) : g = got[n] /\ box = Box(n)
      BY <3>1
    <3>8. c \in Stamps
      BY <1>1
    <3>9. g \o Append(box, c) = Append(g \o box, c)
      BY <3>8, ConcatAppends
    <3>3. AllMail(n)' = Append(AllMail(n), c)
      BY <3>2, <3>7, <3>9 DEF AllMail
    <3>4. \A y \in Range(AllMail(n)) : y < c
      BY <1>1 DEF MailInv, c
    <3>5. AllMail(n) \in Seq(Nat) /\ c \in Nat /\ Increasing(AllMail(n))
      BY BoxTyped, <1>1 DEF Stamps, MailInv
    <3>6. Range(Append(AllMail(n), c)) = Range(AllMail(n)) \cup {c} /\ Increasing(Append(AllMail(n), c))
      BY <3>4, <3>5, AppendGrows
    <3> QED
      BY <1>1, <2>1, <3>3, <3>6 DEF MailInv
  <2>2. CASE n \notin names
    <3>1. Box(n)' = Box(n)
      BY <1>1, <2>2 DEF Box
    <3>2. AllMail(n)' = AllMail(n)
      BY <3>1 DEF AllMail
    <3> QED
      BY <1>1, <2>2, <3>2 DEF MailInv
  <2> QED
    BY <2>1, <2>2
<1>5. toolCalls' \in 0 .. MaxToolCalls /\ got' \in [Mates -> Seq(Stamps)]
  BY <1>1 DEF MailInv, c
<1> QED
  BY <1>2, <1>3, <1>4, <1>5 DEF MailInv

LEMMA ReadKeepsMail == ASSUME MaxToolCalls \in Nat, MailInv, ReadMailbox PROVE MailInv'
<1>1. PICK n \in Mates :
         /\ got' = [got EXCEPT ![n] = @ \o Box(n)]
         /\ mail' = [m \in DOMAIN mail \cup {n} |-> IF m = n THEN <<>> ELSE mail[m]]
  BY DEF ReadMailbox, Emptied
<1>2. toolCalls' = toolCalls + 1 /\ toolCalls' \in 0 .. MaxToolCalls /\ UNCHANGED due /\ toolCalls \in Nat
  BY DEF ReadMailbox, Called, MailInv
<1>3. got[n] \in Seq(Stamps) /\ Box(n) \in Seq(Stamps) /\ AllMail(n) \in Seq(Stamps)
  BY BoxTyped DEF MailInv
<1>4. got' \in [Mates -> Seq(Stamps)] /\ got'[n] = AllMail(n)
  BY <1>1, <1>3 DEF MailInv, AllMail
<1>5. <<>> \in Seq(Stamps)
  OBVIOUS
<1>6. DOMAIN mail' \subseteq Mates /\ \A m \in DOMAIN mail' : mail'[m] \in Seq(Stamps)
  BY <1>1, <1>5 DEF MailInv
<1>7. due' \in [Mates -> SUBSET (1 .. toolCalls')]
  BY <1>2 DEF MailInv
<1>8. ASSUME NEW m \in Mates PROVE AllMail(m)' = AllMail(m)
  <2>1. CASE m = n
    <3>1. Box(n)' = <<>>
      BY <1>1 DEF Box
    <3> QED
      BY <1>3, <1>4, <2>1, <3>1 DEF AllMail
  <2>2. CASE m # n
    <3>1. Box(m)' = Box(m) /\ got'[m] = got[m]
      BY <1>1, <2>2 DEF Box, MailInv
    <3> QED
      BY <3>1 DEF AllMail
  <2> QED
    BY <2>1, <2>2
<1> QED
  BY <1>2, <1>4, <1>6, <1>7, <1>8 DEF MailInv

LEMMA ClearKeepsMail == ASSUME MaxToolCalls \in Nat, MailInv, ClearMailboxes PROVE MailInv'
<1>1. toolCalls' = toolCalls + 1 /\ toolCalls' \in 0 .. MaxToolCalls /\ toolCalls \in Nat
      /\ mail' = <<>> /\ due' = [n \in Mates |-> Range(got[n])] /\ UNCHANGED got
  BY DEF ClearMailboxes, Called, MailInv
<1>2. ASSUME NEW n \in Mates
      PROVE  /\ Range(got[n]) \subseteq 1 .. toolCalls /\ Increasing(got[n])
             /\ AllMail(n)' = got[n]
  <2>1. got[n] \in Seq(Stamps) /\ Box(n) \in Seq(Stamps) /\ Stamps \subseteq Nat
    BY BoxTyped DEF MailInv, Stamps
  <2>2. Box(n)' = <<>>
    BY <1>1 DEF Box
  <2>3. AllMail(n)' = got[n]
    BY <1>1, <2>1, <2>2 DEF AllMail
  <2>4. \A i \in 1 .. Len(got[n]) : AllMail(n)[i] = got[n][i] /\ i \in 1 .. Len(AllMail(n)) /\ i \in DOMAIN AllMail(n)
    BY <2>1 DEF AllMail
  <2>5. Increasing(got[n])
    BY <2>1, <2>4 DEF MailInv, Increasing
  <2>6. DOMAIN got[n] = 1 .. Len(got[n])
    BY <2>1
  <2>7. Range(got[n]) \subseteq Range(AllMail(n))
    BY <2>4, <2>6 DEF Range
  <2>8. Range(AllMail(n)) \subseteq 1 .. toolCalls
    BY DEF MailInv
  <2> QED
    BY <2>3, <2>5, <2>7, <2>8
<1>3. due' \in [Mates -> SUBSET (1 .. toolCalls')]
  BY <1>1, <1>2
<1>4. DOMAIN mail' \subseteq Mates /\ \A m \in DOMAIN mail' : mail'[m] \in Seq(Stamps)
  BY <1>1
<1>5. \A n \in Mates : Range(AllMail(n)') = due'[n] /\ Increasing(AllMail(n)')
  BY <1>1, <1>2
<1> QED
  BY <1>1, <1>3, <1>4, <1>5 DEF MailInv

LEMMA MailStays ==
    ASSUME MaxToolCalls \in Nat, MailInv, UNCHANGED mailVars, toolCalls' = toolCalls \/ Called PROVE MailInv'
<1>1. toolCalls' \in 0 .. MaxToolCalls /\ toolCalls <= toolCalls' /\ toolCalls \in Nat
  BY DEF MailInv, Called
<1>2. due' \in [Mates -> SUBSET (1 .. toolCalls')]
  BY <1>1 DEF MailInv, mailVars
<1>3. \A n \in Mates : AllMail(n)' = AllMail(n)
  BY DEF AllMail, Box, mailVars
<1> QED
  BY <1>1, <1>2, <1>3 DEF MailInv, mailVars

LEMMA MailStep ==
    ASSUME MaxToolCalls \in Nat, MailInv, [ToolsNext]_toolVars PROVE MailInv'
<1>1. CASE UNCHANGED toolVars
  BY <1>1, MailStays DEF toolVars, mailVars
<1>2. CASE SendMessage
  <2>1. PICK names \in SUBSET Mates : Delivered(names)
    BY <1>2 DEF SendMessage, MailInv
  <2>2. Called /\ UNCHANGED got
    BY <1>2 DEF SendMessage
  <2> QED
    BY <2>1, <2>2, DeliveryKeepsMail
<1>3. CASE ReadMailbox
  BY <1>3, ReadKeepsMail
<1>4. CASE ClearMailboxes
  BY <1>4, ClearKeepsMail
<1>5. CASE CreateEntry \/ UpdateEntry \/ DeleteEntry \/ ClearTodoList \/ ClearEntries \/ EnterWorktree \/ ExitWorktree
  <2>1. Called /\ UNCHANGED mailVars
    BY <1>5 DEF CreateEntry, UpdateEntry, DeleteEntry, ClearTodoList, ClearEntries, EnterWorktree, ExitWorktree
  <2> QED
    BY <2>1, MailStays
<1> QED
  BY <1>1, <1>2, <1>3, <1>4, <1>5 DEF ToolsNext

LEMMA MailThen == ASSUME MailInv PROVE MailOnceInOrder
<1> SUFFICES ASSUME NEW n \in Mates
             PROVE  Range(AllMail(n)) = due[n] /\ \A i, j \in DOMAIN AllMail(n) : i < j => AllMail(n)[i] < AllMail(n)[j]
  BY DEF MailOnceInOrder, AllMail
<1>1. DOMAIN AllMail(n) = 1 .. Len(AllMail(n))
  BY BoxTyped
<1> QED
  BY <1>1 DEF MailInv, Increasing

-----------------------------------------------------------------------------
(* Worktrees: a tree has a path and a branch of its own.                    *)

TreeInv ==
    /\ toolCalls \in 0 .. MaxToolCalls
    /\ trees \subseteq [path : 1 .. toolCalls, branch : Branches] /\ keptTrees \subseteq Stamps
    /\ worktrees \subseteq [id : Stamps, path : Stamps, branch : Branches]
    /\ branches \subseteq Branches
    /\ \A t, u \in trees : t.path = u.path \/ t.branch = u.branch => t = u
    /\ \A a, b \in worktrees : a.path = b.path => a = b
    /\ WorktreesTracked

LEMMA TreesStay ==
    ASSUME MaxToolCalls \in Nat, TreeInv, UNCHANGED treeVars, toolCalls' = toolCalls \/ Called PROVE TreeInv'
<1>1. toolCalls' \in 0 .. MaxToolCalls /\ toolCalls <= toolCalls' /\ toolCalls \in Nat
  BY DEF TreeInv, Called
<1>2. trees' \subseteq [path : 1 .. toolCalls', branch : Branches]
  BY <1>1 DEF TreeInv, treeVars
<1>3. WorktreesTracked'
  BY DEF TreeInv, WorktreesTracked, treeVars
<1> QED
  BY <1>1, <1>2, <1>3 DEF TreeInv, treeVars

LEMMA EnterKeepsTrees == ASSUME MaxToolCalls \in Nat, TreeInv, EnterWorktree PROVE TreeInv'
<1> DEFINE c == toolCalls + 1
<1>1. /\ toolCalls' = c /\ c \in Stamps /\ toolCalls \in Nat /\ c <= MaxToolCalls /\ c \in 0 .. MaxToolCalls
      /\ UNCHANGED keptTrees /\ 1 .. toolCalls \subseteq 1 .. c /\ 1 .. c \subseteq Stamps /\ c \in 1 .. c
  BY DEF EnterWorktree, Called, TreeInv, Stamps
<1> HIDE DEF c
<1>2. PICK b \in Branches, p \in {t.path : t \in trees} \cup {c}, works \in BOOLEAN :
         /\ branches' = branches \cup {b}
         /\ IF works /\ \A t \in trees : t.branch # b /\ t.path # p
              THEN /\ trees' = trees \cup {[path |-> p, branch |-> b]}
                   /\ worktrees' = worktrees \cup {[id |-> c, path |-> p, branch |-> b]}
              ELSE UNCHANGED <<trees, worktrees>>
  BY <1>1 DEF EnterWorktree
<1>3. branches' \subseteq Branches /\ branches \subseteq branches' /\ b \in branches'
  BY <1>2 DEF TreeInv
<1>4. p \in 1 .. c
  BY <1>1 DEF TreeInv
<1>5. trees \subseteq [path : 1 .. c, branch : Branches]
  BY <1>1 DEF TreeInv
<1>6. CASE UNCHANGED <<trees, worktrees>>
  <2>1. WorktreesTracked'
    BY <1>1, <1>3, <1>6 DEF TreeInv, WorktreesTracked
  <2> QED
    BY <1>1, <1>3, <1>5, <1>6, <2>1 DEF TreeInv
<1>7. CASE /\ \A t \in trees : t.branch # b /\ t.path # p
           /\ trees' = trees \cup {[path |-> p, branch |-> b]}
           /\ worktrees' = worktrees \cup {[id |-> c, path |-> p, branch |-> b]}
  <2>1. trees' \subseteq [path : 1 .. c, branch : Branches]
        /\ worktrees' \subseteq [id : Stamps, path : Stamps, branch : Branches]
    BY <1>1, <1>4, <1>5, <1>7 DEF TreeInv
  <2>2. \A t, u \in trees' : t.path = u.path \/ t.branch = u.branch => t = u
    BY <1>7 DEF TreeInv
  <2>3. \A a \in worktrees : a.path # p
    BY <1>7 DEF TreeInv, WorktreesTracked
  <2>4. \A a, e \in worktrees' : a.path = e.path => a = e
    BY <1>7, <2>3 DEF TreeInv
  <2>5. \A t \in trees' : t.path \in keptTrees' \/ \E a \in worktrees' : a.path = t.path /\ a.branch = t.branch
    <3>1. \A t \in trees : t.path \in keptTrees' \/ \E a \in worktrees' : a.path = t.path /\ a.branch = t.branch
      BY <1>1, <1>7 DEF TreeInv, WorktreesTracked
    <3>2. [id |-> c, path |-> p, branch |-> b] \in worktrees'
      BY <1>7
    <3>3. \E a \in worktrees' : a.path = p /\ a.branch = b
      BY <3>2
    <3>4. ASSUME NEW t \in trees', t \notin trees PROVE t.path = p /\ t.branch = b
      BY <1>7, <3>4
    <3> QED
      BY <3>1, <3>3, <3>4
  <2>6. \A a \in worktrees' : a.branch \in branches' /\ [path |-> a.path, branch |-> a.branch] \in trees'
    <3>1. \A a \in worktrees : a.branch \in branches' /\ [path |-> a.path, branch |-> a.branch] \in trees'
      BY <1>3, <1>7 DEF TreeInv, WorktreesTracked
    <3>2. ASSUME NEW a \in worktrees', a \notin worktrees PROVE a.path = p /\ a.branch = b
      BY <1>7, <3>2
    <3>3. [path |-> p, branch |-> b] \in trees'
      BY <1>7
    <3> QED
      BY <1>3, <3>1, <3>2, <3>3
  <2> QED
    BY <1>1, <1>3, <2>1, <2>2, <2>4, <2>5, <2>6 DEF TreeInv, WorktreesTracked
<1> QED
  BY <1>2, <1>6, <1>7

LEMMA ExitKeepsTrees == ASSUME MaxToolCalls \in Nat, TreeInv, ExitWorktree PROVE TreeInv'
<1>1. PICK a \in worktrees, ok \in BOOLEAN, keeps \in BOOLEAN :
         /\ worktrees' = IF ok \/ keeps THEN worktrees \ {a} ELSE worktrees
         /\ keptTrees' = IF keeps THEN keptTrees \cup {a.path} ELSE keptTrees
         /\ IF ok /\ ~keeps
              THEN trees' = {t \in trees : t.path # a.path} /\ branches' \in {branches, branches \ {a.branch}}
              ELSE UNCHANGED <<trees, branches>>
  BY DEF ExitWorktree, Forgotten
<1>2. a.path \in Stamps /\ a.branch \in Branches /\ [path |-> a.path, branch |-> a.branch] \in trees
  BY DEF TreeInv, WorktreesTracked
<1>3. toolCalls' = toolCalls + 1 /\ toolCalls' \in 0 .. MaxToolCalls /\ toolCalls \in Nat
  BY DEF ExitWorktree, Called, TreeInv
<1>4. trees' \subseteq trees /\ worktrees' \subseteq worktrees /\ branches' \subseteq Branches
  BY <1>1 DEF TreeInv
<1>5. trees' \subseteq [path : 1 .. toolCalls', branch : Branches] /\ keptTrees' \subseteq Stamps
  BY <1>1, <1>2, <1>3, <1>4 DEF TreeInv
<1>6. \A t \in trees' : t.path \in keptTrees' \/ \E e \in worktrees' : e.path = t.path /\ e.branch = t.branch
  <2> SUFFICES ASSUME NEW t \in trees', t.path \notin keptTrees'
               PROVE  \E e \in worktrees' : e.path = t.path /\ e.branch = t.branch
    OBVIOUS
  <2>1. t.path \notin keptTrees /\ t \in trees
    BY <1>1, <1>4
  <2>2. PICK e \in worktrees : e.path = t.path /\ e.branch = t.branch
    BY <2>1 DEF TreeInv, WorktreesTracked
  <2>3. CASE ok \/ keeps
    <3>1. t.path # a.path
      BY <1>1, <2>3
    <3> QED
      BY <1>1, <2>2, <2>3, <3>1
  <2>4. CASE ~(ok \/ keeps)
    BY <1>1, <2>2, <2>4
  <2> QED
    BY <2>3, <2>4
<1>7. \A e \in worktrees' : e.branch \in branches' /\ [path |-> e.path, branch |-> e.branch] \in trees'
  <2> SUFFICES ASSUME NEW e \in worktrees'
               PROVE  e.branch \in branches' /\ [path |-> e.path, branch |-> e.branch] \in trees'
    OBVIOUS
  <2>1. e \in worktrees /\ e.branch \in branches /\ [path |-> e.path, branch |-> e.branch] \in trees
    BY <1>4 DEF TreeInv, WorktreesTracked
  <2>2. CASE ok /\ ~keeps
    <3>1. e # a
      BY <1>1, <2>2
    <3>2. e.path # a.path
      BY <2>1, <3>1 DEF TreeInv
    <3>3. e.branch # a.branch
      BY <1>2, <2>1, <3>2 DEF TreeInv
    <3> QED
      BY <1>1, <2>1, <2>2, <3>2, <3>3
  <2>3. CASE ~(ok /\ ~keeps)
    BY <1>1, <2>1, <2>3
  <2> QED
    BY <2>2, <2>3
<1>8. /\ \A t, u \in trees' : t.path = u.path \/ t.branch = u.branch => t = u
      /\ \A e, b \in worktrees' : e.path = b.path => e = b
  BY <1>4 DEF TreeInv
<1> QED
  BY <1>3, <1>4, <1>5, <1>6, <1>7, <1>8 DEF TreeInv, WorktreesTracked

LEMMA TreeStep ==
    ASSUME MaxToolCalls \in Nat, TreeInv, [ToolsNext]_toolVars PROVE TreeInv'
<1>1. CASE UNCHANGED toolVars
  BY <1>1, TreesStay DEF toolVars, treeVars
<1>2. CASE EnterWorktree
  BY <1>2, EnterKeepsTrees
<1>3. CASE ExitWorktree
  BY <1>3, ExitKeepsTrees
<1>4. CASE CreateEntry \/ UpdateEntry \/ DeleteEntry \/ ClearTodoList \/ ClearEntries
           \/ SendMessage \/ ReadMailbox \/ ClearMailboxes
  <2>1. Called /\ UNCHANGED treeVars
    BY <1>4 DEF CreateEntry, UpdateEntry, DeleteEntry, ClearTodoList, ClearEntries, SendMessage, ReadMailbox, ClearMailboxes
  <2> QED
    BY <2>1, TreesStay
<1> QED
  BY <1>1, <1>2, <1>3, <1>4 DEF ToolsNext

ToolsInv == BookInv /\ MailInv /\ TreeInv

LEMMA ToolStoresStart == ASSUME MaxToolCalls \in Nat, ToolsInit PROVE ToolsInv
<1>1. BookInv
  BY DEF ToolsInit, BookInv, IdsKeepTheirMeaning
<1>2. MailInv
  <2>1. \A n \in Mates : AllMail(n) = <<>> /\ due[n] = {}
    BY DEF ToolsInit, AllMail, Box
  <2>2. Range(<<>>) = {} /\ Increasing(<<>>)
    BY DEF Range, Increasing
  <2>3. <<>> \in Seq(Stamps) /\ 0 \in 0 .. MaxToolCalls /\ DOMAIN <<>> = {}
    OBVIOUS
  <2>4. due \in [Mates -> SUBSET (1 .. toolCalls)] /\ got \in [Mates -> Seq(Stamps)]
    BY <2>3 DEF ToolsInit
  <2>5. toolCalls \in 0 .. MaxToolCalls /\ DOMAIN mail \subseteq Mates /\ \A n \in DOMAIN mail : mail[n] \in Seq(Stamps)
    BY <2>3 DEF ToolsInit
  <2> QED
    BY <2>1, <2>2, <2>4, <2>5 DEF MailInv
<1>3. TreeInv
  BY DEF ToolsInit, TreeInv, WorktreesTracked
<1> QED
  BY <1>1, <1>2, <1>3 DEF ToolsInv

LEMMA ToolsTypedThen == ASSUME MaxToolCalls \in Nat, ToolsInv PROVE ToolsTypeOK
<1>1. 1 .. toolCalls \subseteq Stamps
  BY DEF ToolsInv, BookInv, Stamps
<1>2. \A k \in BookKinds : DOMAIN book[k] \subseteq 1 .. counter[k] /\ \A i \in DOMAIN book[k] : book[k][i] \in Stamps
  BY DEF ToolsInv, BookInv
<1>3. \A m \in noted : m.kind \in BookKinds /\ m.id \in Stamps /\ m.stamp \in Stamps
  BY DEF ToolsInv, BookInv
<1>4. /\ DOMAIN mail \subseteq Mates /\ \A n \in DOMAIN mail : mail[n] \in Seq(Stamps)
      /\ due \in [Mates -> SUBSET Stamps] /\ \A n \in Mates : got[n] \in Seq(Stamps)
  BY <1>1 DEF ToolsInv, MailInv
<1>5. /\ \A t \in trees : t.path \in Stamps /\ t.branch \in Branches
      /\ branches \subseteq Branches /\ keptTrees \subseteq Stamps
      /\ \A a \in worktrees : a.id \in Stamps /\ a.path \in Stamps /\ a.branch \in Branches
  BY <1>1 DEF ToolsInv, TreeInv
<1> QED
  BY <1>2, <1>3, <1>4, <1>5 DEF ToolsTypeOK, ToolsInv, BookInv

\* The SDK's stores: an id that the model remembers keeps its meaning until
\* the store is cleared, mail is read once and in order, and no worktree is lost.
THEOREM ToolStoresHold ==
    ToolsSpec => [](ToolsTypeOK /\ IdsKeepTheirMeaning /\ MailOnceInOrder /\ WorktreesTracked)
<1>1. ToolsInit => ToolsInv
  BY ToolsAssumption, ToolStoresStart
<1>2. ToolsInv /\ [ToolsNext]_toolVars => ToolsInv'
  BY ToolsAssumption, BookStep, MailStep, TreeStep DEF ToolsInv
<1>3. ToolsInv => ToolsTypeOK /\ IdsKeepTheirMeaning /\ MailOnceInOrder /\ WorktreesTracked
  BY ToolsAssumption, ToolsTypedThen, MailThen DEF ToolsInv, BookInv, TreeInv
<1> QED
  BY <1>1, <1>2, <1>3, PTL DEF ToolsSpec

-----------------------------------------------------------------------------
(* SdkSessions: a session on which calls do not overlap has one call at a  *)
(* time, which writes what it is to make of what it has read.              *)

Transcripts == [state : {"none", "torn", "whole", "mixed"}, msgs : Seq(Jobs), title : Jobs]
JobRecords == [n : Jobs, kind : JobKinds, from : SessionIds, to : SessionIds, msgs : Seq(Jobs), title : Jobs,
               pc : {"load", "open", "write"}]

Touches(j, s) == s \in {j.from, j.to}
Writes(j) == j.pc = "write" /\ j.kind # "delete"
Makes(j) == [state |-> "whole", msgs |-> j.msgs, title |-> j.title]

SessionTypes ==
    /\ file \in [SessionIds -> Transcripts] /\ wants \in [SessionIds -> Transcripts]
    /\ jobs \subseteq JobRecords /\ jobCount \in Jobs /\ overlapped \subseteq SessionIds
    /\ \A j \in jobs : /\ j.kind = "fork" \/ j.from = j.to
                       /\ j.kind = "delete" => j.pc = "write"
                       /\ j.kind = "save" => j.pc # "load"

\* A call's session and the one it forks: with the first the other one is
\* overlapped, and without it has no other call.
AloneInv ==
    /\ \A j \in jobs : j.from \in overlapped => j.to \in overlapped
    /\ \A s \in SessionIds \ overlapped, j, k \in jobs : Touches(j, s) /\ Touches(k, s) => j = k

\* What is in a file, and what a call is about to write.
WrittenInv ==
    /\ \A s \in SessionIds \ overlapped : file[s] = wants[s] \/ \E j \in jobs : j.to = s /\ Writes(j)
    /\ \A j \in jobs : j.to \notin overlapped /\ Writes(j) => file[j.to].state = "torn"
    /\ \A j \in jobs : j.to \notin overlapped /\ j.kind # "delete" /\ j.pc # "load" => Wanted(j) = Makes(j)

SessionsInv == SessionTypes /\ AloneInv /\ WrittenInv

LEMMA JobFields ==
    ASSUME NEW j \in JobRecords
    PROVE  /\ j.n \in Jobs /\ j.kind \in JobKinds /\ j.from \in SessionIds /\ j.to \in SessionIds
           /\ j.msgs \in Seq(Jobs) /\ j.title \in Jobs /\ j.pc \in {"load", "open", "write"}
  BY DEF JobRecords

LEMMA WantedTyped ==
    ASSUME SessionTypes, NEW j \in jobs, MaxJobs \in Nat PROVE Wanted(j) \in Transcripts
<1>1. /\ j.n \in Jobs /\ j.kind \in JobKinds /\ j.from \in SessionIds /\ j.to \in SessionIds
      /\ j.msgs \in Seq(Jobs) /\ j.title \in Jobs
  BY JobFields DEF SessionTypes
<1>2. wants[j.to] \in Transcripts /\ wants[j.from] \in Transcripts /\ 0 \in Jobs /\ <<>> \in Seq(Jobs)
  BY <1>1 DEF SessionTypes, Jobs
<1>3. CASE j.kind = "save"
  BY <1>1, <1>2, <1>3 DEF Wanted, Transcripts
<1>4. CASE j.kind = "append"
  <2>1. Append(wants[j.to].msgs, j.n) \in Seq(Jobs)
    BY <1>1, <1>2 DEF Transcripts
  <2>2. Wanted(j) = [wants[j.to] EXCEPT !.msgs = Append(wants[j.to].msgs, j.n)]
    BY <1>2, <1>4 DEF Wanted, Transcripts
  <2> QED
    BY <1>2, <2>1, <2>2 DEF Transcripts
<1>5. CASE j.kind = "rename"
  BY <1>1, <1>2, <1>5 DEF Wanted, Transcripts
<1>6. CASE j.kind = "fork"
  BY <1>1, <1>2, <1>6 DEF Wanted, Transcripts
<1>7. CASE j.kind = "delete"
  BY <1>2, <1>7 DEF Wanted, Transcripts, NoSession
<1> QED
  BY <1>1, <1>3, <1>4, <1>5, <1>6, <1>7 DEF JobKinds

\* A call, by what it is.
NewJob(j, k, s, t) ==
    /\ j = [n |-> jobCount', kind |-> k, from |-> s, to |-> t, msgs |-> <<jobCount'>>, title |-> 0,
            pc |-> IF k = "save" THEN "open" ELSE IF k = "delete" THEN "write" ELSE "load"]
    /\ jobs' = jobs \cup {j}
    /\ (k = "fork") # (s = t)

LEMMA CallDoes ==
    ASSUME MaxJobs \in Nat, SessionTypes, CallSession
    PROVE  \E k \in JobKinds, s, t \in SessionIds, j \in JobRecords :
              /\ NewJob(j, k, s, t)
              /\ LET met == overlapped \cup {x \in {s, t} : \E i \in jobs : Touches(i, x)}
                 IN overlapped' = met \cup {i.to : i \in {y \in jobs' : y.from \in met}}
              /\ UNCHANGED <<file, wants>> /\ SessionTypes'
<1>1. PICK k \in JobKinds, s \in SessionIds, t \in SessionIds :
         /\ (k = "fork") # (s = t)
         /\ jobs' = jobs \cup {[n |-> jobCount', kind |-> k, from |-> s, to |-> t, msgs |-> <<jobCount'>>, title |-> 0,
                                pc |-> IF k = "save" THEN "open" ELSE IF k = "delete" THEN "write" ELSE "load"]}
         /\ LET met == overlapped \cup {x \in {s, t} : \E j \in jobs : x \in {j.from, j.to}}
            IN overlapped' = met \cup {j.to : j \in {x \in jobs' : x.from \in met}}
  BY DEF CallSession
<1> DEFINE j == [n |-> jobCount', kind |-> k, from |-> s, to |-> t, msgs |-> <<jobCount'>>, title |-> 0,
                 pc |-> IF k = "save" THEN "open" ELSE IF k = "delete" THEN "write" ELSE "load"]
<1>2. jobCount' \in Jobs /\ 0 \in Jobs
  BY DEF CallSession, SessionTypes, Jobs
<1>3. <<jobCount'>> \in Seq(Jobs)
  BY <1>2
<1>4. j \in JobRecords
  BY <1>2, <1>3 DEF JobRecords
<1>5. NewJob(j, k, s, t)
  BY <1>1 DEF NewJob
<1>6. j.kind = k /\ j.from = s /\ j.to = t /\ (k = "fork" \/ s = t) /\ (k = "delete" => j.pc = "write") /\ (k = "save" => j.pc # "load")
  BY <1>1
<1>7. UNCHANGED <<file, wants>>
  BY DEF CallSession
<1>8. jobs' = jobs \cup {j}
  BY <1>1
<1>9. LET met == overlapped \cup {x \in {s, t} : \E i \in jobs : Touches(i, x)}
      IN overlapped' = met \cup {i.to : i \in {y \in jobs' : y.from \in met}}
  BY <1>1 DEF Touches
<1> HIDE DEF j
<1>10. jobs' \subseteq JobRecords
  BY <1>4, <1>8 DEF SessionTypes
<1>11. overlapped' \subseteq SessionIds
  BY <1>9, <1>10, JobFields DEF SessionTypes
<1>12. SessionTypes'
  BY <1>2, <1>6, <1>7, <1>8, <1>10, <1>11 DEF SessionTypes
<1> QED
  BY <1>4, <1>5, <1>7, <1>9, <1>12

LEMMA CallKeepsSessions == ASSUME MaxJobs \in Nat, SessionsInv, CallSession PROVE SessionsInv'
<1>1. PICK k \in JobKinds, s \in SessionIds, t \in SessionIds, j \in JobRecords :
              /\ NewJob(j, k, s, t)
              /\ LET met == overlapped \cup {x \in {s, t} : \E i \in jobs : Touches(i, x)}
                 IN overlapped' = met \cup {i.to : i \in {y \in jobs' : y.from \in met}}
              /\ UNCHANGED <<file, wants>> /\ SessionTypes'
  BY CallDoes DEF SessionsInv
<1> DEFINE met == overlapped \cup {x \in {s, t} : \E i \in jobs : Touches(i, x)}
<1>2. overlapped' = met \cup {i.to : i \in {y \in jobs' : y.from \in met}}
  BY <1>1
<1>3. /\ jobs' = jobs \cup {j} /\ j.from = s /\ j.to = t /\ j.kind = k
      /\ j.pc = IF k = "save" THEN "open" ELSE IF k = "delete" THEN "write" ELSE "load"
      /\ k = "save" => Wanted(j)' = Makes(j)
  BY <1>1 DEF NewJob, Wanted, Makes
<1>4. \A i \in jobs' : i.from \in met => i.to \in overlapped'
  BY <1>2
<1>5. overlapped \subseteq met /\ met \subseteq overlapped'
  BY <1>2
<1>6. \A x \in {s, t} : (\E i \in jobs : Touches(i, x)) => x \in met
  OBVIOUS
<1>7. \A x \in overlapped' : x \in met \/ \E i \in jobs' : i.to = x /\ i.from \in met
  BY <1>2
<1> HIDE DEF met
<1>8. ASSUME NEW x \in SessionIds \ met, NEW i \in jobs', NEW l \in jobs', Touches(i, x), Touches(l, x) PROVE i = l
  <2>1. x \notin overlapped
    BY <1>5
  <2>2. CASE i \in jobs /\ l \in jobs
    BY <1>8, <2>1, <2>2 DEF SessionsInv, AloneInv
  <2>3. ASSUME NEW h \in jobs, Touches(h, x), Touches(j, x) PROVE FALSE
    BY <1>3, <1>6, <2>3 DEF Touches
  <2> QED
    BY <1>3, <1>8, <2>2, <2>3
<1>9. \A i \in jobs' : i.from \in overlapped' => i.to \in overlapped'
  <2> SUFFICES ASSUME NEW i \in jobs', i.from \in overlapped', i.from \notin met PROVE i.to \in overlapped'
    BY <1>4
  <2>1. PICK l \in jobs' : l.to = i.from /\ l.from \in met
    BY <1>7
  <2>2. i.from \in SessionIds
    BY <1>1, JobFields DEF SessionTypes
  <2>3. i = l
    BY <1>8, <2>1, <2>2 DEF Touches
  <2> QED
    BY <2>1, <2>3
<1>10. AloneInv'
  BY <1>5, <1>8, <1>9 DEF AloneInv
<1>11. ASSUME NEW x \in SessionIds \ overlapped' PROVE file'[x] = wants'[x] \/ \E i \in jobs' : i.to = x /\ Writes(i)
  BY <1>1, <1>3, <1>5 DEF SessionsInv, WrittenInv
<1>12. ASSUME NEW i \in jobs', i.to \notin overlapped', Writes(i) PROVE file'[i.to].state = "torn"
  BY <1>1, <1>3, <1>5, <1>12 DEF SessionsInv, WrittenInv, Writes
<1>13. ASSUME NEW i \in jobs', i.to \notin overlapped', i.kind # "delete", i.pc # "load" PROVE Wanted(i)' = Makes(i)
  <2>1. CASE i \in jobs
    <3>1. Wanted(i) = Makes(i)
      BY <1>5, <1>13, <2>1 DEF SessionsInv, WrittenInv
    <3> QED
      BY <1>1, <3>1 DEF Wanted
  <2>2. CASE i = j
    BY <1>3, <1>13, <2>2
  <2> QED
    BY <1>3, <2>1, <2>2
<1> QED
  BY <1>1, <1>10, <1>11, <1>12, <1>13 DEF SessionsInv, WrittenInv

\* A call goes on, or is over, and touches what it did.
LEMMA JobGoesOn ==
    ASSUME AloneInv, NEW j \in jobs, NEW i, i.from = j.from, i.to = j.to, UNCHANGED overlapped,
           jobs' = (jobs \ {j}) \cup {i} \/ jobs' = jobs \ {j}
    PROVE  AloneInv'
  BY DEF AloneInv, Touches

LEMMA ChangedMakes ==
    ASSUME MaxJobs \in Nat, SessionTypes, NEW j \in jobs, j.kind # "delete", j.kind # "save",
           file[j.from].state = "whole"
    PROVE  /\ Changed(j, file[j.from]) \in JobRecords
           /\ Changed(j, file[j.from]).from = j.from /\ Changed(j, file[j.from]).to = j.to
           /\ Changed(j, file[j.from]).pc = "open" /\ Changed(j, file[j.from]).kind = j.kind
           /\ file[j.from] = wants[j.from] => Wanted(Changed(j, file[j.from])) = Makes(Changed(j, file[j.from]))
<1> DEFINE f == file[j.from]
           i == Changed(j, f)
<1>1. /\ j.n \in Jobs /\ j.kind \in JobKinds /\ j.from \in SessionIds /\ j.to \in SessionIds
      /\ j.msgs \in Seq(Jobs) /\ j.title \in Jobs /\ j \in JobRecords
  BY JobFields DEF SessionTypes
<1>2. f \in Transcripts /\ f.state = "whole" /\ f.msgs \in Seq(Jobs) /\ f.title \in Jobs
  BY <1>1 DEF SessionTypes, Transcripts
<1>3. f = [state |-> "whole", msgs |-> f.msgs, title |-> f.title]
  BY <1>2 DEF Transcripts
<1>4. j.kind = "append" \/ j.kind = "rename" \/ j.kind = "fork"
  BY <1>1 DEF JobKinds
<1>5. j.kind # "fork" => j.to = j.from
  BY DEF SessionTypes
<1> HIDE DEF f
<1>6. Append(f.msgs, j.n) \in Seq(Jobs)
  BY <1>1, <1>2
<1>7. /\ i.from = j.from /\ i.to = j.to /\ i.pc = "open" /\ i.kind = j.kind /\ i.n = j.n
      /\ i.msgs = (IF j.kind = "append" THEN Append(f.msgs, j.n) ELSE f.msgs)
      /\ i.title = (IF j.kind = "append" THEN f.title ELSE j.n)
      /\ i \in JobRecords
  BY <1>1, <1>2, <1>6 DEF Changed, JobRecords
<1> HIDE DEF i
<1>8. ASSUME f = wants[j.from] PROVE Wanted(i) = Makes(i)
  <2>1. CASE j.kind = "append"
    <3>1. Wanted(i) = [f EXCEPT !.msgs = Append(f.msgs, j.n)]
      BY <1>2, <1>5, <1>7, <1>8, <2>1 DEF Wanted, Transcripts
    <3> QED
      BY <1>2, <1>3, <1>7, <2>1, <3>1 DEF Makes, Transcripts
  <2>2. CASE j.kind = "rename"
    <3>1. Wanted(i) = [f EXCEPT !.title = j.n]
      BY <1>2, <1>5, <1>7, <1>8, <2>2 DEF Wanted
    <3> QED
      BY <1>2, <1>3, <1>7, <2>2, <3>1 DEF Makes, Transcripts
  <2>3. CASE j.kind = "fork"
    <3>1. Wanted(i) = [f EXCEPT !.title = j.n]
      BY <1>2, <1>7, <1>8, <2>3 DEF Wanted
    <3> QED
      BY <1>2, <1>3, <1>7, <2>3, <3>1 DEF Makes, Transcripts
  <2> QED
    BY <1>4, <2>1, <2>2, <2>3
<1> QED
  BY <1>7, <1>8 DEF f, i

LEMMA LoadKeepsSessions == ASSUME MaxJobs \in Nat, SessionsInv, LoadSession PROVE SessionsInv'
<1>1. PICK j \in jobs :
         /\ j.pc = "load"
         /\ jobs' = IF file[j.from].state = "whole" THEN (jobs \ {j}) \cup {Changed(j, file[j.from])} ELSE jobs \ {j}
  BY DEF LoadSession
<1>2. UNCHANGED <<file, jobCount, wants, overlapped>>
  BY DEF LoadSession
<1>3. j \in JobRecords /\ j.from \in SessionIds /\ j.to \in SessionIds /\ j.kind # "delete" /\ ~Writes(j)
  BY <1>1, JobFields DEF SessionsInv, SessionTypes, Writes
<1>4. CASE file[j.from].state = "whole" /\ j.kind # "save"
  <2> DEFINE i == Changed(j, file[j.from])
  <2>1. /\ i \in JobRecords /\ i.from = j.from /\ i.to = j.to /\ i.pc = "open" /\ i.kind = j.kind
        /\ file[j.from] = wants[j.from] => Wanted(i) = Makes(i)
    BY <1>3, <1>4, ChangedMakes DEF SessionsInv
  <2>2. jobs' = (jobs \ {j}) \cup {i}
    BY <1>1, <1>4
  <2> HIDE DEF i
  <2>3. SessionTypes'
    BY <1>2, <2>1, <2>2, <1>3 DEF SessionsInv, SessionTypes
  <2>4. AloneInv'
    BY <1>2, <2>1, <2>2, JobGoesOn DEF SessionsInv
  <2>5. ~Writes(i)
    BY <2>1 DEF Writes
  <2>6. \A s \in SessionIds \ overlapped' : file'[s] = wants'[s] \/ \E l \in jobs' : l.to = s /\ Writes(l)
    BY <1>2, <1>3, <2>2 DEF SessionsInv, WrittenInv
  <2>7. \A l \in jobs' : l.to \notin overlapped' /\ Writes(l) => file'[l.to].state = "torn"
    BY <1>2, <2>2, <2>5 DEF SessionsInv, WrittenInv
  <2>8. j.to \notin overlapped => Wanted(i) = Makes(i)
    <3> SUFFICES ASSUME j.to \notin overlapped PROVE file[j.from] = wants[j.from]
      BY <2>1
    <3>1. j.from \notin overlapped
      BY DEF SessionsInv, AloneInv
    <3>2. \A l \in jobs : l.to = j.from => l = j
      BY <1>3, <3>1 DEF SessionsInv, AloneInv, Touches
    <3> QED
      BY <1>3, <3>1, <3>2 DEF SessionsInv, WrittenInv
  <2>9. ASSUME NEW l \in jobs', l.to \notin overlapped', l.kind # "delete", l.pc # "load" PROVE Wanted(l)' = Makes(l)
    <3>1. Wanted(l) = Makes(l)
      BY <1>2, <2>1, <2>2, <2>8, <2>9 DEF SessionsInv, WrittenInv
    <3> QED
      BY <1>2, <3>1 DEF Wanted
  <2> QED
    BY <2>3, <2>4, <2>6, <2>7, <2>9 DEF SessionsInv, WrittenInv
<1>5. CASE jobs' = jobs \ {j}
  <2>1. SessionTypes'
    BY <1>2, <1>5 DEF SessionsInv, SessionTypes
  <2>2. AloneInv'
    BY <1>2, <1>5, JobGoesOn DEF SessionsInv
  <2>3. \A s \in SessionIds \ overlapped' : file'[s] = wants'[s] \/ \E l \in jobs' : l.to = s /\ Writes(l)
    BY <1>2, <1>3, <1>5 DEF SessionsInv, WrittenInv
  <2>4. \A l \in jobs' : l.to \notin overlapped' /\ Writes(l) => file'[l.to].state = "torn"
    BY <1>2, <1>5 DEF SessionsInv, WrittenInv
  <2>5. \A l \in jobs' : Wanted(l)' = Wanted(l)
    BY <1>2 DEF Wanted
  <2> QED
    BY <1>2, <1>5, <2>1, <2>2, <2>3, <2>4, <2>5 DEF SessionsInv, WrittenInv
<1>6. j.kind # "save"
  BY <1>1 DEF SessionsInv, SessionTypes
<1> QED
  BY <1>1, <1>4, <1>5, <1>6

LEMMA OpenKeepsSessions == ASSUME MaxJobs \in Nat, SessionsInv, OpenFile PROVE SessionsInv'
<1>1. PICK j \in jobs :
         /\ j.pc = "open" /\ jobs' = (jobs \ {j}) \cup {[j EXCEPT !.pc = "write"]}
         /\ file' = [file EXCEPT ![j.to] = [NoSession EXCEPT !.state = "torn"]]
  BY DEF OpenFile
<1>2. UNCHANGED <<jobCount, wants, overlapped>>
  BY DEF OpenFile
<1> DEFINE i == [j EXCEPT !.pc = "write"]
<1>3. j \in JobRecords /\ j.from \in SessionIds /\ j.to \in SessionIds /\ j.kind # "delete"
  BY <1>1, JobFields DEF SessionsInv, SessionTypes
<1>4. /\ i \in JobRecords /\ i.from = j.from /\ i.to = j.to /\ i.pc = "write" /\ i.kind = j.kind
      /\ i.msgs = j.msgs /\ i.title = j.title /\ i.n = j.n
  BY <1>3 DEF JobRecords
<1>5. jobs' = (jobs \ {j}) \cup {i}
  BY <1>1
<1> HIDE DEF i
<1>6. [NoSession EXCEPT !.state = "torn"] \in Transcripts /\ [NoSession EXCEPT !.state = "torn"].state = "torn"
  <2>1. 0 \in Jobs /\ <<>> \in Seq(Jobs)
    BY DEF Jobs
  <2> QED
    BY <2>1 DEF NoSession, Transcripts
<1>7. /\ file' \in [SessionIds -> Transcripts] /\ file'[j.to].state = "torn"
      /\ \A s \in SessionIds \ {j.to} : file'[s] = file[s]
  BY <1>1, <1>3, <1>6 DEF SessionsInv, SessionTypes
<1>8. SessionTypes'
  BY <1>2, <1>3, <1>4, <1>5, <1>7 DEF SessionsInv, SessionTypes
<1>9. AloneInv'
  BY <1>2, <1>4, <1>5, JobGoesOn DEF SessionsInv
<1>10. Writes(i) /\ ~Writes(j)
  BY <1>1, <1>3, <1>4 DEF Writes
<1>11. ASSUME NEW s \in SessionIds \ overlapped' PROVE file'[s] = wants'[s] \/ \E l \in jobs' : l.to = s /\ Writes(l)
  <2>1. CASE s = j.to
    <3>1. i \in jobs' /\ i.to = s
      BY <1>4, <1>5, <2>1
    <3> QED
      BY <1>10, <3>1
  <2>2. CASE s # j.to
    BY <1>2, <1>5, <1>7, <1>10, <2>2 DEF SessionsInv, WrittenInv
  <2> QED
    BY <2>1, <2>2
<1>12. ASSUME NEW l \in jobs', l.to \notin overlapped', Writes(l) PROVE file'[l.to].state = "torn"
  <2>1. CASE l = i
    BY <1>4, <1>7, <2>1
  <2>2. CASE l \in jobs /\ l.to # j.to
    <3>1. l.to \in SessionIds
      BY <2>2, JobFields DEF SessionsInv, SessionTypes
    <3> QED
      BY <1>2, <1>7, <1>12, <2>2, <3>1 DEF SessionsInv, WrittenInv
  <2>3. CASE l.to = j.to
    BY <1>7, <2>3
  <2> QED
    BY <1>5, <2>1, <2>2, <2>3
<1>13. ASSUME NEW l \in jobs', l.to \notin overlapped', l.kind # "delete", l.pc # "load" PROVE Wanted(l)' = Makes(l)
  <2>1. CASE l \in jobs
    <3>1. Wanted(l) = Makes(l)
      BY <1>2, <1>13, <2>1 DEF SessionsInv, WrittenInv
    <3> QED
      BY <1>2, <3>1 DEF Wanted
  <2>2. CASE l = i
    <3>1. Wanted(j) = Makes(j)
      BY <1>1, <1>2, <1>3, <1>4, <1>13, <2>2 DEF SessionsInv, WrittenInv
    <3>2. Wanted(i) = Wanted(j) /\ Makes(i) = Makes(j)
      BY <1>4 DEF Wanted, Makes
    <3>3. Wanted(i)' = Wanted(i)
      BY <1>2 DEF Wanted
    <3> QED
      BY <2>2, <3>1, <3>2, <3>3
  <2> QED
    BY <1>5, <2>1, <2>2
<1> QED
  BY <1>8, <1>9, <1>11, <1>12, <1>13 DEF SessionsInv, WrittenInv

LEMMA EndKeepsSessions == ASSUME MaxJobs \in Nat, SessionsInv, EndSession PROVE SessionsInv'
<1>1. PICK j \in jobs :
         /\ j.pc = "write" /\ jobs' = jobs \ {j}
         /\ IF j.kind = "delete" THEN file' = [file EXCEPT ![j.to] = NoSession] ELSE WriteFile(j)
         /\ wants' = [wants EXCEPT ![j.to] = Wanted(j)]
  BY DEF EndSession
<1>2. UNCHANGED <<jobCount, overlapped>>
  BY DEF EndSession
<1>3. /\ j \in JobRecords /\ j.from \in SessionIds /\ j.to \in SessionIds /\ j.msgs \in Seq(Jobs) /\ j.title \in Jobs
      /\ file[j.to] \in Transcripts
  BY <1>1, JobFields DEF SessionsInv, SessionTypes
<1>4. PICK w \in Transcripts : w = Wanted(j)
  BY WantedTyped DEF SessionsInv
<1>5. NoSession \in Transcripts
  <2>1. 0 \in Jobs /\ <<>> \in Seq(Jobs)
    BY DEF Jobs
  <2> QED
    BY <2>1 DEF NoSession, Transcripts
<1>6. PICK f \in Transcripts : /\ file' = [file EXCEPT ![j.to] = f]
                               /\ j.to \notin overlapped => f = w
  <2>1. CASE j.kind = "delete"
    BY <1>1, <1>4, <1>5, <2>1 DEF Wanted
  <2>2. CASE j.kind # "delete"
    <3>1. PICK st \in {"whole", "mixed"} :
            /\ st = "mixed" => file[j.to].state \in {"whole", "mixed"}
            /\ file' = IF file[j.to].state = "none" THEN file
                       ELSE [file EXCEPT ![j.to] = [state |-> st, msgs |-> j.msgs, title |-> j.title]]
      BY <1>1, <2>2 DEF WriteFile
    <3>2. CASE file[j.to].state = "none"
      <4>1. file' = [file EXCEPT ![j.to] = file[j.to]]
        BY <1>3, <3>1, <3>2 DEF SessionsInv, SessionTypes
      <4>2. j.to \in overlapped
        BY <1>1, <2>2, <3>2 DEF SessionsInv, WrittenInv, Writes
      <4> QED
        BY <1>3, <4>1, <4>2
    <3>3. CASE file[j.to].state # "none"
      <4> DEFINE g == [state |-> st, msgs |-> j.msgs, title |-> j.title]
      <4>1. g \in Transcripts
        BY <1>3 DEF Transcripts
      <4>2. file' = [file EXCEPT ![j.to] = g]
        BY <3>1, <3>3
      <4>3. ASSUME j.to \notin overlapped PROVE g = w
        <5>1. file[j.to].state = "torn" /\ Wanted(j) = Makes(j)
          BY <1>1, <2>2, <4>3 DEF SessionsInv, WrittenInv, Writes
        <5>2. st = "whole"
          BY <3>1, <5>1
        <5> QED
          BY <1>4, <5>1, <5>2 DEF Makes
      <4> QED
        BY <4>1, <4>2, <4>3
    <3> QED
      BY <3>2, <3>3
  <2> QED
    BY <2>1, <2>2
<1>7. /\ file' \in [SessionIds -> Transcripts] /\ file'[j.to] = f
      /\ \A s \in SessionIds \ {j.to} : file'[s] = file[s]
  BY <1>3, <1>6 DEF SessionsInv, SessionTypes
<1>8. /\ wants' \in [SessionIds -> Transcripts] /\ wants'[j.to] = w
      /\ \A s \in SessionIds \ {j.to} : wants'[s] = wants[s]
  BY <1>1, <1>3, <1>4 DEF SessionsInv, SessionTypes
<1>9. SessionTypes'
  BY <1>1, <1>2, <1>7, <1>8 DEF SessionsInv, SessionTypes
<1>10. AloneInv'
  BY <1>1, <1>2, JobGoesOn DEF SessionsInv
<1>11. ASSUME NEW s \in SessionIds \ overlapped' PROVE file'[s] = wants'[s] \/ \E l \in jobs' : l.to = s /\ Writes(l)
  <2>1. CASE s = j.to
    BY <1>2, <1>6, <1>7, <1>8, <2>1
  <2>2. CASE s # j.to
    BY <1>1, <1>2, <1>7, <1>8, <2>2 DEF SessionsInv, WrittenInv
  <2> QED
    BY <2>1, <2>2
<1>12. ASSUME NEW l \in jobs', l.to \notin overlapped'
       PROVE  /\ l \in jobs /\ l.to \in SessionIds /\ l.from \in SessionIds
              /\ l.to # j.to /\ l.from # j.to
  <2>1. l \in jobs /\ l # j /\ l.to \in SessionIds /\ l.from \in SessionIds
    BY <1>1, JobFields DEF SessionsInv, SessionTypes
  <2>2. l.from \notin overlapped /\ l.to \notin overlapped
    BY <1>2, <1>12, <2>1 DEF SessionsInv, AloneInv
  <2> QED
    BY <2>1, <2>2 DEF SessionsInv, AloneInv, Touches
<1>13. ASSUME NEW l \in jobs', l.to \notin overlapped', Writes(l) PROVE file'[l.to].state = "torn"
  BY <1>2, <1>7, <1>12, <1>13 DEF SessionsInv, WrittenInv
<1>14. ASSUME NEW l \in jobs', l.to \notin overlapped', l.kind # "delete", l.pc # "load" PROVE Wanted(l)' = Makes(l)
  <2>1. Wanted(l) = Makes(l)
    BY <1>2, <1>12, <1>14 DEF SessionsInv, WrittenInv
  <2>2. wants'[l.to] = wants[l.to] /\ wants'[l.from] = wants[l.from]
    BY <1>8, <1>12, <1>14
  <2> QED
    BY <2>1, <2>2 DEF Wanted
<1> QED
  BY <1>9, <1>10, <1>11, <1>13, <1>14 DEF SessionsInv, WrittenInv

LEMMA CrashKeepsSessions == ASSUME SessionsInv, SdkCrash PROVE SessionsInv'
<1>1. /\ jobs' = {} /\ UNCHANGED <<file, jobCount, wants>>
      /\ overlapped' = overlapped \cup {j.to : j \in {x \in jobs : x.pc = "write"}}
  BY DEF SdkCrash
<1>2. SessionTypes'
  <2>1. overlapped' \subseteq SessionIds
    BY <1>1, JobFields DEF SessionsInv, SessionTypes
  <2> QED
    BY <1>1, <2>1 DEF SessionsInv, SessionTypes
<1>3. ASSUME NEW s \in SessionIds \ overlapped' PROVE file'[s] = wants'[s]
  BY <1>1 DEF SessionsInv, WrittenInv, Writes
<1> QED
  BY <1>1, <1>2, <1>3 DEF SessionsInv, AloneInv, WrittenInv

LEMMA SdkSessionsStep ==
    ASSUME MaxJobs \in Nat, SessionsInv, [SdkSessionsNext]_sdkSessionVars PROVE SessionsInv'
<1>1. CASE UNCHANGED sdkSessionVars
  <2>1. \A j : Wanted(j)' = Wanted(j)
    BY <1>1 DEF Wanted, sdkSessionVars
  <2> QED
    BY <1>1, <2>1 DEF sdkSessionVars, SessionsInv, SessionTypes, AloneInv, WrittenInv
<1> QED
  BY <1>1, CallKeepsSessions, LoadKeepsSessions, OpenKeepsSessions, EndKeepsSessions, CrashKeepsSessions
     DEF SdkSessionsNext

LEMMA SdkSessionsStart == ASSUME MaxJobs \in Nat, SdkSessionsInit PROVE SessionsInv
<1>1. 0 \in Jobs /\ <<>> \in Seq(Jobs)
  BY DEF Jobs
<1>2. NoSession \in Transcripts
  BY <1>1 DEF NoSession, Transcripts
<1> QED
  BY <1>1, <1>2 DEF SdkSessionsInit, SessionsInv, SessionTypes, AloneInv, WrittenInv

LEMMA SessionsThen == ASSUME SessionsInv PROVE SessionsTypeOK /\ CallsOnSessionsAdd
<1>1. CallsOnSessionsAdd
  BY DEF SessionsInv, WrittenInv, CallsOnSessionsAdd
<1>2. \A s \in SessionIds : file[s] \in Transcripts /\ wants[s] \in Transcripts
  BY DEF SessionsInv, SessionTypes
<1>3. \A j \in jobs : /\ j.n \in Jobs /\ j.kind \in JobKinds /\ {j.from, j.to} \subseteq SessionIds
                      /\ j.pc \in {"load", "open", "write"} /\ j.msgs \in Seq(Jobs) /\ j.title \in Jobs
  BY JobFields DEF SessionsInv, SessionTypes
<1> QED
  BY <1>1, <1>2, <1>3 DEF SessionsTypeOK, SessionsInv, SessionTypes, Transcripts

\* The SDK's transcripts: a session on which no two calls overlapped holds
\* what the calls that returned have made of it, over every order and crash.
THEOREM SessionCallsAdd == SdkSessionsSpec => [](SessionsTypeOK /\ CallsOnSessionsAdd)
<1>1. SdkSessionsInit => SessionsInv
  BY JobsAssumption, SdkSessionsStart
<1>2. SessionsInv /\ [SdkSessionsNext]_sdkSessionVars => SessionsInv'
  BY JobsAssumption, SdkSessionsStep
<1>3. SessionsInv => SessionsTypeOK /\ CallsOnSessionsAdd
  BY SessionsThen
<1> QED
  BY <1>1, <1>2, <1>3, PTL DEF SdkSessionsSpec

-----------------------------------------------------------------------------
(* SdkCache: bytes add up, whatever is taken out.                          *)

Entries == Paths \X Sizes
Add == [p \in Nat \X (Paths \X Sizes) |-> p[1] + p[2][2]]

LEMMA AddIs ==
    /\ LoopOf(Add, 0, Nat, Entries)
    /\ \A n \in Nat, e \in Entries : Add[<<n, e>>] = n + e[2] /\ e[2] \in Nat
<1>1. \A e \in Entries : e[2] \in Nat
  BY CacheAssumption DEF Entries
<1>2. ASSUME NEW p \in Nat \X Entries PROVE p[1] + p[2][2] \in Nat
  <2>1. p[1] \in Nat /\ p[2] \in Entries
    OBVIOUS
  <2> QED
    BY <1>1, <2>1
<1>3. Add = [p \in Nat \X Entries |-> p[1] + p[2][2]]
  BY DEF Add, Entries
<1>4. Add \in [Nat \X Entries -> Nat]
  BY <1>2, <1>3
<1>5. ASSUME NEW n \in Nat, NEW e \in Entries PROVE Add[<<n, e>>] = n + e[2]
  BY <1>3
<1> QED
  BY <1>1, <1>4, <1>5 DEF LoopOf

LEMMA TotalAppend ==
    ASSUME NEW s \in Seq(Entries), NEW e \in Entries
    PROVE  Total(s) \in Nat /\ Total(Append(s, e)) = Total(s) + e[2] /\ e[2] \in Nat
<1>1. Loop(Add, 0, s) \in Nat /\ Loop(Add, 0, Append(s, e)) = Add[<<Loop(Add, 0, s), e>>]
  BY AddIs, LoopStep
<1>2. Total(s) = Loop(Add, 0, s) /\ Total(Append(s, e)) = Loop(Add, 0, Append(s, e))
  BY DEF Total, Add
<1> QED
  BY <1>1, <1>2, AddIs

LEMMA TotalEmpty == Total(<<>>) = 0
<1>1. Loop(Add, 0, <<>>) = 0
  BY AddIs, LoopStart
<1> QED
  BY <1>1 DEF Total, Add

LEMMA TotalTyped == ASSUME NEW s \in Seq(Entries) PROVE Total(s) \in Nat
<1>2. CASE Len(s) = 0
  <2>1. s = <<>>
    BY <1>2
  <2> QED
    BY <2>1, TotalEmpty
<1>3. CASE Len(s) # 0
  <2>1. s[1] \in Entries
    BY <1>3
  <2> QED
    BY <2>1, TotalAppend
<1> QED
  BY <1>2, <1>3

LEMMA TotalConcat ==
    ASSUME NEW s \in Seq(Entries), NEW t \in Seq(Entries) PROVE Total(s \o t) = Total(s) + Total(t)
<1> DEFINE U == {n \in Nat : \A u \in Seq(Entries) : Len(u) = n => Total(s \o u) = Total(s) + Total(u)}
<1>1. 0 \in U
  <2> SUFFICES ASSUME NEW u \in Seq(Entries), Len(u) = 0 PROVE Total(s \o u) = Total(s) + Total(u)
    OBVIOUS
  <2>1. u = <<>> /\ s \o u = s
    OBVIOUS
  <2> QED
    BY <2>1, TotalEmpty, TotalTyped
<1>2. ASSUME NEW n \in Nat, n \in U PROVE n + 1 \in U
  <2> SUFFICES ASSUME NEW u \in Seq(Entries), Len(u) = n + 1 PROVE Total(s \o u) = Total(s) + Total(u)
    OBVIOUS
  <2>1. PICK v \in Seq(Entries), e \in Entries : u = Append(v, e) /\ Len(v) = n
    <3>1. Len(u) # 0 /\ Len(u) - 1 = n
      OBVIOUS
    <3> HIDE DEF U
    <3> QED
      BY <3>1, LastOfSeq
  <2>2. Total(s \o v) = Total(s) + Total(v)
    BY <1>2, <2>1
  <2>3. s \o u = Append(s \o v, e) /\ s \o v \in Seq(Entries)
    BY <2>1, ConcatAppends, ConcatTyped
  <2> HIDE DEF U
  <2>4. Total(s \o u) = Total(s \o v) + e[2] /\ Total(u) = Total(v) + e[2] /\ e[2] \in Nat
    BY <2>1, <2>3, TotalAppend
  <2>5. Total(s) \in Nat /\ Total(v) \in Nat
    BY <2>1, TotalTyped
  <2> QED
    BY <2>2, <2>4, <2>5
<1>3. Nat \subseteq U
  <2> HIDE DEF U
  <2> QED
    BY <1>1, <1>2, AllNats
<1> QED
  BY <1>3

LEMMA TotalSplit ==
    ASSUME NEW s \in Seq(Entries), NEW k \in 0 .. Len(s)
    PROVE  /\ SubSeq(s, 1, k) \in Seq(Entries) /\ SubSeq(s, k + 1, Len(s)) \in Seq(Entries)
           /\ Total(s) = Total(SubSeq(s, 1, k)) + Total(SubSeq(s, k + 1, Len(s)))
<1> DEFINE a == SubSeq(s, 1, k)
           b == SubSeq(s, k + 1, Len(s))
<1>1. a \in Seq(Entries) /\ b \in Seq(Entries) /\ Len(a) = k /\ Len(b) = Len(s) - k
  OBVIOUS
<1>2. /\ \A i \in 1 .. k : a[i] = s[i]
      /\ \A i \in 1 .. Len(s) - k : b[i] = s[k + i]
  OBVIOUS
<1> HIDE DEF a, b
<1>7. Len(s) \in Nat /\ k \in Nat /\ k <= Len(s)
  OBVIOUS
<1>3. a \o b \in Seq(Entries) /\ Len(a \o b) = Len(s)
  BY <1>1, <1>7
<1>4. ASSUME NEW i \in 1 .. Len(s) PROVE (a \o b)[i] = s[i]
  <2>1. CASE i <= k
    BY <1>1, <1>2, <1>7, <2>1
  <2>2. CASE ~(i <= k)
    <3>1. i - k \in 1 .. Len(s) - k /\ k + (i - k) = i
      BY <1>7, <2>2
    <3>2. (a \o b)[i] = b[i - k]
      BY <1>1, <1>7, <2>2
    <3> QED
      BY <1>2, <3>1, <3>2
  <2> QED
    BY <2>1, <2>2
<1>5. a \o b = s
  BY <1>3, <1>4, SameSeq
<1>6. Total(a \o b) = Total(a) + Total(b)
  BY <1>1, TotalConcat
<1> QED
  BY <1>1, <1>5, <1>6 DEF a, b

\* Of a sequence, what is left without one of its elements.
LEMMA RemoveAtIs ==
    ASSUME NEW A, NEW s \in Seq(A), NEW i \in 1 .. Len(s)
    PROVE  /\ RemoveAt(s, i) \in Seq(A) /\ Len(RemoveAt(s, i)) = Len(s) - 1
           /\ \A j \in 1 .. Len(s) - 1 : RemoveAt(s, i)[j] = IF j < i THEN s[j] ELSE s[j + 1]
           /\ RemoveAt(s, i) = SubSeq(s, 1, i - 1) \o SubSeq(s, i + 1, Len(s))
<1> DEFINE a == SubSeq(s, 1, i - 1)
           b == SubSeq(s, i + 1, Len(s))
<1>1. a \in Seq(A) /\ b \in Seq(A) /\ Len(a) = i - 1 /\ Len(b) = Len(s) - i
  OBVIOUS
<1>2. /\ \A j \in 1 .. i - 1 : a[j] = s[j]
      /\ \A j \in 1 .. Len(s) - i : b[j] = s[i + j]
  OBVIOUS
<1>3. RemoveAt(s, i) = a \o b
  BY DEF RemoveAt
<1> HIDE DEF a, b
<1>4. a \o b \in Seq(A) /\ Len(a \o b) = Len(s) - 1
  BY <1>1
<1>5. ASSUME NEW j \in 1 .. Len(s) - 1 PROVE (a \o b)[j] = IF j < i THEN s[j] ELSE s[j + 1]
  <2>1. CASE j < i
    BY <1>1, <1>2, <2>1
  <2>2. CASE ~(j < i)
    <3>1. j - (i - 1) \in 1 .. Len(s) - i /\ i + (j - (i - 1)) = j + 1
      BY <2>2
    <3>2. (a \o b)[j] = b[j - (i - 1)]
      BY <1>1, <2>2
    <3> QED
      BY <1>2, <2>2, <3>1, <3>2
  <2> QED
    BY <2>1, <2>2
<1> QED
  BY <1>3, <1>4, <1>5 DEF a, b

LEMMA TotalWithout ==
    ASSUME NEW s \in Seq(Entries), NEW i \in 1 .. Len(s)
    PROVE  Total(s) = Total(RemoveAt(s, i)) + s[i][2] /\ Total(RemoveAt(s, i)) \in Nat
<1> DEFINE a == SubSeq(s, 1, i - 1)
           b == SubSeq(s, i + 1, Len(s))
           c == SubSeq(s, 1, i)
<1>1. a \in Seq(Entries) /\ b \in Seq(Entries) /\ c \in Seq(Entries) /\ s[i] \in Entries
  OBVIOUS
<1>2. Len(a) = i - 1 /\ Len(c) = i /\ (\A j \in 1 .. i - 1 : a[j] = s[j]) /\ (\A j \in 1 .. i : c[j] = s[j])
  OBVIOUS
<1>3. Total(s) = Total(c) + Total(b)
  BY TotalSplit
<1>4. RemoveAt(s, i) = a \o b
  BY RemoveAtIs
<1> HIDE DEF a, b, c
<1>5. c = Append(a, s[i])
  <2>1. Append(a, s[i]) \in Seq(Entries) /\ Len(Append(a, s[i])) = i
    BY <1>1, <1>2
  <2>2. \A j \in 1 .. i : Append(a, s[i])[j] = c[j]
    BY <1>1, <1>2
  <2> QED
    BY <1>1, <1>2, <2>1, <2>2
<1>6. Total(c) = Total(a) + s[i][2] /\ s[i][2] \in Nat
  BY <1>1, <1>5, TotalAppend
<1>7. Total(a) \in Nat /\ Total(b) \in Nat /\ Total(c) \in Nat /\ Total(a \o b) = Total(a) + Total(b)
  BY <1>1, TotalTyped, TotalConcat
<1> QED
  BY <1>3, <1>4, <1>6, <1>7

\* The entries are of different files, the bytes theirs.
CacheInv ==
    /\ fileCache \in Seq(Entries) /\ cacheCalls \in 0 .. MaxCacheCalls
    /\ \A i, j \in 1 .. Len(fileCache) : fileCache[i][1] = fileCache[j][1] => i = j
    /\ bytes = Total(fileCache)
    /\ Len(fileCache) <= MaxEntries /\ (bytes <= MaxBytes \/ Len(fileCache) = 1)

\* What is left without a file: its entry is gone, and its bytes with it.
LEMMA CacheWithoutIs ==
    ASSUME CacheInv, NEW p \in Paths
    PROVE  /\ WithoutPath(p) \in Seq(Entries)
           /\ \A i \in 1 .. Len(WithoutPath(p)) : WithoutPath(p)[i][1] # p
           /\ \A i, j \in 1 .. Len(WithoutPath(p)) : WithoutPath(p)[i][1] = WithoutPath(p)[j][1] => i = j
           /\ BytesWithout(p) = Total(WithoutPath(p)) /\ BytesWithout(p) \in Nat
           /\ Len(WithoutPath(p)) = IF At(p) = {} THEN Len(fileCache) ELSE Len(fileCache) - 1
           /\ At(p) # {} => <<p, SizeOf(p)>> \in Entries
<1> DEFINE s == fileCache
<1>1. s \in Seq(Entries) /\ DOMAIN s = 1 .. Len(s) /\ Len(s) \in Nat
      /\ \A i, j \in 1 .. Len(s) : s[i][1] = s[j][1] => i = j
  BY DEF CacheInv
<1>2. CASE At(p) = {}
  <2>1. WithoutPath(p) = s /\ SizeOf(p) = 0
    BY <1>2 DEF WithoutPath, SizeOf
  <2>2. \A i \in 1 .. Len(s) : s[i][1] # p
    BY <1>1, <1>2 DEF At
  <2>3. Total(s) \in Nat /\ bytes = Total(s)
    BY <1>1, TotalTyped DEF CacheInv
  <2>4. BytesWithout(p) = Total(s)
    BY <2>1, <2>3 DEF BytesWithout
  <2> QED
    BY <1>1, <1>2, <2>1, <2>2, <2>3, <2>4
<1>3. CASE At(p) # {}
  <2>1. PICK i : i = CHOOSE x \in At(p) : TRUE
    OBVIOUS
  <2>2. i \in 1 .. Len(s) /\ s[i][1] = p
    BY <1>1, <1>3, <2>1 DEF At
  <2>3. WithoutPath(p) = RemoveAt(s, i) /\ SizeOf(p) = s[i][2]
    BY <1>3, <2>1 DEF WithoutPath, SizeOf
  <2> DEFINE r == RemoveAt(s, i)
  <2>4. /\ r \in Seq(Entries) /\ Len(r) = Len(s) - 1
        /\ \A j \in 1 .. Len(s) - 1 : r[j] = IF j < i THEN s[j] ELSE s[j + 1]
    BY <1>1, <2>2, RemoveAtIs
  <2>5. Total(s) = Total(r) + s[i][2] /\ Total(r) \in Nat
    BY <1>1, <2>2, TotalWithout
  <2>6. s[i] \in Entries
    BY <1>1, <2>2
  <2>7. s[i][2] \in Nat /\ <<p, s[i][2]>> \in Entries
    BY <2>2, <2>6, CacheAssumption DEF Entries
  <2> HIDE DEF s, r
  <2>8. ASSUME NEW j \in 1 .. Len(r)
        PROVE  \E k \in 1 .. Len(s) : r[j] = s[k] /\ k # i /\ k = (IF j < i THEN j ELSE j + 1)
    <3>1. CASE j < i
      BY <1>1, <2>2, <2>4, <3>1
    <3>2. CASE ~(j < i)
      <4>1. j + 1 \in 1 .. Len(s) /\ j + 1 # i /\ r[j] = s[j + 1]
        BY <1>1, <2>2, <2>4, <3>2
      <4> QED
        BY <3>2, <4>1
    <3> QED
      BY <3>1, <3>2
  <2>9. ASSUME NEW j \in 1 .. Len(r) PROVE r[j][1] # p
    <3>1. PICK k \in 1 .. Len(s) : r[j] = s[k] /\ k # i
      BY <2>8
    <3> QED
      BY <1>1, <2>2, <3>1
  <2>10. ASSUME NEW j \in 1 .. Len(r), NEW h \in 1 .. Len(r), r[j][1] = r[h][1] PROVE j = h
    <3>1. PICK k \in 1 .. Len(s) : r[j] = s[k] /\ k = (IF j < i THEN j ELSE j + 1)
      BY <2>8
    <3>2. PICK l \in 1 .. Len(s) : r[h] = s[l] /\ l = (IF h < i THEN h ELSE h + 1)
      BY <2>8
    <3>3. k = l
      BY <1>1, <2>10, <3>1, <3>2
    <3> QED
      BY <1>1, <2>2, <2>4, <3>1, <3>2, <3>3
  <2>11. BytesWithout(p) = Total(r)
    BY <2>3, <2>5, <2>7 DEF BytesWithout, CacheInv, s
  <2>12. Len(WithoutPath(p)) = Len(fileCache) - 1
    BY <2>3, <2>4 DEF r, s
  <2> QED
    BY <1>3, <2>3, <2>4, <2>5, <2>7, <2>9, <2>10, <2>11, <2>12 DEF r
<1> QED
  BY <1>2, <1>3

\* An entry of a file that the others are not of comes last.
LEMMA PutLast ==
    ASSUME NEW s \in Seq(Entries), NEW e \in Entries,
           \A i, j \in 1 .. Len(s) : s[i][1] = s[j][1] => i = j,
           \A i \in 1 .. Len(s) : s[i][1] # e[1]
    PROVE  /\ Append(s, e) \in Seq(Entries) /\ Len(Append(s, e)) = Len(s) + 1
           /\ \A i, j \in 1 .. Len(Append(s, e)) : Append(s, e)[i][1] = Append(s, e)[j][1] => i = j
           /\ Total(Append(s, e)) = Total(s) + e[2] /\ Total(s) \in Nat /\ e[2] \in Nat
<1> DEFINE t == Append(s, e)
<1>1. t \in Seq(Entries) /\ Len(t) = Len(s) + 1 /\ Len(s) \in Nat /\ t[Len(s) + 1] = e
  OBVIOUS
<1>2. \A i \in 1 .. Len(s) : t[i] = s[i]
  OBVIOUS
<1>3. Total(t) = Total(s) + e[2] /\ Total(s) \in Nat /\ e[2] \in Nat
  BY TotalAppend
<1> HIDE DEF t
<1>4. \A i \in 1 .. Len(t) : i \in 1 .. Len(s) \/ i = Len(s) + 1
  BY <1>1
<1>5. \A i, j \in 1 .. Len(t) : t[i][1] = t[j][1] => i = j
  BY <1>1, <1>2, <1>4
<1> QED
  BY <1>1, <1>3, <1>5 DEF t

LEMMA GetKeepsCache == ASSUME CacheInv, CacheGet PROVE CacheInv'
<1>1. PICK p \in Paths : At(p) # {} /\ fileCache' = Append(WithoutPath(p), <<p, SizeOf(p)>>)
  BY DEF CacheGet
<1> DEFINE r == WithoutPath(p)
           e == <<p, SizeOf(p)>>
<1>2. /\ r \in Seq(Entries) /\ e \in Entries /\ e[1] = p /\ e[2] = SizeOf(p)
      /\ \A i \in 1 .. Len(r) : r[i][1] # p
      /\ \A i, j \in 1 .. Len(r) : r[i][1] = r[j][1] => i = j
      /\ BytesWithout(p) = Total(r) /\ Len(r) = Len(fileCache) - 1
  BY <1>1, CacheWithoutIs
<1>3. fileCache' = Append(r, e) /\ UNCHANGED bytes /\ cacheCalls' \in 0 .. MaxCacheCalls
  BY <1>1, CacheAssumption DEF CacheGet, CacheCall, CacheInv
<1> HIDE DEF r, e
<1>4. /\ fileCache' \in Seq(Entries) /\ Len(fileCache') = Len(r) + 1
      /\ \A i, j \in 1 .. Len(fileCache') : fileCache'[i][1] = fileCache'[j][1] => i = j
      /\ Total(fileCache') = Total(r) + e[2] /\ Total(r) \in Nat /\ e[2] \in Nat
  BY <1>2, <1>3, PutLast
<1>5. bytes \in Nat /\ Len(fileCache) \in Nat
  BY TotalTyped DEF CacheInv
<1>6. bytes' = Total(fileCache')
  BY <1>2, <1>3, <1>4, <1>5 DEF BytesWithout
<1>7. Len(fileCache') = Len(fileCache)
  BY <1>2, <1>4, <1>5
<1> QED
  BY <1>3, <1>4, <1>6, <1>7 DEF CacheInv

LEMMA DeleteKeepsCache == ASSUME CacheInv, CacheDelete PROVE CacheInv'
<1>1. PICK p \in Paths : At(p) # {} /\ fileCache' = WithoutPath(p) /\ bytes' = BytesWithout(p)
  BY DEF CacheDelete
<1>2. /\ fileCache' \in Seq(Entries) /\ bytes' = Total(fileCache') /\ Len(fileCache') = Len(fileCache) - 1
      /\ \A i, j \in 1 .. Len(fileCache') : fileCache'[i][1] = fileCache'[j][1] => i = j
      /\ bytes' \in Nat
  BY <1>1, CacheWithoutIs
<1>3. cacheCalls' \in 0 .. MaxCacheCalls
  BY CacheAssumption DEF CacheDelete, CacheCall, CacheInv
<1>4. Len(fileCache) \in Nat /\ Len(fileCache) <= MaxEntries /\ MaxEntries \in Nat
  BY CacheAssumption DEF CacheInv
<1>5. bytes \in Nat
  BY TotalTyped DEF CacheInv
<1>6. SizeOf(p) \in Nat
  <2>1. <<p, SizeOf(p)>> \in Entries
    BY <1>1, CacheWithoutIs
  <2> QED
    BY <2>1, CacheAssumption DEF Entries
<1>7. bytes' <= bytes
  BY <1>1, <1>5, <1>6 DEF BytesWithout
<1>8. bytes' <= MaxBytes
  <2>1. CASE Len(fileCache) = 1
    <3>1. fileCache' = <<>>
      BY <1>2, <2>1
    <3> QED
      BY <1>2, <3>1, TotalEmpty, CacheAssumption
  <2>2. CASE bytes <= MaxBytes
    BY <1>2, <1>5, <1>7, <2>2, CacheAssumption
  <2> QED
    BY <2>1, <2>2 DEF CacheInv
<1>9. bytes' = Total(fileCache') /\ Len(fileCache') <= MaxEntries
  BY <1>2, <1>4
<1> QED
  BY <1>2, <1>3, <1>8, <1>9 DEF CacheInv

\* How many entries go, as the least number that makes room.
LEMMA EvictsIs ==
    ASSUME NEW s \in Seq(Entries), NEW held, NEW n
    PROVE  /\ Evicts(s, held, n) \in 0 .. Len(s)
           /\ LET k == Evicts(s, held, n)
              IN k = Len(s) \/ (Len(s) - k < MaxEntries /\ held - Total(SubSeq(s, 1, k)) + n <= MaxBytes)
<1> DEFINE fits(i) == i = Len(s) \/ (Len(s) - i < MaxEntries /\ held - Total(SubSeq(s, 1, i)) + n <= MaxBytes)
           S == {i \in 0 .. Len(s) : fits(i)}
<1>1. Evicts(s, held, n) = CHOOSE k \in 0 .. Len(s) : fits(k) /\ \A i \in 0 .. (k - 1) : ~fits(i)
  BY DEF Evicts
<1>2. Len(s) \in Nat /\ fits(Len(s))
  OBVIOUS
<1> HIDE DEF fits
<1>3. S \subseteq Nat /\ S # {}
  BY <1>2
<1> HIDE DEF S
<1>4. PICK k \in S : \A q \in S : k <= q
  BY <1>3, LeastNat
<1>5. k \in 0 .. Len(s) /\ fits(k) /\ \A i \in 0 .. (k - 1) : ~fits(i)
  BY <1>2, <1>4 DEF S
<1>6. Evicts(s, held, n) \in 0 .. Len(s) /\ fits(Evicts(s, held, n))
  BY <1>1, <1>5
<1> QED
  BY <1>6 DEF fits

LEMMA SetKeepsCache == ASSUME CacheInv, CacheSet PROVE CacheInv'
<1>1. PICK p \in Paths, n \in Sizes :
         LET rest == WithoutPath(p)
             k == Evicts(rest, BytesWithout(p), n)
         IN /\ fileCache' = Append(SubSeq(rest, k + 1, Len(rest)), <<p, n>>)
            /\ bytes' = BytesWithout(p) - Total(SubSeq(rest, 1, k)) + n
  BY DEF CacheSet
<1>2. PICK r : r = WithoutPath(p)
  OBVIOUS
<1>3. PICK k : k = Evicts(r, BytesWithout(p), n)
  OBVIOUS
<1>4. /\ r \in Seq(Entries)
      /\ \A i \in 1 .. Len(r) : r[i][1] # p
      /\ \A i, j \in 1 .. Len(r) : r[i][1] = r[j][1] => i = j
      /\ BytesWithout(p) = Total(r)
  BY <1>2, CacheWithoutIs
<1>5. k \in 0 .. Len(r) /\ (k = Len(r) \/ (Len(r) - k < MaxEntries /\ Total(r) - Total(SubSeq(r, 1, k)) + n <= MaxBytes))
  BY <1>3, <1>4, EvictsIs
<1> DEFINE a == SubSeq(r, 1, k)
           b == SubSeq(r, k + 1, Len(r))
<1>6. fileCache' = Append(b, <<p, n>>) /\ bytes' = Total(r) - Total(a) + n
  BY <1>1, <1>2, <1>3, <1>4
<1>7. a \in Seq(Entries) /\ b \in Seq(Entries) /\ Total(r) = Total(a) + Total(b)
  BY <1>4, <1>5, TotalSplit
<1>8. Len(b) = Len(r) - k /\ \A i \in 1 .. Len(b) : b[i] = r[k + i] /\ k + i \in 1 .. Len(r)
  BY <1>4, <1>5
<1>9. Total(a) \in Nat /\ Total(b) \in Nat /\ Total(r) \in Nat
  BY <1>4, <1>7, TotalTyped
<1>10. Len(r) \in Nat /\ k \in Nat
  BY <1>4, <1>5
<1>11. k = Len(r) \/ (Len(r) - k < MaxEntries /\ Total(r) - Total(a) + n <= MaxBytes)
  BY <1>5
<1> HIDE DEF a, b
<1>12. PICK e \in Entries : e = <<p, n>> /\ e[1] = p /\ e[2] = n
  <2>1. <<p, n>> \in Entries /\ <<p, n>>[1] = p /\ <<p, n>>[2] = n
    BY DEF Entries
  <2> QED
    BY <2>1
<1>13. /\ \A i \in 1 .. Len(b) : b[i][1] # e[1]
       /\ \A i, j \in 1 .. Len(b) : b[i][1] = b[j][1] => i = j
  <2>1. \A i \in 1 .. Len(b) : b[i][1] # p
    BY <1>4, <1>8
  <2>2. ASSUME NEW i \in 1 .. Len(b), NEW j \in 1 .. Len(b), b[i][1] = b[j][1] PROVE i = j
    <3>1. b[i] = r[k + i] /\ b[j] = r[k + j] /\ k + i \in 1 .. Len(r) /\ k + j \in 1 .. Len(r)
      BY <1>8
    <3>2. k + i = k + j
      BY <1>4, <2>2, <3>1
    <3>3. i \in Nat /\ j \in Nat
      BY <1>8
    <3> QED
      BY <1>10, <3>2, <3>3
  <2> QED
    BY <1>12, <2>1, <2>2
<1>14. /\ fileCache' \in Seq(Entries) /\ Len(fileCache') = Len(b) + 1
       /\ \A i, j \in 1 .. Len(fileCache') : fileCache'[i][1] = fileCache'[j][1] => i = j
       /\ Total(fileCache') = Total(b) + n /\ n \in Nat
  <2>1. fileCache' = Append(b, e) /\ b \in Seq(Entries)
    BY <1>6, <1>7, <1>12
  <2>2. /\ fileCache' \in Seq(Entries) /\ Len(fileCache') = Len(b) + 1
        /\ \A i, j \in 1 .. Len(fileCache') : fileCache'[i][1] = fileCache'[j][1] => i = j
        /\ Total(fileCache') = Total(b) + e[2] /\ e[2] \in Nat
    BY <1>13, <2>1, PutLast
  <2> QED
    BY <1>12, <2>2
<1>15. bytes' = Total(fileCache') /\ bytes' = Total(b) + n
  BY <1>6, <1>7, <1>9, <1>14
<1>16. Len(fileCache') <= MaxEntries /\ (bytes' <= MaxBytes \/ Len(fileCache') = 1)
  <2>1. CASE k = Len(r)
    BY <1>8, <1>10, <1>14, <2>1, CacheAssumption
  <2>2. CASE Len(r) - k < MaxEntries /\ Total(r) - Total(a) + n <= MaxBytes
    BY <1>6, <1>8, <1>10, <1>14, <2>2, CacheAssumption
  <2> QED
    BY <1>11, <2>1, <2>2
<1>17. cacheCalls' \in 0 .. MaxCacheCalls
  BY CacheAssumption DEF CacheSet, CacheCall, CacheInv
<1> QED
  BY <1>14, <1>15, <1>16, <1>17 DEF CacheInv

LEMMA CacheStart == ASSUME CacheInit PROVE CacheInv
<1>1. <<>> \in Seq(Entries) /\ Len(<<>>) = 0
  OBVIOUS
<1> QED
  BY <1>1, TotalEmpty, CacheAssumption DEF CacheInit, CacheInv

LEMMA CacheStep == ASSUME CacheInv, [CacheNext]_cacheVars PROVE CacheInv'
<1>1. CASE CacheClear
  <2>1. <<>> \in Seq(Entries) /\ Len(<<>>) = 0
    OBVIOUS
  <2>2. cacheCalls' \in 0 .. MaxCacheCalls /\ fileCache' = <<>> /\ bytes' = 0
    BY <1>1, CacheAssumption DEF CacheClear, CacheCall, CacheInv
  <2> QED
    BY <2>1, <2>2, TotalEmpty, CacheAssumption DEF CacheInv
<1>2. CASE UNCHANGED cacheVars
  BY <1>2 DEF cacheVars, CacheInv
<1> QED
  BY <1>1, <1>2, GetKeepsCache, SetKeepsCache, DeleteKeepsCache DEF CacheNext

LEMMA CacheThen == ASSUME CacheInv PROVE CacheTypeOK /\ CacheKeepsItsLimits
<1>1. DOMAIN fileCache = 1 .. Len(fileCache) /\ \A i \in 1 .. Len(fileCache) : fileCache[i] \in Entries
  BY DEF CacheInv
<1>2. bytes \in Nat
  BY TotalTyped DEF CacheInv
<1>3. ASSUME NEW p \in Paths PROVE Cardinality(At(p)) <= 1
  <2>1. CASE At(p) = {}
    BY <2>1, FS_EmptySet
  <2>2. CASE At(p) # {}
    <3>1. PICK i : i \in At(p)
      BY <2>2
    <3>2. At(p) = {i}
      BY <1>1, <3>1 DEF At, CacheInv
    <3> QED
      BY <3>2, FS_Singleton
  <2> QED
    BY <2>1, <2>2
<1> QED
  BY <1>1, <1>2, <1>3 DEF CacheInv, CacheTypeOK, CacheKeepsItsLimits, Entries

\* The SDK's file cache: it counts its bytes as they are and keeps within its
\* limits, whatever is read, set, deleted and evicted.
THEOREM CacheKeptInLimits == CacheSpec => [](CacheTypeOK /\ CacheKeepsItsLimits)
<1>1. CacheInit => CacheInv
  BY CacheStart
<1>2. CacheInv /\ [CacheNext]_cacheVars => CacheInv'
  BY CacheStep
<1>3. CacheInv => CacheTypeOK /\ CacheKeepsItsLimits
  BY CacheThen
<1> QED
  BY <1>1, <1>2, <1>3, PTL DEF CacheSpec

-----------------------------------------------------------------------------
(* SdkWire: a message of the conversation is some messages on the wire, and *)
(* the calls of one are answered by the results in the next.               *)

\* A conversation that grows grows on the wire too.
Convert == [p \in Seq(WireTypes) \X WireMessageTypes |-> p[1] \o WireMessages(p[2])]

LEMMA BlockIdsTyped ==
    ASSUME NEW s \in Seq(Wired), \A i \in 1 .. Len(s) : s[i][2] \in CallIds
    PROVE  BlockIds(s) \in Seq(CallIds) /\ Len(BlockIds(s)) = Len(s) /\ \A i \in 1 .. Len(s) : BlockIds(s)[i] = s[i][2]
<1>1. DOMAIN s = 1 .. Len(s) /\ Len(s) \in Nat
  OBVIOUS
<1>2. BlockIds(s) = [i \in 1 .. Len(s) |-> s[i][2]]
  BY <1>1 DEF BlockIds
<1>3. BlockIds(s) \in [1 .. Len(s) -> CallIds]
  BY <1>2
<1> QED
  BY <1>1, <1>2, <1>3

\* The blocks of one type.
LEMMA OfTypeTyped ==
    ASSUME NEW m \in WireMessageTypes, NEW t
    PROVE  /\ OfType(m, t) \in Seq(Wired) /\ Len(OfType(m, t)) \in Nat
           /\ \A i \in 1 .. Len(OfType(m, t)) : OfType(m, t)[i] \in Wired /\ OfType(m, t)[i][1] = t
<1> DEFINE S == {b \in Wired : b[1] = t}
<1>1. m.blocks \in Seq(Wired) /\ OfType(m, t) = Picked(m.blocks, S)
  BY DEF WireMessageTypes, OfType
<1> HIDE DEF S
<1>2. OfType(m, t) \in Seq(Wired \cap S)
  BY <1>1, PickedTyped
<1>3. OfType(m, t) \in [1 .. Len(OfType(m, t)) -> Wired \cap S] /\ Len(OfType(m, t)) \in Nat
  BY <1>2
<1>4. OfType(m, t) \in [1 .. Len(OfType(m, t)) -> Wired]
  BY <1>3
<1> QED
  BY <1>3, <1>4 DEF S

LEMMA CallBlock ==
    ASSUME NEW b \in Wired, b[1] = "tool_use" \/ b[1] = "tool_result" PROVE b[2] \in CallIds
<1>1. CASE b = TextBlock
  BY <1>1 DEF TextBlock
<1>2. CASE b \in {"tool_use", "tool_result"} \X CallIds
  BY <1>2
<1> QED
  BY <1>1, <1>2 DEF Wired

\* What a user's message becomes: its results, one by one, and one message for the text.
LEMMA UserMessagesIs ==
    ASSUME NEW m \in WireMessageTypes
    PROVE  LET rs == OfType(m, "tool_result")
               w  == UserMessages(m)
           IN /\ w \in Seq(WireTypes) /\ Len(w) \in {Len(rs), Len(rs) + 1}
              /\ \A i \in 1 .. Len(rs) : w[i].role = "tool" /\ w[i].ids[1] = rs[i][2]
              /\ \A i \in 1 .. Len(w) : w[i].role # "assistant"
              /\ Len(w) = Len(rs) + 1 => w[Len(w)].role = "user"
<1>1. PICK rs \in Seq(Wired) : /\ rs = OfType(m, "tool_result") /\ Len(rs) \in Nat
                               /\ \A i \in 1 .. Len(rs) : rs[i] \in Wired /\ rs[i][1] = "tool_result"
  BY OfTypeTyped
<1>2. \A i \in 1 .. Len(rs) : rs[i][2] \in CallIds
  BY <1>1, CallBlock
<1> DEFINE a == ToolMessages(m)
           b == UserText(m)
<1>3. a = [i \in 1 .. Len(rs) |-> [role |-> "tool", ids |-> <<rs[i][2]>>]]
  <2>1. DOMAIN rs = 1 .. Len(rs)
    OBVIOUS
  <2> QED
    BY <1>1, <2>1 DEF ToolMessages, WireMessage
<1>4. a \in [1 .. Len(rs) -> WireTypes]
  <2> SUFFICES ASSUME NEW i \in 1 .. Len(rs) PROVE [role |-> "tool", ids |-> <<rs[i][2]>>] \in WireTypes
    BY <1>3
  <2>1. <<rs[i][2]>> \in Seq(CallIds)
    BY <1>2
  <2> QED
    BY <2>1 DEF WireTypes
<1>5. a \in Seq(WireTypes) /\ Len(a) = Len(rs)
  BY <1>1, <1>4
<1>6. \A i \in 1 .. Len(rs) : a[i].role = "tool" /\ a[i].ids[1] = rs[i][2]
  BY <1>3
<1>7. b = <<>> \/ b = <<[role |-> "user", ids |-> <<>>]>>
  BY DEF UserText, WireMessage
<1>8. [role |-> "user", ids |-> <<>>] \in WireTypes
  BY DEF WireTypes
<1>9. b \in Seq(WireTypes) /\ Len(b) \in {0, 1} /\ (Len(b) = 1 => b[1].role = "user")
  <2>1. CASE b = <<>>
    <3>1. <<>> \in Seq(WireTypes) /\ Len(<<>>) = 0
      OBVIOUS
    <3> HIDE DEF b
    <3> QED
      BY <2>1, <3>1
  <2>2. CASE b = <<[role |-> "user", ids |-> <<>>]>>
    <3> DEFINE e == [role |-> "user", ids |-> <<>>]
    <3>1. e \in WireTypes /\ e.role = "user" /\ b = <<e>>
      BY <1>8, <2>2
    <3> HIDE DEF b, e
    <3>2. <<e>> \in Seq(WireTypes) /\ Len(<<e>>) = 1 /\ <<e>>[1] = e
      BY <3>1
    <3> QED
      BY <3>1, <3>2
  <2> HIDE DEF b
  <2> QED
    BY <1>7, <2>1, <2>2
<1>10. UserMessages(m) = a \o b
  BY DEF UserMessages
<1> HIDE DEF a, b
<1>20. PICK n \in Nat, k \in {0, 1} : n = Len(rs) /\ k = Len(b)
  BY <1>1, <1>9
<1>11. a \o b \in Seq(WireTypes) /\ Len(a \o b) = Len(rs) + Len(b)
  BY <1>5, <1>9
<1>12. \A i \in 1 .. Len(rs) : (a \o b)[i] = a[i]
  <2>1. \A i \in 1 .. Len(a) : (a \o b)[i] = a[i]
    BY <1>5, <1>9
  <2> QED
    BY <1>5, <2>1
<1>13. Len(b) = 1 => (a \o b)[Len(rs) + 1] = b[1]
  <2>1. \A j \in 1 .. Len(b) : (a \o b)[Len(a) + j] = b[j]
    BY <1>5, <1>9, ConcatIs
  <2> SUFFICES ASSUME Len(b) = 1 PROVE (a \o b)[Len(rs) + 1] = b[1]
    OBVIOUS
  <2>2. 1 \in 1 .. Len(b)
    OBVIOUS
  <2> QED
    BY <1>5, <2>1, <2>2
<1>14. \A i \in 1 .. Len(a \o b) : i \in 1 .. Len(rs) \/ (i = Len(rs) + 1 /\ Len(b) = 1)
  <2>1. PICK l \in Nat : l = Len(a \o b) /\ l = n + k
    BY <1>11, <1>20
  <2>2. \A i \in 1 .. l : i \in 1 .. n \/ (i = n + 1 /\ k = 1)
    BY <2>1
  <2> QED
    BY <1>20, <2>1, <2>2
<1>15. \A i \in 1 .. Len(a \o b) : (a \o b)[i].role # "assistant"
  BY <1>6, <1>9, <1>12, <1>13, <1>14
<1> HIDE DEF UserMessages
<1>16. PICK w \in Seq(WireTypes) : w = a \o b
  BY <1>11
<1>17. /\ Len(w) = Len(rs) + Len(b) /\ \A i \in 1 .. Len(rs) : w[i].role = "tool" /\ w[i].ids[1] = rs[i][2]
       /\ \A i \in 1 .. Len(w) : w[i].role # "assistant"
       /\ Len(w) = Len(rs) + 1 => w[Len(w)].role = "user"
  BY <1>1, <1>6, <1>9, <1>11, <1>12, <1>13, <1>15, <1>16
<1>18. Len(w) \in {Len(rs), Len(rs) + 1}
  <2>1. Len(w) = n + k
    BY <1>17, <1>20
  <2>2. Len(w) = n \/ Len(w) = n + 1
    BY <2>1
  <2> QED
    BY <1>20, <2>2
<1> QED
  BY <1>1, <1>10, <1>16, <1>17, <1>18

LEMMA AssistantMessagesIs ==
    ASSUME NEW m \in WireMessageTypes
    PROVE  \E a \in WireTypes : /\ AssistantMessages(m) = <<a>> /\ a.role = "assistant"
                                /\ a.ids = BlockIds(OfType(m, "tool_use"))
<1>1. PICK us \in Seq(Wired) : /\ us = OfType(m, "tool_use")
                               /\ \A i \in 1 .. Len(us) : us[i] \in Wired /\ us[i][1] = "tool_use"
  BY OfTypeTyped
<1>2. BlockIds(us) \in Seq(CallIds)
  BY <1>1, CallBlock, BlockIdsTyped
<1> DEFINE a == [role |-> "assistant", ids |-> BlockIds(us)]
<1>3. a \in WireTypes /\ a.role = "assistant" /\ a.ids = BlockIds(us)
  BY <1>2 DEF WireTypes
<1>4. AssistantMessages(m) = <<a>>
  BY <1>1 DEF AssistantMessages, WireMessage
<1> QED
  BY <1>1, <1>3, <1>4

LEMMA WireMessagesTyped == ASSUME NEW m \in WireMessageTypes PROVE WireMessages(m) \in Seq(WireTypes)
<1>1. UserMessages(m) \in Seq(WireTypes)
  BY UserMessagesIs
<1>2. AssistantMessages(m) \in Seq(WireTypes)
  <2>1. PICK a \in WireTypes : AssistantMessages(m) = <<a>>
    BY AssistantMessagesIs
  <2> QED
    BY <2>1
<1> QED
  BY <1>1, <1>2 DEF WireMessages

LEMMA ConvertIs ==
    /\ LoopOf(Convert, <<>>, Seq(WireTypes), WireMessageTypes)
    /\ \A w \in Seq(WireTypes), m \in WireMessageTypes : Convert[<<w, m>>] = w \o WireMessages(m)
<1>1. ASSUME NEW p \in Seq(WireTypes) \X WireMessageTypes PROVE p[1] \o WireMessages(p[2]) \in Seq(WireTypes)
  <2>1. p[1] \in Seq(WireTypes) /\ p[2] \in WireMessageTypes
    OBVIOUS
  <2>2. WireMessages(p[2]) \in Seq(WireTypes)
    BY <2>1, WireMessagesTyped
  <2> QED
    BY <2>1, <2>2, ConcatTyped
<1>2. Convert \in [Seq(WireTypes) \X WireMessageTypes -> Seq(WireTypes)]
  BY <1>1 DEF Convert
<1>3. <<>> \in Seq(WireTypes)
  OBVIOUS
<1>4. ASSUME NEW w \in Seq(WireTypes), NEW m \in WireMessageTypes PROVE Convert[<<w, m>>] = w \o WireMessages(m)
  BY DEF Convert
<1> QED
  BY <1>2, <1>3, <1>4 DEF LoopOf

\* The conversation before and after a message, on the wire.
LEMMA WireGrows ==
    ASSUME conversation \in Seq(WireMessageTypes), NEW m \in WireMessageTypes, conversation' = Append(conversation, m)
    PROVE  OnTheWire \in Seq(WireTypes) /\ OnTheWire' = OnTheWire \o WireMessages(m)
<1>1. OnTheWire = Loop(Convert, <<>>, conversation) /\ OnTheWire' = Loop(Convert, <<>>, conversation')
  BY DEF OnTheWire, Convert
<1>2. PICK c \in Seq(WireMessageTypes) : c = conversation
  OBVIOUS
<1>3. /\ Loop(Convert, <<>>, c) \in Seq(WireTypes)
      /\ Loop(Convert, <<>>, Append(c, m)) = Convert[<<Loop(Convert, <<>>, c), m>>]
  BY ConvertIs, LoopStep
<1>4. OnTheWire \in Seq(WireTypes) /\ OnTheWire' = Convert[<<OnTheWire, m>>]
  BY <1>1, <1>2, <1>3
<1> QED
  BY <1>4, ConvertIs

-----------------------------------------------------------------------------
(* Pairs on the wire.                                                      *)

\* The calls of the i-th message have their results behind it.
PairedAt(w, i) ==
    w[i].role = "assistant" =>
        /\ i + Len(w[i].ids) <= Len(w)
        /\ \A j \in i + 1 .. i + Len(w[i].ids) : w[j].role = "tool"
        /\ {w[j].ids[1] : j \in i + 1 .. i + Len(w[i].ids)} = Range(w[i].ids)
        /\ i + Len(w[i].ids) < Len(w) => w[i + Len(w[i].ids) + 1].role # "tool"

\* Of a reply the calls are last; of all before they are answered.
WirePairs ==
    /\ LastRole = "assistant" =>
         /\ Len(OnTheWire) > 0
         /\ OnTheWire[Len(OnTheWire)].role = "assistant" /\ OnTheWire[Len(OnTheWire)].ids = LastCalls
         /\ \A i \in 1 .. Len(OnTheWire) - 1 : PairedAt(OnTheWire, i)
    /\ LastRole # "assistant" => \A i \in 1 .. Len(OnTheWire) : PairedAt(OnTheWire, i)

WireInv ==
    /\ conversation \in Seq(WireMessageTypes) /\ OnTheWire \in Seq(WireTypes)
    /\ stopReason \in {"none", "end_turn", "max_tokens", "tool_use", "content_filter"}
    /\ attempts \in 0 .. MaxRetries + 1 /\ waiting \in BOOLEAN /\ cancelled \in BOOLEAN /\ late = FALSE
    /\ waiting => attempts <= MaxRetries
    /\ WirePairs

\* What comes behind does not part a pair that was complete.
LEMMA StaysPaired ==
    ASSUME NEW w \in Seq(WireTypes), NEW v \in Seq(WireTypes), NEW i \in 1 .. Len(w), PairedAt(w, i),
           i + Len(w[i].ids) = Len(w) => Len(v) = 0 \/ v[1].role # "tool"
    PROVE  PairedAt(w \o v, i)
<1> DEFINE u == w \o v
<1>1. u \in Seq(WireTypes) /\ Len(u) = Len(w) + Len(v) /\ Len(w) \in Nat /\ Len(v) \in Nat
  OBVIOUS
<1>2. \A j \in 1 .. Len(w) : u[j] = w[j]
  OBVIOUS
<1>3. Len(v) # 0 => u[Len(w) + 1] = v[1]
  OBVIOUS
<1> HIDE DEF u
<1> SUFFICES ASSUME w[i].role = "assistant" PROVE PairedAt(u, i)
  BY <1>2 DEF PairedAt, u
<1>4. u[i] = w[i] /\ w[i] \in WireTypes
  BY <1>2
<1>13. w[i].ids \in Seq(CallIds)
  BY <1>4 DEF WireTypes
<1>14. Len(w[i].ids) \in Nat
  BY <1>13
<1>5. PICK n \in Nat : n = Len(w[i].ids)
  BY <1>14
<1>12. Len(w) \in Nat /\ i \in Nat /\ i >= 1 /\ i <= Len(w)
  BY <1>1
<1>10. PICK l \in Nat : l = Len(w) /\ i \in Nat /\ i >= 1 /\ i <= l
  BY <1>12
<1>6. /\ i + n <= Len(w)
      /\ \A j \in i + 1 .. i + n : w[j].role = "tool"
      /\ {w[j].ids[1] : j \in i + 1 .. i + n} = Range(w[i].ids)
      /\ i + n < Len(w) => w[i + n + 1].role # "tool"
  BY <1>5 DEF PairedAt
<1>7. \A j \in i + 1 .. i + n : j \in 1 .. Len(w) /\ u[j] = w[j]
  BY <1>2, <1>6, <1>10
<1>8. {u[j].ids[1] : j \in i + 1 .. i + n} = {w[j].ids[1] : j \in i + 1 .. i + n}
  BY <1>7
<1>9. i + n < Len(u) => u[i + n + 1].role # "tool"
  <2>1. CASE i + n < Len(w)
    <3>1. i + n + 1 \in 1 .. Len(w)
      BY <1>10, <2>1
    <3> QED
      BY <1>2, <1>6, <2>1, <3>1
  <2>2. CASE i + n = Len(w)
    <3>1. Len(v) # 0 => v[1].role # "tool"
      BY <1>5, <2>2
    <3> QED
      <4> SUFFICES ASSUME i + n < Len(u) PROVE u[i + n + 1].role # "tool"
        OBVIOUS
      <4>1. i + n + 1 = Len(w) + 1 /\ Len(v) # 0
        BY <1>1, <2>2
      <4>2. u[Len(w) + 1] = v[1]
        BY <1>3, <4>1
      <4> QED
        BY <3>1, <4>1, <4>2
  <2> QED
    BY <1>6, <1>10, <2>1, <2>2
<1>11. i + n <= Len(u) /\ \A j \in i + 1 .. i + n : u[j].role = "tool"
  BY <1>1, <1>6, <1>7, <1>10
<1> QED
  BY <1>4, <1>5, <1>6, <1>8, <1>9, <1>11 DEF PairedAt

\* The results that follow at once make a pair of the last reply.
LEMMA ResultsPair ==
    ASSUME NEW w \in Seq(WireTypes), NEW v \in Seq(WireTypes), Len(w) > 0, w[Len(w)].role = "assistant",
           Len(w[Len(w)].ids) <= Len(v),
           \A j \in 1 .. Len(w[Len(w)].ids) : v[j].role = "tool",
           {v[j].ids[1] : j \in 1 .. Len(w[Len(w)].ids)} = Range(w[Len(w)].ids),
           Len(v) > Len(w[Len(w)].ids) => v[Len(w[Len(w)].ids) + 1].role # "tool"
    PROVE  PairedAt(w \o v, Len(w))
<1> DEFINE u == w \o v
<1>1. u \in Seq(WireTypes) /\ Len(u) = Len(w) + Len(v) /\ Len(w) \in Nat /\ Len(v) \in Nat
  OBVIOUS
<1>2. u[Len(w)] = w[Len(w)] /\ w[Len(w)] \in WireTypes
  OBVIOUS
<1>3. \A j \in 1 .. Len(v) : u[Len(w) + j] = v[j]
  OBVIOUS
<1> HIDE DEF u
<1>4. PICK n \in Nat : n = Len(w[Len(w)].ids)
  BY <1>2 DEF WireTypes
<1>5. PICK l \in Nat : l = Len(w)
  BY <1>1
<1>6. /\ n <= Len(v) /\ (\A j \in 1 .. n : v[j].role = "tool") /\ {v[j].ids[1] : j \in 1 .. n} = Range(u[l].ids)
      /\ Len(v) > n => v[n + 1].role # "tool"
  BY <1>2, <1>4, <1>5
<1>7. \A j \in l + 1 .. l + n : j - l \in 1 .. n /\ u[j] = v[j - l]
  BY <1>1, <1>3, <1>5, <1>6
<1>8. {u[j].ids[1] : j \in l + 1 .. l + n} = {v[j].ids[1] : j \in 1 .. n}
  <2>1. \A j \in 1 .. n : l + j \in l + 1 .. l + n /\ u[l + j] = v[j]
    BY <1>1, <1>3, <1>5, <1>6
  <2>2. \A j \in l + 1 .. l + n : u[j].ids[1] \in {v[i].ids[1] : i \in 1 .. n}
    BY <1>7
  <2>3. \A j \in 1 .. n : v[j].ids[1] \in {u[i].ids[1] : i \in l + 1 .. l + n}
    BY <2>1
  <2> QED
    BY <2>2, <2>3
<1>9. l + n < Len(u) => u[l + n + 1].role # "tool"
  BY <1>1, <1>3, <1>5, <1>6
<1>10. l + n <= Len(u) /\ Len(u[l].ids) = n /\ \A j \in l + 1 .. l + n : u[j].role = "tool"
  BY <1>1, <1>2, <1>4, <1>5, <1>6, <1>7
<1> QED
  BY <1>5, <1>6, <1>8, <1>9, <1>10 DEF PairedAt, u

LEMMA BlocksOfOneType ==
    ASSUME NEW t, t # "text", NEW rs \in Seq(Wired), \A i \in 1 .. Len(rs) : rs[i][1] = t,
           NEW bs, bs = rs \/ bs = <<TextBlock>> \o rs, NEW role \in {"user", "assistant"}
    PROVE  /\ [role |-> role, blocks |-> bs] \in WireMessageTypes
           /\ OfType([role |-> role, blocks |-> bs], t) = rs
<1> DEFINE S == {b \in Wired : b[1] = t}
<1>1. TextBlock \in Wired /\ TextBlock \notin S
  BY DEF Wired, TextBlock
<1>2. <<TextBlock>> \in Seq(Wired) /\ <<TextBlock>> \in Seq({TextBlock})
  BY <1>1
<1>3. \A i \in 1 .. Len(rs) : rs[i] \in S
  OBVIOUS
<1>4. OfType([role |-> role, blocks |-> bs], t) = Picked(bs, S)
  BY DEF OfType
<1>5. {TextBlock} \cap S = {}
  BY <1>1
<1> HIDE DEF S
<1>6. Picked(rs, S) = rs
  BY <1>3, PickedAll
<1>7. Picked(<<TextBlock>>, S) = <<>>
  BY <1>2, <1>5, PickedNone
<1>8. Picked(<<TextBlock>> \o rs, S) = <<>> \o rs
  <2>1. Picked(<<TextBlock>> \o rs, S) = Picked(<<TextBlock>>, S) \o Picked(rs, S)
    BY <1>2, PickedConcat
  <2> QED
    BY <1>6, <1>7, <2>1
<1>9. <<>> \o rs = rs
  OBVIOUS
<1>10. <<TextBlock>> \o rs \in Seq(Wired)
  BY <1>2, ConcatTyped
<1> QED
  BY <1>4, <1>6, <1>8, <1>9, <1>10 DEF WireMessageTypes

LEMMA LastCallsTyped == ASSUME WireInv PROVE LastCalls \in Seq(CallIds)
<1>1. CASE conversation = <<>>
  BY <1>1 DEF LastCalls
<1>2. CASE conversation # <<>>
  <2>1. PICK m \in WireMessageTypes : m = Last(conversation)
    BY <1>2 DEF WireInv, Last
  <2>2. PICK us \in Seq(Wired) : us = OfType(m, "tool_use") /\ \A i \in 1 .. Len(us) : us[i] \in Wired /\ us[i][1] = "tool_use"
    BY OfTypeTyped
  <2>3. BlockIds(us) \in Seq(CallIds)
    BY <2>2, CallBlock, BlockIdsTyped
  <2> QED
    BY <1>2, <2>1, <2>2, <2>3 DEF LastCalls
<1> QED
  BY <1>1, <1>2

LEMMA MessageComes ==
    ASSUME WireInv, NEW m \in WireMessageTypes, conversation' = Append(conversation, m)
    PROVE  /\ conversation' \in Seq(WireMessageTypes) /\ LastRole' = m.role
           /\ LastCalls' = BlockIds(OfType(m, "tool_use"))
           /\ OnTheWire \in Seq(WireTypes) /\ WireMessages(m) \in Seq(WireTypes)
           /\ OnTheWire' = OnTheWire \o WireMessages(m) /\ OnTheWire' \in Seq(WireTypes)
<1>1. conversation \in Seq(WireMessageTypes)
  BY DEF WireInv
<1>2. /\ conversation' \in Seq(WireMessageTypes) /\ conversation' # <<>>
      /\ conversation'[Len(conversation')] = m
  BY <1>1
<1>3. Last(conversation)' = m
  BY <1>2 DEF Last
<1>4. LastRole' = m.role /\ LastCalls' = BlockIds(OfType(m, "tool_use"))
  BY <1>2, <1>3 DEF LastRole, LastCalls, OfType
<1>5. OnTheWire \in Seq(WireTypes) /\ OnTheWire' = OnTheWire \o WireMessages(m) /\ WireMessages(m) \in Seq(WireTypes)
  BY <1>1, WireGrows, WireMessagesTyped
<1>6. OnTheWire' \in Seq(WireTypes)
  BY <1>5, ConcatTyped
<1> QED
  BY <1>2, <1>4, <1>5, <1>6

\* The next message of the user keeps the pairs: the results of all the last
\* reply's calls come first.
LEMMA UserKeepsPairs ==
    ASSUME WireInv, NextUserMessage
    PROVE  conversation' \in Seq(WireMessageTypes) /\ OnTheWire' \in Seq(WireTypes) /\ WirePairs'
<1>1. LastCalls \in Seq(CallIds) /\ LastRole # "user"
  BY LastCallsTyped DEF NextUserMessage
<1>2. PICK c \in Seq(CallIds) : c = LastCalls
  BY <1>1
<1>3. PICK order \in [DOMAIN c -> Range(c)], withText \in BOOLEAN :
         /\ Range(order) = Range(c)
         /\ LET results == [i \in DOMAIN order |-> <<"tool_result", order[i]>>]
            IN Grows("user", IF withText \/ results = <<>> THEN <<TextBlock>> \o results ELSE results)
  BY <1>2 DEF NextUserMessage
<1> DEFINE rs == [i \in DOMAIN order |-> <<"tool_result", order[i]>>]
           bs == IF withText \/ rs = <<>> THEN <<TextBlock>> \o rs ELSE rs
           m == [role |-> "user", blocks |-> bs]
<1>4. DOMAIN c = 1 .. Len(c) /\ Len(c) \in Nat /\ Range(c) \subseteq CallIds
  BY DEF Range
<1>5. rs \in [1 .. Len(c) -> Wired] /\ \A i \in 1 .. Len(c) : rs[i] = <<"tool_result", order[i]>>
  <2>1. \A i \in 1 .. Len(c) : order[i] \in CallIds
    BY <1>4
  <2>2. \A i \in 1 .. Len(c) : <<"tool_result", order[i]>> \in Wired
    BY <2>1 DEF Wired
  <2> QED
    BY <1>4, <2>2
<1>6. rs \in Seq(Wired) /\ Len(rs) = Len(c)
  BY <1>4, <1>5
<1>7. \A i \in 1 .. Len(rs) : rs[i][1] = "tool_result" /\ rs[i][2] = order[i]
  BY <1>5, <1>6
<1>8. bs = rs \/ bs = <<TextBlock>> \o rs
  OBVIOUS
<1>9. conversation' = Append(conversation, m)
  BY <1>3 DEF Grows
<1> HIDE DEF bs, rs
<1>10. m \in WireMessageTypes /\ OfType(m, "tool_result") = rs
  BY <1>6, <1>7, <1>8, BlocksOfOneType
<1>11. m.role = "user"
  OBVIOUS
<1> HIDE DEF m
<1>12. /\ conversation' \in Seq(WireMessageTypes) /\ LastRole' = "user"
       /\ OnTheWire \in Seq(WireTypes) /\ WireMessages(m) \in Seq(WireTypes)
       /\ OnTheWire' = OnTheWire \o WireMessages(m) /\ OnTheWire' \in Seq(WireTypes)
  BY <1>9, <1>10, <1>11, MessageComes
<1>13. PICK w \in Seq(WireTypes), v \in Seq(WireTypes) : w = OnTheWire /\ v = WireMessages(m)
  BY <1>12
<1>14. PICK n \in Nat : n = Len(c) /\ n = Len(rs)
  BY <1>4, <1>6
<1>15. /\ Len(v) \in {n, n + 1}
       /\ \A i \in 1 .. n : v[i].role = "tool" /\ v[i].ids[1] = order[i]
       /\ \A i \in 1 .. Len(v) : v[i].role # "assistant"
       /\ Len(v) = n + 1 => v[Len(v)].role = "user"
  <2>1. v = UserMessages(m)
    BY <1>11, <1>13 DEF WireMessages
  <2> QED
    BY ZenonT(40), <1>7, <1>10, <1>14, <2>1, UserMessagesIs
<1>16. Len(w) \in Nat /\ Len(v) \in Nat /\ (\A i \in 1 .. Len(w) : w[i] \in WireTypes)
       /\ (\A i \in 1 .. Len(w) : (w \o v)[i] = w[i]) /\ (\A i \in 1 .. Len(v) : (w \o v)[Len(w) + i] = v[i])
       /\ (\A i \in 1 .. Len(w \o v) : i \in 1 .. Len(w) \/ i - Len(w) \in 1 .. Len(v))
  BY ConcatIs
<1>17. \A j \in 1 .. Len(v) : PairedAt(w \o v, Len(w) + j)
  BY <1>15, <1>16 DEF PairedAt
<1>18. \A i \in 1 .. Len(w) : PairedAt(w \o v, i)
  <2>1. CASE LastRole = "assistant"
    <3>1. /\ Len(w) > 0 /\ w[Len(w)].role = "assistant" /\ w[Len(w)].ids = c
          /\ \A i \in 1 .. Len(w) - 1 : PairedAt(w, i)
      BY <1>2, <1>13, <2>1 DEF WireInv, WirePairs
    <3>2. PairedAt(w \o v, Len(w))
      <4>1. {v[j].ids[1] : j \in 1 .. n} = Range(c)
        <5>0. \A j \in 1 .. n : v[j].ids[1] = order[j]
          BY <1>15
        <5>1. {v[j].ids[1] : j \in 1 .. n} = {order[j] : j \in 1 .. n}
          BY <5>0
        <5>2. DOMAIN order = 1 .. n
          BY <1>4, <1>14
        <5> QED
          BY <1>3, <5>1, <5>2 DEF Range
      <4>2. Len(v) > n => v[n + 1].role # "tool"
        BY <1>14, <1>15
      <4>3. n <= Len(v) /\ \A j \in 1 .. n : v[j].role = "tool"
        BY <1>14, <1>15
      <4> QED
        BY <1>14, <3>1, <4>1, <4>2, <4>3, ResultsPair
    <3>3. ASSUME NEW i \in 1 .. Len(w) - 1 PROVE PairedAt(w \o v, i)
      <4>1. PairedAt(w, i) /\ i \in 1 .. Len(w)
        BY <1>16, <3>1
      <4>2. CASE w[i].role # "assistant"
        BY <1>16, <4>1, <4>2 DEF PairedAt
      <4>3. CASE w[i].role = "assistant"
        <5>3. w[i].ids \in Seq(CallIds)
          BY <1>16, <4>1 DEF WireTypes
        <5>1. PICK k \in Nat : k = Len(w[i].ids)
          BY <5>3
        <5>2. i + k # Len(w)
          <6> SUFFICES ASSUME i + k = Len(w) PROVE FALSE
            OBVIOUS
          <6>1. Len(w) \in i + 1 .. i + k
            BY <1>16, <5>1
          <6> QED
            BY <3>1, <4>1, <4>3, <5>1, <6>1 DEF PairedAt
        <5> QED
          BY <4>1, <5>1, <5>2, StaysPaired
      <4> QED
        BY <4>2, <4>3
    <3> QED
      <4>1. \A i \in 1 .. Len(w) : i \in 1 .. Len(w) - 1 \/ i = Len(w)
        BY <1>16
      <4> QED
        BY <3>2, <3>3, <4>1
  <2>2. CASE LastRole # "assistant"
    <3>1. LastRole = "none" /\ c = <<>>
      <4>1. CASE conversation = <<>>
        BY <1>2, <4>1 DEF LastRole, LastCalls
      <4>2. CASE conversation # <<>>
        <5>1. Last(conversation) \in WireMessageTypes
          BY <4>2 DEF WireInv, Last
        <5> QED
          BY <1>1, <2>2, <4>2, <5>1 DEF LastRole, WireMessageTypes
      <4> QED
        BY <4>1, <4>2
    <3>2. n = 0
      BY <1>14, <3>1
    <3>3. Len(v) # 0 => v[1].role # "tool"
      BY <1>15, <1>16, <3>2
    <3> QED
      BY <1>13, <2>2, <3>3, StaysPaired DEF WireInv, WirePairs
  <2> QED
    BY <2>1, <2>2
<1>19. \A i \in 1 .. Len(w \o v) : PairedAt(w \o v, i)
  <2> SUFFICES ASSUME NEW i \in 1 .. Len(w \o v) PROVE PairedAt(w \o v, i)
    OBVIOUS
  <2>1. CASE i \in 1 .. Len(w)
    BY <1>18, <2>1
  <2>2. CASE i - Len(w) \in 1 .. Len(v)
    <3>1. PairedAt(w \o v, Len(w) + (i - Len(w)))
      BY <1>17, <2>2
    <3>2. Len(w) + (i - Len(w)) = i
      BY <1>16
    <3> QED
      BY <3>1, <3>2
  <2> QED
    BY <1>16, <2>1, <2>2
<1>20. WirePairs'
  BY <1>12, <1>13, <1>19 DEF WirePairs
<1> QED
  BY <1>12, <1>20

\* A reply keeps the pairs: its message is one that is no result.
LEMMA ReplyKeepsPairs ==
    ASSUME WireInv, ReplyArrives
    PROVE  conversation' \in Seq(WireMessageTypes) /\ OnTheWire' \in Seq(WireTypes) /\ WirePairs'
<1>1. PICK finish, hasText \in BOOLEAN, asked \in SeqOf(CallIds \ UsedIds, 2) : Grows("assistant", Normalized(hasText, asked))
  BY DEF ReplyArrives
<1>2. asked \in Seq(CallIds) /\ DOMAIN asked = 1 .. Len(asked) /\ Len(asked) \in Nat
  <2>1. PICK n \in 0 .. 2 : asked \in [1 .. n -> CallIds \ UsedIds]
    BY <1>1 DEF SeqOf
  <2>2. asked \in [1 .. n -> CallIds] /\ n \in Nat
    BY <2>1
  <2>3. asked \in Seq(CallIds)
    BY <2>2
  <2> QED
    BY <2>3
<1> DEFINE us == [i \in DOMAIN asked |-> <<"tool_use", asked[i]>>]
           bs == Normalized(hasText, asked)
           m == [role |-> "assistant", blocks |-> bs]
<1>3. us \in [1 .. Len(asked) -> Wired]
  <2>1. \A i \in 1 .. Len(asked) : asked[i] \in CallIds
    BY <1>2
  <2>2. \A i \in 1 .. Len(asked) : <<"tool_use", asked[i]>> \in Wired
    BY <2>1 DEF Wired
  <2> QED
    BY <1>2, <2>2
<1>4. us \in Seq(Wired) /\ Len(us) = Len(asked)
  BY <1>2, <1>3
<1>5. \A i \in 1 .. Len(us) : us[i][1] = "tool_use"
  BY <1>2, <1>4
<1>6. bs = us \/ bs = <<TextBlock>> \o us
  BY DEF Normalized
<1>7. conversation' = Append(conversation, m)
  BY <1>1 DEF Grows
<1> HIDE DEF us, bs
<1>8. m \in WireMessageTypes /\ m.role = "assistant"
  BY <1>4, <1>5, <1>6, BlocksOfOneType
<1> HIDE DEF m
<1>9. /\ conversation' \in Seq(WireMessageTypes) /\ LastRole' = "assistant" /\ LastCalls' = BlockIds(OfType(m, "tool_use"))
      /\ OnTheWire \in Seq(WireTypes) /\ OnTheWire' = OnTheWire \o WireMessages(m) /\ OnTheWire' \in Seq(WireTypes)
  BY <1>7, <1>8, MessageComes
<1>10. PICK a \in WireTypes : WireMessages(m) = <<a>> /\ a.role = "assistant" /\ a.ids = LastCalls'
  BY <1>8, <1>9, AssistantMessagesIs DEF WireMessages
<1>11. PICK w \in Seq(WireTypes), v \in Seq(WireTypes) : w = OnTheWire /\ v = <<a>>
  <2>1. <<a>> \in Seq(WireTypes)
    OBVIOUS
  <2> QED
    BY <1>9, <2>1
<1>12. Len(v) = 1 /\ v[1] = a
  BY <1>11
<1>13. /\ Len(w \o v) = Len(w) + 1 /\ Len(w) \in Nat /\ (w \o v)[Len(w) + 1] = a
  <2>1. Len(w \o v) = Len(w) + Len(v) /\ Len(w) \in Nat /\ \A i \in 1 .. Len(v) : (w \o v)[Len(w) + i] = v[i]
    BY ConcatIs
  <2> QED
    BY <1>12, <2>1
<1>14. \A i \in 1 .. Len(w) : PairedAt(w \o v, i)
  <2>1. \A i \in 1 .. Len(w) : PairedAt(w, i)
    BY <1>11 DEF WireInv, WirePairs, ReplyArrives, InFlight
  <2>2. v[1].role # "tool"
    BY <1>10, <1>12
  <2> QED
    BY <2>1, <2>2, StaysPaired
<1>15. WirePairs'
  <2>1. OnTheWire' = w \o v
    BY <1>9, <1>10, <1>11
  <2>2. Len(w \o v) > 0 /\ Len(w \o v) - 1 = Len(w)
    BY <1>13
  <2> QED
    BY <1>9, <1>10, <1>13, <1>14, <2>1, <2>2 DEF WirePairs
<1> QED
  BY <1>9, <1>15

LEMMA WireStays ==
    ASSUME WireInv, UNCHANGED conversation
    PROVE  conversation' \in Seq(WireMessageTypes) /\ OnTheWire' \in Seq(WireTypes) /\ WirePairs'
<1>1. OnTheWire' = OnTheWire /\ LastRole' = LastRole /\ LastCalls' = LastCalls
  BY DEF OnTheWire, LastRole, LastCalls
<1> QED
  BY <1>1 DEF WireInv, WirePairs

LEMMA WireStep == ASSUME WireInv, [WireNext]_wireVars PROVE WireInv'
<1>0. attempts \in 0 .. MaxRetries + 1 /\ waiting \in BOOLEAN /\ cancelled \in BOOLEAN /\ late = FALSE
      /\ (waiting => attempts <= MaxRetries) /\ MaxRetries \in Nat
      /\ stopReason \in {"none", "end_turn", "max_tokens", "tool_use", "content_filter"}
  BY RetryAssumption DEF WireInv
<1>1. CASE UNCHANGED wireVars
  BY <1>0, <1>1, WireStays DEF wireVars, WireInv
<1>2. CASE NextUserMessage
  <2>1. attempts' = 0 /\ waiting' = FALSE /\ UNCHANGED <<stopReason, cancelled, late>>
    BY <1>2 DEF NextUserMessage
  <2>2. conversation' \in Seq(WireMessageTypes) /\ OnTheWire' \in Seq(WireTypes) /\ WirePairs'
    BY <1>2, UserKeepsPairs
  <2>3. attempts' \in 0 .. MaxRetries + 1 /\ attempts' <= MaxRetries
    BY <1>0, <2>1
  <2> QED
    BY <1>0, <2>1, <2>2, <2>3 DEF WireInv
<1>3. CASE Attempt
  <2>1. UNCHANGED <<conversation, stopReason, cancelled>>
    BY <1>3 DEF Attempt
  <2>2. late' = FALSE
    BY <1>0, <1>3 DEF Attempt, MayCall
  <2>3. attempts' \in 0 .. MaxRetries + 1
    BY <1>0, <1>3 DEF Attempt
  <2>4. waiting' = FALSE
    BY <1>3 DEF Attempt
  <2> QED
    BY <1>0, <2>1, <2>2, <2>3, <2>4, WireStays DEF WireInv
<1>4. CASE ReplyArrives
  <2>1. attempts' = 0 /\ UNCHANGED <<waiting, cancelled, late>>
    BY <1>4 DEF ReplyArrives
  <2>2. stopReason' \in {"none", "end_turn", "max_tokens", "tool_use", "content_filter"}
    BY <1>4 DEF ReplyArrives, StopReason
  <2>3. /\ attempts' \in 0 .. MaxRetries + 1 /\ (waiting' => attempts' <= MaxRetries)
    BY <1>0, <2>1
  <2> QED
    BY <1>0, <1>4, <2>1, <2>2, <2>3, ReplyKeepsPairs DEF WireInv
<1>5. CASE CallFailed
  <2>1. waiting' = TRUE /\ attempts <= MaxRetries /\ UNCHANGED <<conversation, stopReason, attempts, cancelled, late>>
    BY <1>5 DEF CallFailed
  <2> QED
    BY <1>0, <2>1, WireStays DEF WireInv
<1>6. CASE CancelCall
  <2>1. cancelled' = TRUE /\ UNCHANGED <<conversation, stopReason, attempts, waiting, late>>
    BY <1>6 DEF CancelCall
  <2> QED
    BY <1>0, <2>1, WireStays DEF WireInv
<1> QED
  BY <1>1, <1>2, <1>3, <1>4, <1>5, <1>6 DEF WireNext

LEMMA WireStart == ASSUME WireInit PROVE WireInv
<1>1. Loop(Convert, <<>>, <<>>) = <<>>
  BY ConvertIs, LoopStart
<1>2. OnTheWire = <<>>
  BY <1>1 DEF WireInit, OnTheWire, Convert
<1>3. LastRole = "none" /\ <<>> \in Seq(WireTypes) /\ <<>> \in Seq(WireMessageTypes) /\ Len(<<>>) = 0
  BY DEF WireInit, LastRole
<1>4. WirePairs
  BY <1>2, <1>3 DEF WirePairs
<1>5. attempts = 0 /\ waiting = FALSE /\ cancelled = FALSE /\ late = FALSE /\ stopReason = "none" /\ conversation = <<>>
  BY DEF WireInit
<1>6. attempts \in 0 .. MaxRetries + 1
  BY <1>5, RetryAssumption
<1> QED
  BY <1>2, <1>3, <1>4, <1>5, <1>6 DEF WireInv

LEMMA WireThen == ASSUME WireInv PROVE WireTypeOK /\ WireKeepsPairs /\ RetriesEnd
<1>6. attempts <= MaxRetries + 1 /\ late = FALSE
  BY RetryAssumption DEF WireInv
<1>1. WireTypeOK /\ RetriesEnd
  BY <1>6 DEF WireInv, WireTypeOK, RetriesEnd
<1>2. PICK w \in Seq(WireTypes) : w = OnTheWire
  BY DEF WireInv
<1>3. ASSUME NEW i \in 1 .. Len(w), i < Len(w) PROVE PairedAt(w, i)
  <2>1. Len(w) \in Nat /\ i \in 1 .. Len(w) - 1
    BY <1>3
  <2> QED
    BY <1>2, <2>1 DEF WireInv, WirePairs
<1>4. DOMAIN w = 1 .. Len(w)
  OBVIOUS
<1>5. WireKeepsPairs
  BY ZenonT(40), <1>2, <1>3, <1>4 DEF WireKeepsPairs, PairedAt
<1> QED
  BY <1>1, <1>5

\* The SDK's wire format: on the wire every call is followed at once by its
\* result and no other, and a model call's retries end, with the abort at the latest.
THEOREM WireAlwaysPaired == WireSpec => [](WireTypeOK /\ WireKeepsPairs /\ RetriesEnd)
<1>1. WireInit => WireInv
  BY WireStart
<1>2. WireInv /\ [WireNext]_wireVars => WireInv'
  BY WireStep
<1>3. WireInv => WireTypeOK /\ WireKeepsPairs /\ RetriesEnd
  BY WireThen
<1> QED
  BY <1>1, <1>2, <1>3, PTL DEF WireSpec

-----------------------------------------------------------------------------
(* SdkEngine: what the messages of a conversation keep to.                 *)

\* Calls are followed by results, but for the last, and results follow calls.
PairsOf(s) ==
    \A i \in 1 .. Len(s) :
        /\ s[i].kind = "calls" /\ i < Len(s) => s[i + 1].kind = "results"
        /\ s[i].kind = "results" => i > 1 /\ s[i - 1].kind = "calls"

EndsOpen(s) == Len(s) > 0 /\ s[Len(s)].kind = "calls"

Keeps(s, q) == \E i \in 1 .. Len(s) : s[i].kind = "summary" \/ s[i] = [kind |-> "prompt", query |-> q]

LEMMA SaidPairs ==
    ASSUME NEW s \in Seq(Messages), NEW m \in Messages, PairsOf(s), m.kind = "results" <=> EndsOpen(s)
    PROVE  /\ Append(s, m) \in Seq(Messages) /\ PairsOf(Append(s, m))
           /\ EndsOpen(Append(s, m)) <=> m.kind = "calls"
<1> DEFINE t == Append(s, m)
<1>1. t \in Seq(Messages) /\ Len(t) = Len(s) + 1 /\ Len(s) \in Nat /\ t[Len(s) + 1] = m
  OBVIOUS
<1>2. \A i \in 1 .. Len(s) : t[i] = s[i]
  OBVIOUS
<1> HIDE DEF t
<1>3. \A i \in 1 .. Len(t) : i \in 1 .. Len(s) \/ i = Len(s) + 1
  BY <1>1
<1>4. ASSUME NEW i \in 1 .. Len(t), t[i].kind = "calls", i < Len(t) PROVE t[i + 1].kind = "results"
  <2>1. i \in 1 .. Len(s) /\ s[i].kind = "calls"
    BY <1>1, <1>2, <1>3, <1>4
  <2>2. CASE i < Len(s)
    <3>1. i + 1 \in 1 .. Len(s) /\ s[i + 1].kind = "results"
      BY <1>1, <2>1, <2>2 DEF PairsOf
    <3> QED
      BY <1>2, <3>1
  <2>3. CASE i = Len(s)
    BY <1>1, <2>1, <2>3 DEF EndsOpen
  <2> QED
    BY <1>1, <2>1, <2>2, <2>3
<1>5. ASSUME NEW i \in 1 .. Len(t), t[i].kind = "results" PROVE i > 1 /\ t[i - 1].kind = "calls"
  <2>1. CASE i \in 1 .. Len(s)
    <3>1. i > 1 /\ s[i - 1].kind = "calls"
      BY <1>2, <1>5, <2>1 DEF PairsOf
    <3>2. i - 1 \in 1 .. Len(s)
      BY <1>1, <2>1, <3>1
    <3> QED
      BY <1>2, <3>1, <3>2
  <2>2. CASE i = Len(s) + 1
    <3>1. Len(s) > 0 /\ s[Len(s)].kind = "calls"
      BY <1>1, <1>5, <2>2 DEF EndsOpen
    <3>2. i - 1 = Len(s) /\ Len(s) \in 1 .. Len(s)
      BY <1>1, <2>2, <3>1
    <3> QED
      BY <1>1, <1>2, <3>1, <3>2
  <2> QED
    BY <1>3, <2>1, <2>2
<1>6. EndsOpen(t) <=> m.kind = "calls"
  BY <1>1 DEF EndsOpen
<1> QED
  BY <1>1, <1>4, <1>5, <1>6 DEF PairsOf, t

LEMMA FrontPairs ==
    ASSUME NEW s \in Seq(Messages), PairsOf(s), EndsOpen(s)
    PROVE  /\ Front(s) \in Seq(Messages) /\ PairsOf(Front(s)) /\ ~EndsOpen(Front(s))
           /\ Len(Front(s)) = Len(s) - 1 /\ \A i \in 1 .. Len(s) - 1 : Front(s)[i] = s[i]
<1>1. PICK n \in Nat : n = Len(s) - 1 /\ Len(s) = n + 1
  BY DEF EndsOpen
<1>2. Front(s) = SubSeq(s, 1, n)
  BY <1>1 DEF Front
<1>3. Front(s) \in Seq(Messages) /\ Len(Front(s)) = n /\ \A i \in 1 .. n : Front(s)[i] = s[i]
  BY <1>1, <1>2
<1>4. PICK f \in Seq(Messages) : f = Front(s)
  BY <1>3
<1>5. PairsOf(f)
  <2> SUFFICES ASSUME NEW i \in 1 .. n
               PROVE  /\ f[i].kind = "calls" /\ i < n => f[i + 1].kind = "results"
                      /\ f[i].kind = "results" => i > 1 /\ f[i - 1].kind = "calls"
    BY <1>3, <1>4 DEF PairsOf
  <2>1. f[i] = s[i] /\ i \in 1 .. Len(s) /\ i < Len(s)
    BY SMTT(20), <1>1, <1>3, <1>4
  <2>2. i < n => i + 1 \in 1 .. n /\ f[i + 1] = s[i + 1]
    BY <1>3, <1>4
  <2>3. i > 1 => i - 1 \in 1 .. n /\ f[i - 1] = s[i - 1]
    BY <1>3, <1>4
  <2> QED
    BY <2>1, <2>2, <2>3 DEF PairsOf
<1>6. ~EndsOpen(f)
  <2> SUFFICES ASSUME n > 0, f[n].kind = "calls" PROVE FALSE
    BY <1>3, <1>4 DEF EndsOpen
  <2>1. n \in 1 .. Len(s) /\ s[n].kind = "calls" /\ n < Len(s)
    BY <1>1, <1>3, <1>4
  <2>2. s[n + 1].kind = "results" /\ s[n + 1].kind = "calls"
    BY <1>1, <2>1 DEF PairsOf, EndsOpen
  <2> QED
    BY <2>2
<1> QED
  BY <1>1, <1>3, <1>4, <1>5, <1>6

LEMMA SaidKeeps ==
    ASSUME NEW s \in Seq(Messages), NEW m \in Messages, NEW q
    PROVE  /\ Keeps(s, q) => Keeps(Append(s, m), q)
           /\ m = [kind |-> "prompt", query |-> q] => Keeps(Append(s, m), q)
<1>1. Len(s) \in Nat /\ Len(Append(s, m)) = Len(s) + 1 /\ Append(s, m)[Len(s) + 1] = m
      /\ \A i \in 1 .. Len(s) : Append(s, m)[i] = s[i] /\ i \in 1 .. Len(s) + 1
  OBVIOUS
<1>2. Len(s) + 1 \in 1 .. Len(s) + 1
  BY <1>1
<1> QED
  BY <1>1, <1>2 DEF Keeps

-----------------------------------------------------------------------------
(* What is sent: the groups of a conversation.                             *)

KindGroups == SUBSET MessageKinds
Join == [p \in Seq(SUBSET MessageKinds) \X Messages |-> JoinOne(p[1], p[2].kind)]

LEMMA JoinOneTyped ==
    ASSUME NEW s \in Seq(KindGroups), NEW k \in MessageKinds
    PROVE  /\ JoinOne(s, k) \in Seq(KindGroups)
           /\ IF s # <<>> /\ k \in FromUser /\ s[Len(s)] \subseteq FromUser
              THEN /\ Len(JoinOne(s, k)) = Len(s) /\ JoinOne(s, k)[Len(s)] = s[Len(s)] \cup {k}
                   /\ \A i \in 1 .. Len(s) - 1 : JoinOne(s, k)[i] = s[i]
              ELSE JoinOne(s, k) = Append(s, {k})
<1>1. CASE s # <<>> /\ k \in FromUser /\ s[Len(s)] \subseteq FromUser
  <2>1. PICK n \in Nat : Len(s) = n + 1 /\ n = Len(s) - 1
    BY <1>1
  <2>2. PICK f : f = SubSeq(s, 1, n)
    OBVIOUS
  <2>3. f \in Seq(KindGroups) /\ Len(f) = n /\ \A i \in 1 .. n : f[i] = s[i]
    BY <2>1, <2>2
  <2>4. s[n + 1] \in KindGroups
    BY <2>1
  <2>5. PICK g \in KindGroups : g = s[n + 1] \cup {k}
    BY <2>4 DEF KindGroups
  <2>6. JoinOne(s, k) = f \o <<g>>
    BY <1>1, <2>1, <2>2, <2>5 DEF JoinOne, Front, Last
  <2>7. f \o <<g>> \in Seq(KindGroups) /\ Len(f \o <<g>>) = n + 1 /\ (f \o <<g>>)[n + 1] = g
        /\ \A i \in 1 .. n : (f \o <<g>>)[i] = f[i]
    <3>1. <<g>> \in Seq(KindGroups) /\ Len(<<g>>) = 1 /\ <<g>>[1] = g
      OBVIOUS
    <3>2. f \o <<g>> \in Seq(KindGroups)
      BY <2>3, <3>1, ConcatTyped
    <3>3. /\ Len(f \o <<g>>) = Len(f) + Len(<<g>>) /\ \A i \in 1 .. Len(f) : (f \o <<g>>)[i] = f[i]
          /\ \A i \in 1 .. Len(<<g>>) : (f \o <<g>>)[Len(f) + i] = <<g>>[i]
      BY <2>3, <3>1, ConcatIs
    <3> QED
      BY <2>3, <3>1, <3>2, <3>3
  <2> QED
    BY <1>1, <2>1, <2>3, <2>5, <2>6, <2>7
<1>2. CASE ~(s # <<>> /\ k \in FromUser /\ s[Len(s)] \subseteq FromUser)
  <2>1. JoinOne(s, k) = Append(s, {k})
    BY <1>2 DEF JoinOne, Last
  <2>2. {k} \in KindGroups
    BY DEF KindGroups
  <2> QED
    BY <1>2, <2>1, <2>2
<1> QED
  BY <1>1, <1>2

LEMMA JoinIs ==
    /\ LoopOf(Join, <<>>, Seq(KindGroups), Messages)
    /\ \A s \in Seq(KindGroups), m \in Messages : Join[<<s, m>>] = JoinOne(s, m.kind)
<1>1. ASSUME NEW p \in Seq(KindGroups) \X Messages PROVE JoinOne(p[1], p[2].kind) \in Seq(KindGroups)
  <2>1. p[1] \in Seq(KindGroups) /\ p[2].kind \in MessageKinds
    BY DEF Messages
  <2> QED
    BY <2>1, JoinOneTyped
<1>2. Join = [p \in Seq(KindGroups) \X Messages |-> JoinOne(p[1], p[2].kind)]
  BY DEF Join, KindGroups
<1>3. Join \in [Seq(KindGroups) \X Messages -> Seq(KindGroups)]
  BY <1>1, <1>2
<1>4. <<>> \in Seq(KindGroups)
  OBVIOUS
<1>5. ASSUME NEW s \in Seq(KindGroups), NEW m \in Messages PROVE Join[<<s, m>>] = JoinOne(s, m.kind)
  BY <1>2
<1> QED
  BY <1>3, <1>4, <1>5 DEF LoopOf

LEMMA JoinedAppend ==
    ASSUME NEW s \in Seq(Messages), NEW m \in Messages
    PROVE  Joined(s) \in Seq(KindGroups) /\ Joined(Append(s, m)) = JoinOne(Joined(s), m.kind)
<1>1. Loop(Join, <<>>, s) \in Seq(KindGroups) /\ Loop(Join, <<>>, Append(s, m)) = Join[<<Loop(Join, <<>>, s), m>>]
  BY JoinIs, LoopStep
<1>2. Joined(s) = Loop(Join, <<>>, s) /\ Joined(Append(s, m)) = Loop(Join, <<>>, Append(s, m))
  BY DEF Joined, Join
<1> QED
  BY <1>1, <1>2, JoinIs

LEMMA JoinedEmpty == Joined(<<>>) = <<>>
<1>1. Loop(Join, <<>>, <<>>) = <<>>
  BY JoinIs, LoopStart
<1> QED
  BY <1>1 DEF Joined, Join

\* The groups g of the messages s: calls are alone, and answered at once.
Grouped(s, g) ==
    /\ g \in Seq(KindGroups) /\ (Len(g) = 0 <=> Len(s) = 0)
    /\ \A i \in 1 .. Len(g) :
         /\ g[i] # {}
         /\ "calls" \in g[i] => g[i] = {"calls"} /\ (i < Len(g) => "results" \in g[i + 1])
         /\ "results" \in g[i] => i > 1 /\ g[i - 1] = {"calls"}
    /\ Len(s) > 0 => (EndsOpen(s) <=> "calls" \in g[Len(g)])

LEMMA GroupsGrow ==
    ASSUME NEW s \in Seq(Messages), NEW m \in Messages, NEW g, Grouped(s, g), PairsOf(s),
           m.kind = "results" <=> EndsOpen(s)
    PROVE  Grouped(Append(s, m), JoinOne(g, m.kind))
<1> DEFINE t == Append(s, m)
<1>1. t \in Seq(Messages) /\ Len(t) = Len(s) + 1 /\ Len(s) \in Nat /\ t[Len(t)] = m
  OBVIOUS
<1>2. EndsOpen(t) <=> m.kind = "calls"
  BY <1>1 DEF EndsOpen
<1>3. PICK k \in MessageKinds : k = m.kind
  BY DEF Messages
<1>4. g \in Seq(KindGroups) /\ Len(g) \in Nat
  BY DEF Grouped
<1> HIDE DEF t
<1>5. PICK h : h = JoinOne(g, k)
  OBVIOUS
<1>6. CASE g # <<>> /\ k \in FromUser /\ g[Len(g)] \subseteq FromUser
  <2>1. h \in Seq(KindGroups) /\ Len(h) = Len(g) /\ h[Len(g)] = g[Len(g)] \cup {k} /\ \A i \in 1 .. Len(g) - 1 : h[i] = g[i]
    BY <1>4, <1>5, <1>6, JoinOneTyped
  <2>2. Len(g) > 0
    BY <1>4, <1>6
  <2>3. "calls" \notin g[Len(g)]
    BY <1>6 DEF FromUser
  <2>4. k # "results" /\ k # "calls"
    BY <1>3, <1>6, <2>2, <2>3 DEF Grouped, FromUser
  <2>5. \A i \in 1 .. Len(h) : i \in 1 .. Len(g) - 1 \/ i = Len(g)
    BY <1>4, <2>1
  <2>6. ASSUME NEW i \in 1 .. Len(h)
        PROVE  /\ h[i] # {} /\ ("calls" \in h[i] <=> "calls" \in g[i]) /\ ("results" \in h[i] <=> "results" \in g[i])
               /\ g[i] \subseteq h[i] /\ ("calls" \in g[i] => h[i] = g[i])
    BY <2>1, <2>3, <2>4, <2>5 DEF Grouped
  <2>7. ASSUME NEW i \in 1 .. Len(h), "calls" \in h[i] PROVE h[i] = {"calls"} /\ (i < Len(h) => "results" \in h[i + 1])
    <3>1. g[i] = {"calls"} /\ (i < Len(g) => "results" \in g[i + 1])
      BY <2>1, <2>6, <2>7 DEF Grouped
    <3>2. i < Len(h) => i + 1 \in 1 .. Len(h)
      BY <1>4, <2>1
    <3> QED
      BY <2>1, <2>6, <2>7, <3>1, <3>2
  <2>8. ASSUME NEW i \in 1 .. Len(h), "results" \in h[i] PROVE i > 1 /\ h[i - 1] = {"calls"}
    <3>1. i > 1 /\ g[i - 1] = {"calls"}
      BY <2>1, <2>6, <2>8 DEF Grouped
    <3>2. i - 1 \in 1 .. Len(g) - 1
      BY <1>4, <2>1, <3>1
    <3> QED
      BY <2>1, <3>1, <3>2
  <2>9. "calls" \notin h[Len(h)]
    BY <2>1, <2>3, <2>4
  <2> QED
    BY <1>1, <1>2, <1>3, <1>5, <2>1, <2>2, <2>4, <2>6, <2>7, <2>8, <2>9 DEF Grouped, t
<1>7. CASE ~(g # <<>> /\ k \in FromUser /\ g[Len(g)] \subseteq FromUser)
  <2>1. h = Append(g, {k}) /\ h \in Seq(KindGroups)
    BY <1>4, <1>5, <1>7, JoinOneTyped
  <2>2. Len(h) = Len(g) + 1 /\ h[Len(g) + 1] = {k} /\ \A i \in 1 .. Len(g) : h[i] = g[i]
    BY <1>4, <2>1
  <2>3. \A i \in 1 .. Len(h) : i \in 1 .. Len(g) \/ i = Len(g) + 1
    BY <1>4, <2>2
  <2>4. ASSUME Len(g) > 0, "calls" \in g[Len(g)] PROVE k = "results"
    BY <1>3, <2>4 DEF Grouped
  <2>5. ASSUME NEW i \in 1 .. Len(h), "calls" \in h[i] PROVE h[i] = {"calls"} /\ (i < Len(h) => "results" \in h[i + 1])
    <3>1. CASE i = Len(g) + 1
      BY <2>2, <2>5, <3>1
    <3>2. CASE i \in 1 .. Len(g)
      <4>1. "calls" \in g[i] /\ h[i] = {"calls"}
        BY <2>2, <2>5, <3>2 DEF Grouped
      <4>2. CASE i < Len(g)
        <5>1. i + 1 \in 1 .. Len(g) /\ "results" \in g[i + 1]
          BY <1>4, <3>2, <4>1, <4>2 DEF Grouped
        <5> QED
          BY <2>2, <4>1, <5>1
      <4>3. CASE i = Len(g)
        BY <1>4, <2>2, <2>4, <3>2, <4>1, <4>3
      <4> QED
        BY <1>4, <3>2, <4>2, <4>3
    <3> QED
      BY <2>3, <3>1, <3>2
  <2>6. ASSUME NEW i \in 1 .. Len(h), "results" \in h[i] PROVE i > 1 /\ h[i - 1] = {"calls"}
    <3>1. CASE i = Len(g) + 1
      <4>1. k = "results" /\ EndsOpen(s)
        BY <1>3, <2>2, <2>6, <3>1
      <4>2. Len(g) > 0 /\ "calls" \in g[Len(g)]
        BY <1>1, <1>4, <4>1 DEF Grouped, EndsOpen
      <4>3. g[Len(g)] = {"calls"} /\ Len(g) \in 1 .. Len(g)
        BY <1>4, <4>2 DEF Grouped
      <4> QED
        BY <1>4, <2>2, <3>1, <4>2, <4>3
    <3>2. CASE i \in 1 .. Len(g)
      <4>1. i > 1 /\ g[i - 1] = {"calls"}
        BY <2>2, <2>6, <3>2 DEF Grouped
      <4>2. i - 1 \in 1 .. Len(g)
        BY <1>4, <3>2, <4>1
      <4> QED
        BY <2>2, <4>1, <4>2
    <3> QED
      BY <2>3, <3>1, <3>2
  <2>7. \A i \in 1 .. Len(h) : h[i] # {}
    BY <2>2, <2>3 DEF Grouped
  <2>8. Len(h) > 0 /\ h[Len(h)] = {k}
    BY <1>4, <2>2
  <2> QED
    BY <1>1, <1>2, <1>3, <1>5, <2>1, <2>5, <2>6, <2>7, <2>8 DEF Grouped, t
<1> QED
  BY <1>6, <1>7

LEMMA AllGrouped == ASSUME NEW s \in Seq(Messages), PairsOf(s) PROVE Grouped(s, Joined(s))
<1> DEFINE T == {n \in Nat : \A t \in Seq(Messages) : Len(t) = n /\ PairsOf(t) => Grouped(t, Joined(t))}
<1>1. 0 \in T
  <2> SUFFICES ASSUME NEW t \in Seq(Messages), Len(t) = 0 PROVE Grouped(t, Joined(t))
    OBVIOUS
  <2>1. t = <<>>
    OBVIOUS
  <2>9. <<>> \in Seq(KindGroups) /\ Len(<<>>) = 0
    OBVIOUS
  <2>2. PICK g \in Seq(KindGroups) : g = <<>> /\ Len(g) = 0
    BY <2>9
  <2>3. Joined(t) = g
    BY <2>1, <2>2, JoinedEmpty
  <2>4. Grouped(t, g)
    BY <2>2 DEF Grouped
  <2> QED
    BY <2>3, <2>4
<1>2. ASSUME NEW n \in Nat, n \in T PROVE n + 1 \in T
  <2> SUFFICES ASSUME NEW t \in Seq(Messages), Len(t) = n + 1, PairsOf(t) PROVE Grouped(t, Joined(t))
    OBVIOUS
  <2>0. Len(t) # 0
    OBVIOUS
  <2>1. PICK f \in Seq(Messages), m \in Messages : t = Append(f, m) /\ Len(f) = Len(t) - 1
    BY <2>0, LastOfSeq
  <2>2. Len(f) = n /\ t[n + 1] = m /\ \A i \in 1 .. n : t[i] = f[i]
    BY <2>1
  <2>3. PairsOf(f)
    <3> SUFFICES ASSUME NEW i \in 1 .. n
                 PROVE  /\ f[i].kind = "calls" /\ i < n => f[i + 1].kind = "results"
                        /\ f[i].kind = "results" => i > 1 /\ f[i - 1].kind = "calls"
      BY <2>2 DEF PairsOf
    <3>1. f[i] = t[i] /\ i \in 1 .. Len(t) /\ i < Len(t)
      BY <2>2
    <3>2. i < n => i + 1 \in 1 .. n /\ f[i + 1] = t[i + 1]
      BY <2>2
    <3>3. i > 1 => i - 1 \in 1 .. n /\ f[i - 1] = t[i - 1]
      BY <2>2
    <3> QED
      BY <3>1, <3>2, <3>3 DEF PairsOf
  <2>4. m.kind = "results" <=> EndsOpen(f)
    <3>1. n + 1 \in 1 .. Len(t) /\ t[n + 1].kind = m.kind
      BY <2>2
    <3>2. ASSUME m.kind = "results" PROVE EndsOpen(f)
      <4>1. n + 1 > 1 /\ t[n + 1 - 1].kind = "calls"
        BY <3>1, <3>2 DEF PairsOf
      <4>2. n \in 1 .. n /\ t[n].kind = "calls"
        BY <4>1
      <4> QED
        BY <2>2, <4>2 DEF EndsOpen
    <3>3. ASSUME EndsOpen(f) PROVE m.kind = "results"
      <4>1. n \in 1 .. Len(t) /\ n < Len(t) /\ t[n].kind = "calls"
        BY <2>2, <3>3 DEF EndsOpen
      <4> QED
        BY <2>2, <4>1 DEF PairsOf
    <3> QED
      BY <3>2, <3>3
  <2>5. Grouped(f, Joined(f))
    BY <1>2, <2>2, <2>3
  <2>6. Grouped(Append(f, m), JoinOne(Joined(f), m.kind))
    BY <2>3, <2>4, <2>5, GroupsGrow
  <2> QED
    BY <2>1, <2>6, JoinedAppend
<1> HIDE DEF T
<1>3. Nat \subseteq T
  BY <1>1, <1>2, AllNats
<1>4. Len(s) \in T
  BY <1>3
<1> QED
  BY <1>4 DEF T

\* A conversation whose calls are all answered is sent with its calls answered.
AllAnswered(s) ==
    \A i \in DOMAIN s :
        /\ "calls" \in s[i] => i < Len(s) /\ "results" \in s[i + 1]
        /\ "results" \in s[i] => i > 1 /\ "calls" \in s[i - 1]

LEMMA SentPaired ==
    ASSUME NEW s \in Seq(Messages), PairsOf(s), ~EndsOpen(s) PROVE AllAnswered(NormalizedForAPI(s))
<1>1. PICK g \in Seq(KindGroups) : g = Joined(s) /\ Grouped(s, g)
  BY AllGrouped DEF Grouped
<1>2. DOMAIN g = 1 .. Len(g) /\ Len(g) \in Nat
  OBVIOUS
<1> DEFINE fixed == [i \in DOMAIN g |-> IF i > 1 /\ g[i - 1] = {"text"} THEN g[i] \ {"results"} ELSE g[i]]
<1>3. ASSUME NEW i \in 1 .. Len(g) PROVE fixed[i] = g[i]
  <2>1. "results" \in g[i] => g[i - 1] = {"calls"}
    BY <1>1 DEF Grouped
  <2>2. i > 1 /\ g[i - 1] = {"text"} => g[i] \ {"results"} = g[i]
    BY <2>1
  <2> QED
    BY <1>2, <2>2
<1>4. fixed = g
  <2>1. DOMAIN fixed = 1 .. Len(g) /\ fixed = [i \in 1 .. Len(g) |-> fixed[i]]
    BY <1>2
  <2>2. \A i \in 1 .. Len(g) : g[i] \in KindGroups
    OBVIOUS
  <2> HIDE DEF fixed
  <2>3. fixed \in [1 .. Len(g) -> KindGroups]
    BY <1>3, <2>1, <2>2
  <2>4. fixed \in Seq(KindGroups) /\ Len(fixed) = Len(g)
    BY <1>2, <2>3
  <2> QED
    <3>1. PICK h \in Seq(KindGroups) : h = fixed
      BY <2>4
    <3>2. Len(h) = Len(g) /\ \A i \in 1 .. Len(h) : h[i] = g[i]
      BY <1>3, <2>4, <3>1
    <3>3. h = g
      BY <3>2, SameSeq
    <3> QED
      BY <3>1, <3>3
<1>5. NormalizedForAPI(s) = Picked(fixed, KindGroups \ {{}})
  BY <1>1 DEF NormalizedForAPI, KindGroups
<1> HIDE DEF fixed
<1>6. \A i \in 1 .. Len(g) : g[i] \in KindGroups \ {{}}
  BY <1>1 DEF Grouped
<1>7. NormalizedForAPI(s) = g
  BY <1>4, <1>5, <1>6, PickedAll
<1>8. AllAnswered(g)
  <2> SUFFICES ASSUME NEW i \in 1 .. Len(g)
               PROVE  /\ "calls" \in g[i] => i < Len(g) /\ "results" \in g[i + 1]
                      /\ "results" \in g[i] => i > 1 /\ "calls" \in g[i - 1]
    BY <1>2 DEF AllAnswered
  <2>1. ASSUME "calls" \in g[i] PROVE i < Len(g)
    <3>2. i < Len(g) \/ i = Len(g)
      <4>1. PICK n \in Nat : n = Len(g)
        BY <1>2
      <4>2. i \in 1 .. n
        BY <4>1
      <4>3. i < n \/ i = n
        BY <4>2
      <4> QED
        BY <4>1, <4>3
    <3> SUFFICES ASSUME i = Len(g) PROVE FALSE
      BY <3>2
    <3>1. Len(s) \in Nat /\ Len(s) # 0
      BY <1>1, <1>2 DEF Grouped
    <3> QED
      BY <1>1, <2>1, <3>1 DEF Grouped
  <2> QED
    BY <1>1, <2>1 DEF Grouped
<1> QED
  BY <1>7, <1>8

-----------------------------------------------------------------------------
(* SdkEngine: the inductive invariant.                                     *)

EnginePcs == {"new", "hooks", "top", "init", "compact", "shrink", "request", "reply", "tools",
              "told", "finish", "result", "done", "left"}
EngineResults == {"none", "blocked", "success", "error", "error_max_turns", "error_max_budget_usd"}
Engines == [pc : EnginePcs, msgs : Seq(Messages), turns : 0 .. MaxTurns, attempts : 0 .. 3,
            compacted : BOOLEAN, stop : {"end", "tools", "max"}, result : EngineResults,
            reads : 0 .. MaxTools, running : 0 .. MaxTools, writes : 0 .. MaxTools, writing : BOOLEAN]

\* An engine by itself: a turn is left for what takes one and one was taken by
\* what gives it back, tools that change something run alone, calls wait for
\* results only between a reply and the results, and a blocked query is over.
EngineOk(e) ==
    /\ e \in Engines
    /\ e.pc = "compact" => e.turns > 0
    /\ e.pc \in {"request", "shrink"} => e.turns < MaxTurns
    /\ e.writing => e.pc = "tools" /\ e.reads = 0 /\ e.running = 0
    /\ PairsOf(e.msgs)
    /\ EndsOpen(e.msgs) => e.pc \in {"reply", "tools", "told"}
    /\ e.pc \in {"tools", "told"} => EndsOpen(e.msgs)
    /\ e.pc = "reply" => Len(e.msgs) # 0
    /\ e.result = "blocked" => e.pc \in {"result", "done", "left"}

\* A query that is past the hooks has its prompt, or a summary.
AskedFor(e, q) == e.pc \in {"hooks", "new", "done", "left"} \/ e.result = "blocked" \/ Keeps(e.msgs, q)

\* Queries that must stay in the conversation.
Stays(q) == q \notin excused /\ eng[q].pc = "done" /\ eng[q].result # "blocked"

EngineInv ==
    /\ setup \in {"connecting", "resuming", "done"} /\ closing \in {"no", "links", "yes"}
    /\ links \in 0 .. MaxLinks /\ open = links
    /\ aborted \in BOOLEAN /\ hasty \in BOOLEAN /\ excused \subseteq Queries
    /\ eng \in [Queries -> Engines] /\ \A q \in Queries : EngineOk(eng[q]) /\ AskedFor(eng[q], q)
    /\ history \in Seq(Messages) /\ PairsOf(history) /\ ~EndsOpen(history)
    /\ setup # "done" => \A q \in Queries : eng[q].pc = "new"
    /\ closing # "no" /\ ~hasty => setup # "connecting"
    /\ closing = "yes" /\ ~hasty => links = 0
    /\ \A p, q \in Queries : Running(p) /\ Running(q) => p = q
    /\ \A p \in Queries : Stays(p) => Keeps(history, p) /\ \A q \in Queries : Running(q) => Keeps(eng[q].msgs, p)

\* What a step makes of an engine of a running query: it stays one, and what
\* it kept it keeps.
EngineGoes(q, e) ==
    /\ e \in Engines /\ EngineOk(e) /\ AskedFor(e, q)
    /\ Running(q) /\ e.pc \notin {"new", "done", "left"}
    /\ \A p \in Queries : Keeps(eng[q].msgs, p) => Keeps(e.msgs, p)

LEMMA EmptyPairs ==
    /\ <<>> \in Seq(Messages) /\ PairsOf(<<>>) /\ ~EndsOpen(<<>>)
    /\ \A k \in MessageKinds, q \in Queries \cup {0} : [kind |-> k, query |-> q] \in Messages
<1>1. Len(<<>>) = 0 /\ <<>> \in Seq(Messages)
  OBVIOUS
<1> QED
  BY <1>1 DEF PairsOf, EndsOpen, Messages

LEMMA SummaryPairs ==
    ASSUME NEW a \in {"summary", "prompt"}, NEW b \in {"ack", "text"}, NEW s,
           s = <<[kind |-> a, query |-> 0], [kind |-> b, query |-> 0]>>
    PROVE  s \in Seq(Messages) /\ PairsOf(s) /\ ~EndsOpen(s) /\ (a = "summary" => \A p \in Queries : Keeps(s, p))
<1>1. [kind |-> a, query |-> 0] \in Messages /\ [kind |-> b, query |-> 0] \in Messages
  BY DEF Messages, MessageKinds
<1>2. s \in Seq(Messages) /\ Len(s) = 2 /\ s[1].kind = a /\ s[2].kind = b
  BY <1>1
<1>3. \A i \in 1 .. Len(s) : i = 1 \/ i = 2
  BY <1>2
<1>4. \A i \in 1 .. Len(s) : s[i].kind \notin {"calls", "results"}
  BY <1>2, <1>3
<1>5. PairsOf(s) /\ ~EndsOpen(s)
  BY <1>2, <1>4 DEF PairsOf, EndsOpen
<1>6. 1 \in 1 .. Len(s)
  BY <1>2
<1> QED
  BY <1>2, <1>5, <1>6 DEF Keeps

\* The steps of a query that is under way, but for its end.
Goings(q) ==
    \/ Submit(q) \/ Resumed(q) \/ Top(q) \/ Compact(q) \/ Answer(q) \/ GoOn(q) \/ StartReads(q) \/ ReadEnds(q)
    \/ StartChange(q) \/ ChangeEnds(q) \/ ToolsEnd(q) \/ AddResults(q) \/ SendResult(q)

LEMMA LastPairs ==
    ASSUME NEW s \in Seq(Messages), Len(s) # 0
    PROVE  Last(s) \in Messages /\ Last(s) = s[Len(s)] /\ (EndsOpen(s) <=> Last(s).kind = "calls")
<1>1. Len(s) \in Nat /\ Len(s) > 0 /\ s[Len(s)] \in Messages
  OBVIOUS
<1> QED
  BY <1>1 DEF Last, EndsOpen

\* A message is said by an engine that waits for no results, or is results
\* that one waits for.
LEMMA SaidGoes ==
    ASSUME NEW q \in Queries, NEW e, EngineOk(e), NEW k \in MessageKinds, k = "results" <=> EndsOpen(e.msgs)
    PROVE  /\ Said(e, k, q) \in Seq(Messages) /\ PairsOf(Said(e, k, q)) /\ Len(Said(e, k, q)) # 0
           /\ EndsOpen(Said(e, k, q)) <=> k = "calls"
           /\ \A p \in Queries : Keeps(e.msgs, p) => Keeps(Said(e, k, q), p)
           /\ k = "prompt" => Keeps(Said(e, k, q), q)
<1>1. PICK m \in Messages : m = [kind |-> k, query |-> q]
  BY DEF Messages
<1>2. PICK s \in Seq(Messages) : s = e.msgs /\ PairsOf(s)
  BY DEF EngineOk, Engines
<1>3. /\ Append(s, m) \in Seq(Messages) /\ PairsOf(Append(s, m))
      /\ EndsOpen(Append(s, m)) <=> m.kind = "calls"
  BY <1>1, <1>2, SaidPairs
<1>4. \A p \in Queries : Keeps(s, p) => Keeps(Append(s, m), p)
  BY SaidKeeps
<1>5. k = "prompt" => Keeps(Append(s, m), q)
  BY <1>1, SaidKeeps
<1>6. Len(Append(s, m)) # 0
  OBVIOUS
<1>7. Said(e, k, q) = Append(s, m)
  BY <1>1, <1>2 DEF Said
<1> QED
  BY <1>1, <1>2, <1>3, <1>4, <1>5, <1>6, <1>7

LEMMA SubmitGoes ==
    ASSUME NEW q \in Queries, EngineOk(eng[q]), AskedFor(eng[q], q), Submit(q)
    PROVE  \E e \in Engines : Goto(q, e) /\ EngineGoes(q, e)
<1> DEFINE e == eng[q]
<1>1. e \in Engines /\ e.pc = "hooks" /\ Running(q) /\ ~EndsOpen(e.msgs)
  BY DEF Submit, EngineOk, Running
<1>2. CASE Goto(q, [e EXCEPT !.pc = "result", !.result = "blocked"])
  <2>1. PICK f : f = [e EXCEPT !.pc = "result", !.result = "blocked"]
    OBVIOUS
  <2>2. f \in Engines /\ EngineOk(f) /\ f.msgs = e.msgs /\ f.pc = "result" /\ f.result = "blocked"
    BY <1>1, <2>1 DEF EngineOk, Engines, EnginePcs, EngineResults
  <2>3. EngineGoes(q, f)
    BY <1>1, <2>2 DEF EngineGoes, AskedFor
  <2> QED
    BY <1>2, <2>1, <2>2, <2>3
<1>3. CASE Goto(q, [e EXCEPT !.pc = "init", !.msgs = Said(e, "prompt", q)])
  <2>1. PICK f : f = [e EXCEPT !.pc = "init", !.msgs = Said(e, "prompt", q)]
    OBVIOUS
  <2>2. /\ Said(e, "prompt", q) \in Seq(Messages) /\ PairsOf(Said(e, "prompt", q))
        /\ ~EndsOpen(Said(e, "prompt", q)) /\ Keeps(Said(e, "prompt", q), q)
        /\ \A p \in Queries : Keeps(e.msgs, p) => Keeps(Said(e, "prompt", q), p)
    BY <1>1, SaidGoes DEF MessageKinds
  <2>3. PICK s : s = Said(e, "prompt", q)
    OBVIOUS
  <2>4. f \in Engines /\ EngineOk(f) /\ f.msgs = s /\ f.pc = "init"
    BY <1>1, <2>1, <2>2, <2>3 DEF EngineOk, Engines, EnginePcs, EngineResults
  <2>5. EngineGoes(q, f)
    BY <1>1, <2>2, <2>3, <2>4 DEF EngineGoes, AskedFor
  <2> QED
    BY <1>3, <2>1, <2>4, <2>5
<1> QED
  BY <1>2, <1>3 DEF Submit

\* A step that changes no message, to an engine in order.
LEMMA SameGoes ==
    ASSUME NEW q \in Queries, EngineOk(eng[q]), AskedFor(eng[q], q), Running(q), eng[q].pc # "hooks",
           NEW e, EngineOk(e), e.msgs = eng[q].msgs, e.pc \notin {"new", "done", "left"},
           eng[q].result = "blocked" => e.result = "blocked"
    PROVE  EngineGoes(q, e)
  BY DEF EngineGoes, AskedFor, EngineOk, Running

LEMMA TopGoes ==
    ASSUME NEW q \in Queries, EngineOk(eng[q]), AskedFor(eng[q], q), Resumed(q) \/ Top(q)
    PROVE  \E e \in Engines : Goto(q, e) /\ EngineGoes(q, e)
<1> DEFINE e == eng[q]
<1>1. e \in Engines /\ e.pc \in {"top", "init"} /\ Running(q) /\ e.pc # "hooks" /\ e.result # "blocked"
  BY DEF Resumed, Top, EngineOk, Running
<1>2. PICK f : Goto(q, f)
               /\ \/ f = [e EXCEPT !.pc = "top"]
                  \/ f = [e EXCEPT !.pc = "finish", !.result = "error_max_turns"]
                  \/ f = [e EXCEPT !.pc = "finish", !.result = "success"]
                  \/ f = [e EXCEPT !.pc = "finish", !.result = "error_max_budget_usd"]
                  \/ e.turns > 0 /\ f = [e EXCEPT !.pc = "compact"]
                  \/ e.turns > 0 /\ f = [e EXCEPT !.pc = "request", !.turns = @ - 1]
  <2>1. CASE Resumed(q)
    BY <2>1 DEF Resumed
  <2>2. CASE Top(q)
    BY <2>2 DEF Top
  <2> QED
    BY <2>1, <2>2
<1>3. f.msgs = e.msgs /\ f.pc \in {"top", "finish", "compact", "request"}
  BY <1>1, <1>2 DEF Engines
<1>4. EngineOk(f)
  <2>1. CASE e.turns > 0 /\ f = [e EXCEPT !.pc = "request", !.turns = @ - 1]
    <3>1. e.turns \in 0 .. MaxTurns /\ MaxTurns \in Nat
      BY <1>1, EngineAssumption DEF Engines
    <3>2. e.turns - 1 \in 0 .. MaxTurns /\ e.turns - 1 < MaxTurns
      BY <2>1, <3>1
    <3>3. PICK n \in 0 .. MaxTurns : n = e.turns - 1 /\ n < MaxTurns
      BY <3>2
    <3>4. f = [e EXCEPT !.pc = "request", !.turns = n]
      BY <1>1, <2>1, <3>3 DEF Engines
    <3> QED
      BY <1>1, <3>3, <3>4 DEF EngineOk, Engines, EnginePcs, EngineResults
  <2>2. CASE f = [e EXCEPT !.pc = "top"]
    BY <1>1, <2>2 DEF EngineOk, Engines, EnginePcs
  <2>3. CASE \E r \in {"error_max_turns", "success", "error_max_budget_usd"} : f = [e EXCEPT !.pc = "finish", !.result = r]
    BY <1>1, <2>3 DEF EngineOk, Engines, EnginePcs, EngineResults
  <2>4. CASE e.turns > 0 /\ f = [e EXCEPT !.pc = "compact"]
    BY <1>1, <2>4 DEF EngineOk, Engines, EnginePcs
  <2> QED
    BY <1>2, <2>1, <2>2, <2>3, <2>4
<1>5. EngineGoes(q, f)
  BY <1>1, <1>3, <1>4, SameGoes
<1> QED
  BY <1>2, <1>5 DEF EngineGoes

LEMMA ToolsGo ==
    ASSUME NEW q \in Queries, EngineOk(eng[q]), AskedFor(eng[q], q),
           StartReads(q) \/ ReadEnds(q) \/ StartChange(q) \/ ChangeEnds(q) \/ ToolsEnd(q) \/ SendResult(q)
    PROVE  \E e \in Engines : Goto(q, e) /\ EngineGoes(q, e)
<1> DEFINE e == eng[q]
<1>1. e \in Engines /\ e.pc \in {"tools", "finish"} /\ Running(q) /\ e.pc # "hooks" /\ e.result # "blocked"
  BY DEF StartReads, ReadEnds, StartChange, ChangeEnds, ToolsEnd, SendResult, EngineOk, Running
<1>2. PICK f : /\ Goto(q, f)
               /\ \/ e.pc = "tools" /\ e.reads > 0 /\ f = [e EXCEPT !.running = e.reads, !.reads = 0]
                  \/ e.pc = "tools" /\ e.running > 0 /\ f = [e EXCEPT !.running = @ - 1]
                  \/ e.pc = "tools" /\ e.writes > 0 /\ AllQuiet(e) /\ f = [e EXCEPT !.writes = @ - 1, !.writing = TRUE]
                  \/ e.pc = "tools" /\ e.writing /\ f = [e EXCEPT !.writing = FALSE]
                  \/ e.pc = "tools" /\ AllQuiet(e) /\ f = [e EXCEPT !.pc = "told"]
                  \/ e.pc = "finish" /\ f = [e EXCEPT !.pc = "result"]
  <2>1. CASE StartReads(q)
    BY <2>1 DEF StartReads
  <2>2. CASE ReadEnds(q)
    BY <2>2 DEF ReadEnds
  <2>3. CASE StartChange(q)
    BY <2>3 DEF StartChange
  <2>4. CASE ChangeEnds(q)
    BY <2>4 DEF ChangeEnds
  <2>5. CASE ToolsEnd(q)
    BY <2>5 DEF ToolsEnd
  <2>6. CASE SendResult(q)
    BY <2>6 DEF SendResult
  <2> QED
    BY <2>1, <2>2, <2>3, <2>4, <2>5, <2>6
<1>3. f.msgs = e.msgs /\ f.pc \in {"tools", "told", "result"} /\ f.result = e.result
  BY <1>1, <1>2 DEF Engines
<1>4. EngineOk(f)
  <2>1. CASE e.pc = "tools" /\ e.reads > 0 /\ f = [e EXCEPT !.running = e.reads, !.reads = 0]
    <3>0. 0 \in 0 .. MaxTools
      BY EngineAssumption
    <3>1. PICK n \in 0 .. MaxTools : n = e.reads /\ n # 0
      BY <1>1, <2>1 DEF Engines
    <3>2. f = [e EXCEPT !.running = n, !.reads = 0] /\ ~e.writing
      BY <2>1, <3>1 DEF EngineOk
    <3> QED
      BY <2>1, <3>0, <3>2 DEF EngineOk, Engines
  <2>2. CASE e.pc = "tools" /\ e.running > 0 /\ f = [e EXCEPT !.running = @ - 1]
    <3>1. e.running \in 0 .. MaxTools /\ MaxTools \in Nat
      BY <1>1, EngineAssumption DEF Engines
    <3>2. PICK n \in 0 .. MaxTools : n = e.running - 1
      BY <2>2, <3>1
    <3>3. f = [e EXCEPT !.running = n] /\ ~e.writing
      <4>1. ~e.writing
        BY <2>2 DEF EngineOk
      <4> QED
        BY <1>1, <2>2, <3>2, <4>1 DEF Engines
    <3> QED
      BY <2>2, <3>3 DEF EngineOk, Engines
  <2>3. CASE e.pc = "tools" /\ e.writes > 0 /\ AllQuiet(e) /\ f = [e EXCEPT !.writes = @ - 1, !.writing = TRUE]
    <3>1. e.writes \in 0 .. MaxTools /\ MaxTools \in Nat
      BY <1>1, EngineAssumption DEF Engines
    <3>2. PICK n \in 0 .. MaxTools : n = e.writes - 1
      BY <2>3, <3>1
    <3>3. f = [e EXCEPT !.writes = n, !.writing = TRUE]
      BY <1>1, <2>3, <3>2 DEF Engines
    <3> QED
      BY <2>3, <3>3 DEF EngineOk, Engines, AllQuiet
  <2>4. CASE e.pc = "tools" /\ e.writing /\ f = [e EXCEPT !.writing = FALSE]
    BY <2>4 DEF EngineOk, Engines, EnginePcs, EngineResults
  <2>5. CASE e.pc = "tools" /\ AllQuiet(e) /\ f = [e EXCEPT !.pc = "told"]
    BY <2>5 DEF EngineOk, Engines, EnginePcs, EngineResults, AllQuiet
  <2>6. CASE e.pc = "finish" /\ f = [e EXCEPT !.pc = "result"]
    BY <2>6 DEF EngineOk, Engines, EnginePcs, EngineResults
  <2> QED
    BY <1>2, <2>1, <2>2, <2>3, <2>4, <2>5, <2>6
<1>5. EngineGoes(q, f)
  BY <1>1, <1>3, <1>4, SameGoes
<1> QED
  BY <1>2, <1>5 DEF EngineGoes

LEMMA CompactGoes ==
    ASSUME NEW q \in Queries, EngineOk(eng[q]), AskedFor(eng[q], q), Compact(q)
    PROVE  \E e \in Engines : Goto(q, e) /\ EngineGoes(q, e)
<1> DEFINE o == eng[q]
<1>1. o \in Engines /\ o.pc \in {"compact", "shrink"} /\ Running(q) /\ o.pc # "hooks" /\ o.result # "blocked"
  BY DEF Compact, Shrunk, EngineOk, Running, Engines
<1>2. PICK e \in Shrunk(o) :
         \/ e.pc = "compact" /\ Goto(q, [e EXCEPT !.pc = "request", !.turns = @ - 1])
         \/ e.pc = "shrink" /\ Goto(q, [e EXCEPT !.pc = "top", !.turns = @ + 1])
  BY DEF Compact
<1>3. PICK s : s = <<[kind |-> "summary", query |-> 0], [kind |-> "ack", query |-> 0]>>
  OBVIOUS
<1>4. s \in Seq(Messages) /\ PairsOf(s) /\ ~EndsOpen(s) /\ \A p \in Queries : Keeps(s, p)
  BY <1>3, SummaryPairs
<1>5. e = o \/ e = [o EXCEPT !.msgs = s, !.compacted = TRUE]
  BY <1>2, <1>3 DEF Shrunk
<1>6. EngineOk(e) /\ e.pc = o.pc /\ e.turns = o.turns /\ e.result = o.result /\ e \in Engines
  BY ZenonT(40), <1>1, <1>4, <1>5 DEF EngineOk, Engines
<1>7. \A p \in Queries : Keeps(o.msgs, p) => Keeps(e.msgs, p)
  BY <1>1, <1>4, <1>5 DEF Engines
<1>8. Keeps(o.msgs, q)
  BY <1>1 DEF AskedFor, Engines
<1>9. e.turns \in 0 .. MaxTurns /\ MaxTurns \in Nat
  BY <1>6, EngineAssumption DEF Engines
<1>10. PICK f : Goto(q, f) /\ EngineOk(f) /\ f.msgs = e.msgs /\ f.pc \in {"request", "top"}
  <2>1. CASE e.pc = "compact" /\ Goto(q, [e EXCEPT !.pc = "request", !.turns = @ - 1])
    <3>1. e.turns > 0
      BY <1>6, <2>1 DEF EngineOk
    <3>2. PICK n \in 0 .. MaxTurns : n = e.turns - 1 /\ n < MaxTurns
      BY <1>9, <3>1
    <3>3. PICK f : f = [e EXCEPT !.pc = "request", !.turns = n]
      OBVIOUS
    <3>4. f = [e EXCEPT !.pc = "request", !.turns = @ - 1]
      BY <1>6, <3>2, <3>3 DEF Engines
    <3>5. EngineOk(f) /\ f.msgs = e.msgs /\ f.pc = "request"
      BY <1>6, <2>1, <3>2, <3>3 DEF EngineOk, Engines, EnginePcs
    <3> QED
      BY <2>1, <3>4, <3>5
  <2>2. CASE e.pc = "shrink" /\ Goto(q, [e EXCEPT !.pc = "top", !.turns = @ + 1])
    <3>1. e.turns < MaxTurns
      BY <1>6, <2>2 DEF EngineOk
    <3>2. PICK n \in 0 .. MaxTurns : n = e.turns + 1
      BY <1>9, <3>1
    <3>3. PICK f : f = [e EXCEPT !.pc = "top", !.turns = n]
      OBVIOUS
    <3>4. f = [e EXCEPT !.pc = "top", !.turns = @ + 1]
      BY <1>6, <3>2, <3>3 DEF Engines
    <3>5. EngineOk(f) /\ f.msgs = e.msgs /\ f.pc = "top"
      BY <1>6, <2>2, <3>2, <3>3 DEF EngineOk, Engines, EnginePcs
    <3> QED
      BY <2>2, <3>4, <3>5
  <2> QED
    BY <1>2, <2>1, <2>2
<1>11. EngineGoes(q, f)
  BY <1>1, <1>7, <1>8, <1>10 DEF EngineGoes, AskedFor, EngineOk
<1> QED
  BY <1>10, <1>11 DEF EngineGoes

LEMMA AnswerGoes ==
    ASSUME NEW q \in Queries, EngineOk(eng[q]), AskedFor(eng[q], q), Answer(q)
    PROVE  \E e \in Engines : Goto(q, e) /\ EngineGoes(q, e)
<1> DEFINE e == eng[q]
<1>1. e \in Engines /\ e.pc = "request" /\ Running(q) /\ e.result # "blocked" /\ ~EndsOpen(e.msgs) /\ Keeps(e.msgs, q)
      /\ e.turns < MaxTurns
  BY DEF Answer, EngineOk, Running, AskedFor
<1>2. CASE \E k \in {"text", "calls"}, s \in {"end", "tools", "max"} :
            Goto(q, [e EXCEPT !.pc = "reply", !.stop = s, !.msgs = Said(e, k, q)])
  <2>1. PICK k \in {"text", "calls"}, s \in {"end", "tools", "max"} :
            Goto(q, [e EXCEPT !.pc = "reply", !.stop = s, !.msgs = Said(e, k, q)])
    BY <1>2
  <2>2. k \in MessageKinds /\ k # "results"
    BY DEF MessageKinds
  <2>3. PICK t : t = Said(e, k, q)
    OBVIOUS
  <2>4. t \in Seq(Messages) /\ PairsOf(t) /\ Len(t) # 0 /\ \A p \in Queries : Keeps(e.msgs, p) => Keeps(t, p)
    BY <1>1, <2>2, <2>3, SaidGoes
  <2>5. PICK f : f = [e EXCEPT !.pc = "reply", !.stop = s, !.msgs = t]
    OBVIOUS
  <2>6. EngineOk(f) /\ f \in Engines /\ f.msgs = t /\ f.pc = "reply"
    BY <1>1, <2>4, <2>5 DEF EngineOk, Engines, EnginePcs
  <2>7. EngineGoes(q, f)
    BY <1>1, <2>4, <2>6 DEF EngineGoes, AskedFor
  <2> QED
    BY <2>1, <2>3, <2>5, <2>6, <2>7
<1>3. CASE Goto(q, [e EXCEPT !.pc = "shrink"]) \/ Goto(q, [e EXCEPT !.pc = "result", !.result = "error"])
  <2>1. PICK f : Goto(q, f) /\ (f = [e EXCEPT !.pc = "shrink"] \/ f = [e EXCEPT !.pc = "result", !.result = "error"])
    BY <1>3
  <2>2. EngineOk(f) /\ f.msgs = e.msgs /\ f.pc \in {"shrink", "result"}
    BY <1>1, <2>1 DEF EngineOk, Engines, EnginePcs, EngineResults
  <2>3. EngineGoes(q, f)
    BY <1>1, <2>2 DEF EngineGoes, AskedFor, EngineOk
  <2> QED
    BY <2>1, <2>3 DEF EngineGoes
<1> QED
  BY <1>2, <1>3 DEF Answer

LEMMA EndedGoes ==
    ASSUME NEW e \in Engines, PairsOf(e.msgs), ~EndsOpen(e.msgs), ~e.writing
    PROVE  EngineOk(Ended(e)) /\ Ended(e).msgs = e.msgs /\ Ended(e).pc = "finish" /\ Ended(e).result # "blocked"
<1>1. PICK r \in {"error_max_turns", "success"} : Ended(e) = [e EXCEPT !.pc = "finish", !.result = r]
  BY DEF Ended
<1> QED
  BY <1>1 DEF EngineOk, Engines, EnginePcs, EngineResults

\* A reply that was cut off: its calls are no calls any more.
LEMMA CutGoes ==
    ASSUME NEW q \in Queries, EngineOk(eng[q]), AskedFor(eng[q], q), eng[q].pc = "reply", eng[q].attempts < 3,
           NEW kept, kept = IF Last(eng[q].msgs).kind = "calls"
                            THEN Front(eng[q].msgs) \o <<[kind |-> "cut", query |-> q]>> ELSE eng[q].msgs,
           NEW f, f = [eng[q] EXCEPT !.pc = "top", !.stop = "end", !.attempts = @ + 1,
                                     !.msgs = Append(kept, [kind |-> "continue", query |-> q])]
    PROVE  EngineGoes(q, f)
<1> DEFINE e == eng[q]
<1>1. e \in Engines /\ Running(q) /\ e.result # "blocked" /\ Keeps(e.msgs, q) /\ PairsOf(e.msgs) /\ Len(e.msgs) # 0
      /\ ~e.writing
  BY DEF EngineOk, Running, AskedFor
<1>2. PICK s \in Seq(Messages) : s = e.msgs /\ Len(s) # 0 /\ PairsOf(s)
  BY <1>1 DEF Engines
<1>3. EndsOpen(s) <=> Last(s).kind = "calls"
  BY <1>2, LastPairs
<1>4. PICK c, m \in Messages : c = [kind |-> "cut", query |-> q] /\ m = [kind |-> "continue", query |-> q]
  BY DEF Messages, MessageKinds
<1>5. kept \in Seq(Messages) /\ PairsOf(kept) /\ ~EndsOpen(kept) /\ \A p \in Queries : Keeps(s, p) => Keeps(kept, p)
  <2>1. CASE EndsOpen(s)
    <3>1. PICK t \in Seq(Messages) : t = Front(s)
      BY <1>2, <2>1, FrontPairs
    <3>2. PairsOf(t) /\ ~EndsOpen(t) /\ Len(t) = Len(s) - 1 /\ \A i \in 1 .. Len(s) - 1 : t[i] = s[i]
      BY <1>2, <2>1, <3>1, FrontPairs
    <3>3. kept = t \o <<c>>
      BY <1>2, <1>3, <1>4, <2>1, <3>1
    <3>4. kept = Append(t, c)
      BY <3>3
    <3>5. kept \in Seq(Messages) /\ PairsOf(kept) /\ ~EndsOpen(kept)
      BY <1>4, <3>2, <3>4, SaidPairs
    <3>6. ASSUME NEW p \in Queries, Keeps(s, p) PROVE Keeps(t, p)
      <4>1. PICK i \in 1 .. Len(s) : s[i].kind = "summary" \/ s[i] = [kind |-> "prompt", query |-> p]
        BY <3>6 DEF Keeps
      <4>2. s[Len(s)].kind = "calls"
        BY <2>1 DEF EndsOpen
      <4>3. i # Len(s)
        BY <4>1, <4>2
      <4>4. i \in 1 .. Len(t) /\ t[i] = s[i]
        BY <3>2, <4>3
      <4> QED
        BY <4>1, <4>4 DEF Keeps
    <3>7. \A p \in Queries : Keeps(s, p) => Keeps(kept, p)
      BY <3>4, <3>6, SaidKeeps
    <3> QED
      BY <3>5, <3>7
  <2>2. CASE ~EndsOpen(s)
    BY <1>2, <1>3, <2>2
  <2> QED
    BY <2>1, <2>2
<1>12. PICK r \in Seq(Messages) : r = kept /\ PairsOf(r) /\ ~EndsOpen(r) /\ \A p \in Queries : Keeps(s, p) => Keeps(r, p)
  BY <1>5
<1>6. PICK t : t = Append(r, m)
  OBVIOUS
<1>7. t \in Seq(Messages) /\ PairsOf(t) /\ ~EndsOpen(t)
  <2>1. m.kind \notin {"results", "calls"}
    BY <1>4
  <2> QED
    BY <1>6, <1>12, <2>1, SaidPairs
<1>8. \A p \in Queries : Keeps(s, p) => Keeps(t, p)
  BY <1>6, <1>12, SaidKeeps
<1>9. PICK n \in 0 .. 3 : n = e.attempts + 1
  <2>1. e.attempts \in 0 .. 3
    BY <1>1 DEF Engines
  <2> QED
    BY <2>1
<1>10. f = [e EXCEPT !.pc = "top", !.stop = "end", !.attempts = n, !.msgs = t]
  BY <1>1, <1>4, <1>6, <1>9, <1>12 DEF Engines
<1>11. f \in Engines /\ f.msgs = t /\ f.pc = "top" /\ EngineOk(f)
  BY ZenonT(40), <1>1, <1>7, <1>10 DEF EngineOk, Engines, EnginePcs
<1> QED
  BY <1>1, <1>2, <1>8, <1>11 DEF EngineGoes, AskedFor

LEMMA GoOnGoes ==
    ASSUME NEW q \in Queries, EngineOk(eng[q]), AskedFor(eng[q], q), GoOn(q)
    PROVE  \E e \in Engines : Goto(q, e) /\ EngineGoes(q, e)
<1> DEFINE e == eng[q]
           said == Last(e.msgs).kind
           kept == IF said = "calls" THEN Front(e.msgs) \o <<[kind |-> "cut", query |-> q]>> ELSE e.msgs
<1>1. e \in Engines /\ e.pc = "reply" /\ Running(q) /\ e.result # "blocked" /\ PairsOf(e.msgs) /\ Len(e.msgs) # 0
      /\ Keeps(e.msgs, q) /\ ~e.writing
  BY DEF GoOn, EngineOk, Running, AskedFor
<1>2. EndsOpen(e.msgs) <=> said = "calls"
  BY <1>1, LastPairs DEF Engines
<1>3. CASE /\ e.attempts < 3
           /\ Goto(q, [e EXCEPT !.pc = "top", !.stop = "end", !.attempts = @ + 1,
                                !.msgs = Append(kept, [kind |-> "continue", query |-> q])])
  <2>1. PICK f : f = [e EXCEPT !.pc = "top", !.stop = "end", !.attempts = @ + 1,
                               !.msgs = Append(kept, [kind |-> "continue", query |-> q])]
    OBVIOUS
  <2>2. EngineGoes(q, f)
    BY <1>1, <1>3, <2>1, CutGoes
  <2> QED
    BY <1>3, <2>1, <2>2 DEF EngineGoes
<1>4. CASE said = "text" /\ Goto(q, Ended(e))
  <2>1. EngineOk(Ended(e)) /\ Ended(e).msgs = e.msgs /\ Ended(e).pc = "finish" /\ Ended(e).result # "blocked"
    BY <1>1, <1>2, <1>4, EndedGoes
  <2>2. EngineGoes(q, Ended(e))
    BY <1>1, <2>1 DEF EngineGoes, AskedFor, EngineOk
  <2> QED
    BY <1>4, <2>2 DEF EngineGoes
<1>5. CASE said = "calls" /\ \E r, w \in 0 .. MaxTools :
             Goto(q, [e EXCEPT !.pc = "tools", !.attempts = 0, !.reads = r, !.writes = w])
  <2>1. PICK r, w \in 0 .. MaxTools : Goto(q, [e EXCEPT !.pc = "tools", !.attempts = 0, !.reads = r, !.writes = w])
    BY <1>5
  <2>2. PICK f : f = [e EXCEPT !.pc = "tools", !.attempts = 0, !.reads = r, !.writes = w]
    OBVIOUS
  <2>3. 0 \in 0 .. 3
    OBVIOUS
  <2>4. EngineOk(f) /\ f.msgs = e.msgs /\ f.pc = "tools" /\ f.result = e.result
    BY <1>1, <1>2, <1>5, <2>2, <2>3 DEF EngineOk, Engines, EnginePcs
  <2>5. EngineGoes(q, f)
    BY <1>1, <2>4 DEF EngineGoes, AskedFor, EngineOk
  <2> QED
    BY <2>1, <2>2, <2>5 DEF EngineGoes
<1> QED
  BY <1>3, <1>4, <1>5 DEF GoOn

LEMMA ResultsGo ==
    ASSUME NEW q \in Queries, EngineOk(eng[q]), AskedFor(eng[q], q), AddResults(q)
    PROVE  \E e \in Engines : Goto(q, e) /\ EngineGoes(q, e)
<1> DEFINE o == eng[q]
           e == [o EXCEPT !.msgs = WithResults(q), !.pc = "top"]
<1>1. o \in Engines /\ o.pc = "told" /\ Running(q) /\ o.result # "blocked" /\ EndsOpen(o.msgs) /\ Keeps(o.msgs, q)
      /\ ~o.writing
  BY DEF AddResults, EngineOk, Running, AskedFor
<1>2. PICK t : t = WithResults(q)
  OBVIOUS
<1>3. t \in Seq(Messages) /\ PairsOf(t) /\ ~EndsOpen(t) /\ \A p \in Queries : Keeps(o.msgs, p) => Keeps(t, p)
  BY <1>1, <1>2, SaidGoes DEF WithResults, MessageKinds
<1>4. e \in Engines /\ e.msgs = t /\ ~e.writing /\ e.result = o.result /\ e.pc = "top"
  BY <1>1, <1>2, <1>3 DEF Engines, EnginePcs
<1>5. PICK f : Goto(q, f) /\ f = IF e.stop = "end" THEN Ended(e) ELSE [e EXCEPT !.stop = "end"]
  BY DEF AddResults
<1> HIDE DEF e
<1>6. EngineOk(f) /\ f.msgs = t /\ f.pc \in {"finish", "top"}
  <2>1. CASE f = Ended(e)
    BY <1>3, <1>4, <2>1, EndedGoes
  <2>2. CASE f = [e EXCEPT !.stop = "end"]
    BY <1>1, <1>3, <1>4, <2>2 DEF EngineOk, Engines, EnginePcs
  <2> QED
    BY <1>5, <2>1, <2>2
<1>7. EngineGoes(q, f)
  BY <1>1, <1>3, <1>6 DEF EngineGoes, AskedFor, EngineOk
<1> QED
  BY <1>5, <1>7 DEF EngineGoes

LEMMA AllGo ==
    ASSUME NEW q \in Queries, EngineOk(eng[q]), AskedFor(eng[q], q), Goings(q)
    PROVE  Stay /\ \E e \in Engines : Goto(q, e) /\ EngineGoes(q, e)
<1>1. Stay
  BY DEF Goings, Submit, Resumed, Top, Compact, Answer, GoOn, StartReads, ReadEnds, StartChange, ChangeEnds,
         ToolsEnd, AddResults, SendResult
<1> QED
  BY <1>1, SubmitGoes, TopGoes, ToolsGo, CompactGoes, AnswerGoes, GoOnGoes, ResultsGo DEF Goings

LEMMA NewEngineOk ==
    ASSUME NEW s \in Seq(Messages), PairsOf(s), ~EndsOpen(s), NEW q
    PROVE  /\ NewEngine(s) \in Engines /\ EngineOk(NewEngine(s)) /\ AskedFor(NewEngine(s), q)
           /\ NewEngine(s).pc = "hooks" /\ NewEngine(s).msgs = s
<1>1. 0 \in 0 .. MaxTools /\ 0 \in 0 .. 3 /\ MaxTurns \in 0 .. MaxTurns
  BY EngineAssumption
<1> QED
  BY <1>1 DEF NewEngine, EngineOk, Engines, EnginePcs, EngineResults, AskedFor

LEMMA OverOk ==
    ASSUME NEW e \in Engines, NEW c \in {"done", "left"}, NEW q
    PROVE  /\ Over(e, c) \in Engines /\ EngineOk(Over(e, c)) /\ AskedFor(Over(e, c), q)
           /\ Over(e, c).pc = c /\ Over(e, c).result = e.result
<1>1. 0 \in 0 .. MaxTools /\ 0 \in 0 .. 3 /\ MaxTurns \in 0 .. MaxTurns
  BY EngineAssumption
<1>2. PICK s \in Seq(Messages) : s = <<>> /\ PairsOf(s) /\ ~EndsOpen(s)
  BY EmptyPairs
<1>3. Over(e, c) = [NewEngine(s) EXCEPT !.pc = c, !.result = e.result]
  BY <1>2 DEF Over
<1>4. PICK r \in EngineResults : r = e.result
  BY DEF Engines
<1>5. PICK n : n = NewEngine(s)
  OBVIOUS
<1>6. n \in Engines /\ EngineOk(n) /\ ~n.writing /\ n.msgs = s
  BY <1>2, <1>5, NewEngineOk DEF NewEngine
<1>7. PICK f : f = [n EXCEPT !.pc = c, !.result = r]
  OBVIOUS
<1>8. f \in Engines /\ f.pc = c /\ f.result = r /\ f.msgs = s /\ ~f.writing
  BY <1>4, <1>6, <1>7 DEF Engines, EnginePcs
<1>9. EngineOk(f) /\ AskedFor(f, q)
  BY <1>2, <1>8 DEF EngineOk, AskedFor
<1> QED
  BY <1>3, <1>4, <1>5, <1>7, <1>8, <1>9

LEMMA EngineStart == ASSUME EngineInit PROVE EngineInv
<1>1. PICK s \in Seq(Messages) : s = <<>> /\ PairsOf(s) /\ ~EndsOpen(s)
  BY EmptyPairs
<1>2. PICK e : e = [NewEngine(s) EXCEPT !.pc = "new"]
  OBVIOUS
<1>3. e \in Engines /\ EngineOk(e) /\ e.pc = "new" /\ \A q \in Queries : AskedFor(e, q)
  <2>1. 0 \in 0 .. MaxTools /\ 0 \in 0 .. 3 /\ MaxTurns \in 0 .. MaxTurns
    BY EngineAssumption
  <2> QED
    BY <1>1, <1>2, <2>1 DEF NewEngine, EngineOk, Engines, EnginePcs, EngineResults, AskedFor
<1>4. eng = [q \in Queries |-> e]
  BY <1>1, <1>2 DEF EngineInit
<1>5. 0 \in 0 .. MaxLinks
  BY EngineAssumption
<1> QED
  BY <1>1, <1>3, <1>4, <1>5 DEF EngineInit, EngineInv, Running, Stays

LEMMA GoingsStep == ASSUME EngineInv, NEW q \in Queries, Goings(q) PROVE EngineInv'
<1>1. Stay /\ \E e \in Engines : Goto(q, e) /\ EngineGoes(q, e)
  BY AllGo DEF EngineInv
<1>2. PICK e \in Engines : eng' = [eng EXCEPT ![q] = e] /\ EngineGoes(q, e)
  BY <1>1 DEF Goto
<1>3. UNCHANGED <<setup, links, open, closing, hasty, history, aborted, excused>>
  BY <1>1 DEF Stay, agentVars
<1>4. eng' \in [Queries -> Engines] /\ \A p \in Queries : eng'[p] = IF p = q THEN e ELSE eng[p]
  BY <1>2 DEF EngineInv
<1>5. \A p \in Queries : EngineOk(eng'[p]) /\ AskedFor(eng'[p], p)
  BY <1>2, <1>4 DEF EngineInv, EngineGoes
<1>6. setup' # "done" => \A p \in Queries : eng'[p].pc = "new"
  <2>1. eng[q].pc # "new"
    BY <1>2 DEF EngineGoes, Running
  <2> QED
    BY <1>3, <2>1 DEF EngineInv
<1>7. \A p \in Queries : Running(p)' <=> Running(p)
  BY <1>2, <1>4 DEF EngineGoes, Running
<1>8. \A p \in Queries : Stays(p)' => Stays(p)
  BY <1>2, <1>3, <1>4 DEF EngineGoes, Stays
<1>9. ASSUME NEW p \in Queries, Stays(p)' PROVE Keeps(history', p) /\ \A r \in Queries : Running(r)' => Keeps(eng'[r].msgs, p)
  <2>1. Keeps(history, p) /\ \A r \in Queries : Running(r) => Keeps(eng[r].msgs, p)
    BY <1>8, <1>9 DEF EngineInv
  <2>2. Running(q) /\ (Keeps(eng[q].msgs, p) => Keeps(e.msgs, p))
    BY <1>2 DEF EngineGoes
  <2> QED
    BY <1>3, <1>4, <1>7, <2>1, <2>2
<1> QED
  BY <1>3, <1>4, <1>5, <1>6, <1>7, <1>9 DEF EngineInv

LEMMA BeginStep == ASSUME EngineInv, NEW q \in Queries, Begin(q) PROVE EngineInv'
<1>1. PICK e : e = NewEngine(history)
  OBVIOUS
<1>2. e \in Engines /\ EngineOk(e) /\ AskedFor(e, q) /\ e.pc = "hooks" /\ e.msgs = history
  BY <1>1, NewEngineOk DEF EngineInv
<1>3. eng' = [eng EXCEPT ![q] = e] /\ aborted' = FALSE /\ UNCHANGED <<setup, links, open, closing, hasty, history, excused>>
  BY <1>1 DEF Begin, Goto, agentVars
<1>4. eng' \in [Queries -> Engines] /\ \A p \in Queries : eng'[p] = IF p = q THEN e ELSE eng[p]
  BY <1>2, <1>3 DEF EngineInv
<1>5. \A p \in Queries : EngineOk(eng'[p]) /\ AskedFor(eng'[p], p)
  BY <1>2, <1>4 DEF EngineInv
<1>6. setup = "done" /\ \A p \in Queries : ~Running(p)
  BY DEF Begin
<1>7. \A p \in Queries : Running(p)' => p = q
  BY <1>4, <1>6 DEF Running
<1>8. \A p \in Queries : Stays(p)' => Stays(p)
  BY <1>2, <1>3, <1>4 DEF Stays
<1>9. ASSUME NEW p \in Queries, Stays(p)' PROVE Keeps(history', p) /\ \A r \in Queries : Running(r)' => Keeps(eng'[r].msgs, p)
  <2>1. Keeps(history, p)
    BY <1>8, <1>9 DEF EngineInv
  <2> QED
    BY <1>2, <1>3, <1>4, <1>7, <2>1
<1> QED
  BY <1>3, <1>4, <1>5, <1>6, <1>7, <1>9 DEF EngineInv

LEMMA OverStep ==
    ASSUME EngineInv, NEW q \in Queries, NEW c \in {"done", "left"}, Running(q), eng' = [eng EXCEPT ![q] = Over(eng[q], c)],
           UNCHANGED <<setup, links, open, closing, hasty, aborted, excused>>,
           \/ c = "left" /\ UNCHANGED history
           \/ c = "done" /\ history' = eng[q].msgs /\ eng[q].pc = "result"
    PROVE  EngineInv'
<1>1. PICK e : e = Over(eng[q], c)
  OBVIOUS
<1>2. e \in Engines /\ EngineOk(e) /\ AskedFor(e, q) /\ e.pc = c /\ e.result = eng[q].result
  BY <1>1, OverOk DEF EngineInv
<1>3. eng' \in [Queries -> Engines] /\ \A p \in Queries : eng'[p] = IF p = q THEN e ELSE eng[p]
  BY <1>1, <1>2 DEF EngineInv
<1>4. \A p \in Queries : EngineOk(eng'[p]) /\ AskedFor(eng'[p], p)
  BY <1>2, <1>3 DEF EngineInv
<1>5. \A p \in Queries : ~Running(p)'
  BY <1>2, <1>3 DEF EngineInv, Running
<1>6. history' \in Seq(Messages) /\ PairsOf(history') /\ ~EndsOpen(history')
  <2>1. EngineOk(eng[q])
    BY DEF EngineInv
  <2> QED
    BY <2>1 DEF EngineInv, EngineOk, Engines
<1>7. setup = "done"
  BY DEF EngineInv, Running
<1>8. ASSUME NEW p \in Queries, Stays(p)' PROVE Keeps(history', p)
  <2>1. CASE p = q
    <3>1. c = "done" /\ eng[q].result # "blocked"
      BY <1>2, <1>3, <1>8, <2>1 DEF Stays
    <3>2. Keeps(eng[q].msgs, q)
      BY <3>1 DEF EngineInv, AskedFor
    <3> QED
      BY <2>1, <3>1, <3>2
  <2>2. CASE p # q
    <3>1. Stays(p)
      BY <1>3, <1>8, <2>2 DEF Stays
    <3>2. Keeps(history, p) /\ Keeps(eng[q].msgs, p)
      BY <3>1 DEF EngineInv
    <3> QED
      BY <3>2
  <2> QED
    BY <2>1, <2>2
<1> QED
  BY <1>3, <1>4, <1>5, <1>6, <1>7, <1>8 DEF EngineInv

\* The steps of the agent itself.
LEMMA AgentSteps ==
    ASSUME EngineInv, Connect \/ Resume \/ Interrupt \/ ClearHistory \/ Close \/ CloseLink PROVE EngineInv'
<1>1. CASE Connect
  <2>1. UNCHANGED <<closing, hasty, history, eng, aborted, excused>> /\ setup = "connecting"
    BY <1>1 DEF Connect
  <2>2. setup' \in {"connecting", "resuming"} /\ (setup' = "connecting" => setup = "connecting")
    BY <1>1 DEF Connect
  <2>3. links' \in 0 .. MaxLinks /\ open' = links'
    BY <1>1, EngineAssumption DEF Connect, EngineInv
  <2>4. closing = "yes" /\ ~hasty => FALSE
    BY <2>1 DEF EngineInv
  <2> QED
    BY <2>1, <2>2, <2>3, <2>4 DEF EngineInv, Running, Stays
<1>2. CASE Resume
  <2>1. UNCHANGED <<links, open, closing, hasty, eng, aborted, excused>> /\ setup = "resuming" /\ setup' = "done"
    BY <1>2 DEF Resume
  <2>2. history' \in Seq(Messages) /\ PairsOf(history') /\ ~EndsOpen(history')
    <3>1. CASE history' = <<>>
      BY <3>1, EmptyPairs
    <3>2. CASE history' = <<[kind |-> "prompt", query |-> 0], [kind |-> "text", query |-> 0]>>
      BY <3>2, SummaryPairs
    <3> QED
      BY <1>2, <3>1, <3>2 DEF Resume
  <2>3. \A p \in Queries : eng[p].pc = "new"
    BY <2>1 DEF EngineInv
  <2> QED
    BY <2>1, <2>2, <2>3 DEF EngineInv, Running, Stays
<1>3. CASE Interrupt
  <2>1. aborted' = TRUE /\ UNCHANGED <<setup, links, open, closing, hasty, history, eng, excused>>
    BY <1>3 DEF Interrupt, agentVars
  <2> QED
    BY <2>1 DEF EngineInv, Running, Stays
<1>4. CASE ClearHistory
  <2>1. /\ history' = <<>> /\ excused' = excused \cup {q \in Queries : eng[q].pc # "new"}
        /\ UNCHANGED <<setup, links, open, closing, hasty, eng, aborted>>
    BY <1>4 DEF ClearHistory, agentVars
  <2>2. history' \in Seq(Messages) /\ PairsOf(history') /\ ~EndsOpen(history')
    BY <2>1, EmptyPairs
  <2>3. \A p \in Queries : ~Stays(p)'
    BY <2>1 DEF Stays
  <2> QED
    BY <2>1, <2>2, <2>3 DEF EngineInv, Running
<1>5. CASE Close
  <2>1. /\ closing' = "links" /\ hasty' = (setup = "connecting")
        /\ UNCHANGED <<setup, links, open, history, eng, aborted, excused>>
    BY <1>5 DEF Close
  <2> QED
    BY <2>1 DEF EngineInv, Running, Stays
<1>6. CASE CloseLink
  <2>1. UNCHANGED <<setup, hasty, history, eng, aborted, excused>> /\ closing = "links"
    BY <1>6 DEF CloseLink
  <2>2. links' \in 0 .. MaxLinks /\ open' = links' /\ closing' \in {"links", "yes"} /\ (closing' = "yes" => links' = 0)
    BY <1>6, EngineAssumption DEF CloseLink, EngineInv
  <2> QED
    BY <2>1, <2>2 DEF EngineInv, Running, Stays
<1> QED
  BY <1>1, <1>2, <1>3, <1>4, <1>5, <1>6

LEMMA EngineStep == ASSUME EngineInv, [EngineNext]_engineVars PROVE EngineInv'
<1>1. CASE UNCHANGED engineVars
  BY <1>1 DEF engineVars, EngineInv, Running, Stays
<1>2. ASSUME NEW q \in Queries, QueryEnds(q) PROVE EngineInv'
  <2>1. /\ eng[q].pc = "result" /\ eng' = [eng EXCEPT ![q] = Over(eng[q], "done")] /\ history' = eng[q].msgs
        /\ UNCHANGED <<setup, links, open, closing, hasty, aborted, excused>>
    BY <1>2 DEF QueryEnds, Goto, Kept, agentVars
  <2> QED
    BY <2>1, OverStep DEF Running
<1>3. ASSUME NEW q \in Queries, StopReading(q) PROVE EngineInv'
  <2>1. /\ Running(q) /\ eng' = [eng EXCEPT ![q] = Over(eng[q], "left")] /\ history' = history
        /\ UNCHANGED <<setup, links, open, closing, hasty, aborted, excused>>
    BY <1>3 DEF StopReading, Goto, Stay, agentVars, Running
  <2> QED
    BY <2>1, OverStep
<1>4. CASE EngineNext
  <2>1. CASE Connect \/ Resume \/ Interrupt \/ ClearHistory \/ Close \/ CloseLink
    BY <2>1, AgentSteps
  <2>2. CASE \E q \in Queries : Begin(q) \/ QueryEnds(q) \/ StopReading(q) \/ Goings(q)
    BY <2>2, <1>2, <1>3, BeginStep, GoingsStep
  <2> QED
    BY <1>4, <2>1, <2>2 DEF EngineNext, Goings
<1> QED
  BY <1>1, <1>4

LEMMA EngineThen ==
    ASSUME EngineInv
    PROVE  EngineTypeOK /\ RequestsPaired /\ ChangesRunAlone /\ QueriesStay /\ ClosedIsClosed
<1>1. EngineTypeOK
  <2>1. ASSUME NEW q \in Queries
        PROVE  /\ eng[q].pc \in EnginePcs
               /\ eng[q].msgs \in Seq(Messages) /\ eng[q].turns \in 0 .. MaxTurns
               /\ eng[q].attempts \in 0 .. 3
               /\ {eng[q].reads, eng[q].running, eng[q].writes} \subseteq 0 .. MaxTools
    <3>1. eng[q] \in Engines
      BY DEF EngineInv
    <3> QED
      BY <3>1 DEF Engines
  <2> QED
    BY <2>1 DEF EngineInv, EngineTypeOK, EnginePcs
<1>2. RequestsPaired
  <2> SUFFICES ASSUME NEW q \in Queries, eng[q].pc = "request" PROVE AllAnswered(NormalizedForAPI(eng[q].msgs))
    BY DEF RequestsPaired, AllAnswered
  <2>1. EngineOk(eng[q])
    BY DEF EngineInv
  <2>2. PICK s \in Seq(Messages) : s = eng[q].msgs /\ PairsOf(s) /\ ~EndsOpen(s)
    BY <2>1 DEF EngineOk, Engines
  <2> QED
    BY <2>2, SentPaired
<1>3. ChangesRunAlone
  BY DEF EngineInv, EngineOk, ChangesRunAlone
<1>4. QueriesStay
  <2> SUFFICES ASSUME NEW q \in Queries \ excused, eng[q].pc = "done", eng[q].result # "blocked"
               PROVE  \E i \in DOMAIN history : history[i].kind = "summary" \/ history[i] = [kind |-> "prompt", query |-> q]
    BY DEF QueriesStay
  <2>1. Keeps(history, q)
    BY DEF EngineInv, Stays
  <2>2. DOMAIN history = 1 .. Len(history)
    BY DEF EngineInv
  <2> QED
    BY <2>1, <2>2 DEF Keeps
<1>5. ClosedIsClosed
  BY DEF EngineInv, ClosedIsClosed
<1> QED
  BY <1>1, <1>2, <1>3, <1>4, <1>5

\* The SDK's agent, for any number of queries, turns, tools and servers: what
\* is sent has every call answered and no other results, a tool that changes
\* something runs alone, a query that was read to its end stays in the
\* conversation, and a closed agent has no connection left.
THEOREM ConversationsHold ==
    EngineSpec => [](EngineTypeOK /\ RequestsPaired /\ ChangesRunAlone /\ QueriesStay /\ ClosedIsClosed)
<1>1. EngineInit => EngineInv
  BY EngineStart
<1>2. EngineInv /\ [EngineNext]_engineVars => EngineInv'
  BY EngineStep
<1>3. EngineInv => EngineTypeOK /\ RequestsPaired /\ ChangesRunAlone /\ QueriesStay /\ ClosedIsClosed
  BY EngineThen
<1> QED
  BY <1>1, <1>2, <1>3, PTL DEF EngineSpec
=============================================================================
