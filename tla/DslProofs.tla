------------------------------ MODULE DslProofs ------------------------------
(***************************************************************************)
(* What parsing and executing a scenario file makes of it, for files of    *)
(* any length and any integers in them.                                    *)
(***************************************************************************)
EXTENDS Dsl, FiniteSetTheorems, SequenceTheorems, TLAPS

(***************************************************************************)
(* Induction, for want of a theorem that takes a predicate: what fails for *)
(* some number fails for a least one.                                      *)
(***************************************************************************)
LEMMA LeastNumber ==
  ASSUME NEW S, S \subseteq Nat, S # {}
  PROVE  \E m \in S : \A k \in S : m <= k
<1>1. PICK m \in S : \A k \in S : <<k, m>> \notin OpToRel(<, Nat)
  BY NatLessThanWellFounded, WFMin
<1>2. \A k \in S : ~(k < m)
  BY <1>1 DEF OpToRel
<1>. QED BY <1>2

LEMMA GreatestNumber ==
  ASSUME NEW N \in Nat, NEW S, S \subseteq 0 .. N, S # {}
  PROVE  \E m \in S : \A k \in S : k <= m
<1>. DEFINE T == {N - k : k \in S}
<1>1. T \subseteq Nat /\ T # {}
  <2>1. \A k \in S : N - k \in Nat
    OBVIOUS
  <2>. QED BY <2>1
<1>2. PICK t \in T : \A u \in T : t <= u
  BY <1>1, LeastNumber
<1>3. PICK m \in S : t = N - m
  BY <1>2
<1>4. ASSUME NEW k \in S
      PROVE  k <= m
  <2>1. N - k \in T
    OBVIOUS
  <2>. QED BY <1>2, <1>3, <2>1
<1>. QED BY <1>4

\* The greatest of some positions, and how it changes with one more position.
LEMMA LastOfIs ==
  ASSUME NEW N \in Nat, NEW S, S \subseteq 1 .. N, S # {}
  PROVE  LastOf(S) \in S /\ \A m \in S : m <= LastOf(S)
<1>1. \E i \in S : \A m \in S : m <= i
  <2>1. S \subseteq 0 .. N
    OBVIOUS
  <2>. QED BY <2>1, GreatestNumber
<1>. QED BY <1>1 DEF LastOf

LEMMA LastOfUnique ==
  ASSUME NEW N \in Nat, NEW S, S \subseteq 1 .. N, NEW i \in S, \A m \in S : m <= i
  PROVE  LastOf(S) = i
<1>1. LastOf(S) \in S /\ \A m \in S : m <= LastOf(S)
  BY LastOfIs
<1>2. S \subseteq Int
  OBVIOUS
<1>3. LastOf(S) \in Int /\ i \in Int
  BY <1>1, <1>2
<1>4. i <= LastOf(S) /\ LastOf(S) <= i
  BY <1>1
<1>. QED BY <1>3, <1>4

-----------------------------------------------------------------------------
(***************************************************************************)
(* Options.                                                                *)
(***************************************************************************)

\* One token of a line, and all of them up to each.
Item(o, t) == IF "key" \in DOMAIN t THEN SetOption(o, t.key, t.number) ELSE o

AreSet(g, text, N) ==
  g = [n \in 0 .. N |-> IF n = 0 THEN NoOptions ELSE Item(g[n - 1], text[n])]

LEMMA OptionsExist ==
  ASSUME NEW text, NEW N \in Nat
  PROVE  \E g : AreSet(g, text, N)
<1>. DEFINE S == {n \in Nat : ~ \E g : AreSet(g, text, n)}
<1>. SUFFICES ASSUME S # {} PROVE FALSE
  OBVIOUS
<1>1. PICK m \in S : \A n \in S : m <= n
  <2>1. S \subseteq Nat
    OBVIOUS
  <2>. HIDE DEF S
  <2>. QED BY <2>1, LeastNumber
<1>2. CASE m = 0
  <2>. DEFINE h == [n \in 0 .. 0 |-> NoOptions]
  <2>1. AreSet(h, text, 0)
    BY DEF AreSet
  <2>. QED BY <1>2, <2>1
<1>3. CASE m # 0
  <2>1. m - 1 \in Nat /\ m - 1 \notin S
    BY <1>1, <1>3
  <2>2. PICK g : AreSet(g, text, m - 1)
    BY <2>1
  <2>. DEFINE h == [n \in 0 .. m |-> IF n = m THEN Item(g[m - 1], text[m]) ELSE g[n]]
  <2>3. ASSUME NEW n \in 0 .. m
        PROVE  h[n] = IF n = 0 THEN NoOptions ELSE Item(h[n - 1], text[n])
    <3>1. CASE n = m
      <4>1. h[n - 1] = g[m - 1]
        BY <1>3, <3>1
      <4>. QED BY <1>3, <3>1, <4>1
    <3>2. CASE n # m
      <4>1. n \in 0 .. m - 1 /\ h[n] = g[n]
        BY <3>2
      <4>2. g[n] = IF n = 0 THEN NoOptions ELSE Item(g[n - 1], text[n])
        BY <2>2, <4>1 DEF AreSet
      <4>3. n # 0 => h[n - 1] = g[n - 1]
        BY <3>2
      <4>. QED BY <4>1, <4>2, <4>3
    <3>. QED BY <3>1, <3>2
  <2>4. AreSet(h, text, m)
    <3>1. h = [n \in 0 .. m |-> h[n]]
      OBVIOUS
    <3>. HIDE DEF h
    <3>. QED BY <2>3, <3>1 DEF AreSet
  <2>. QED BY <2>4
<1>. QED BY <1>2, <1>3

LEMMA OptionsAre ==
  ASSUME NEW text, Len(text) \in Nat
  PROVE  \E g : AreSet(g, text, Len(text)) /\ OptionsOf(text) = g[Len(text)]
<1>. DEFINE N == Len(text)
            f == CHOOSE g : AreSet(g, text, N)
<1>1. AreSet(f, text, N)
  BY OptionsExist
<1>2. OptionsOf(text) = f[N]
  BY DEF OptionsOf, AreSet, Item
<1>. QED BY <1>1, <1>2

\* The tokens up to the n-th that give k, and what they come to.
Upto(text, k, n) == {i \in 1 .. n : "key" \in DOMAIN text[i] /\ text[i].key = k}

Latest(text, k, n) ==
  IF Upto(text, k, n) = {} THEN NULL ELSE text[LastOf(Upto(text, k, n))].number

LEMMA LatestGrows ==
  ASSUME NEW text, NEW k, NEW n \in Nat \ {0}
  PROVE  Latest(text, k, n) =
           IF "key" \in DOMAIN text[n] /\ text[n].key = k THEN text[n].number
           ELSE Latest(text, k, n - 1)
<1>1. CASE "key" \in DOMAIN text[n] /\ text[n].key = k
  <2>1. n \in Upto(text, k, n) /\ Upto(text, k, n) \subseteq 1 .. n
    BY <1>1 DEF Upto
  <2>2. \A m \in Upto(text, k, n) : m <= n
    BY <2>1
  <2>3. LastOf(Upto(text, k, n)) = n
    BY <2>1, <2>2, LastOfUnique
  <2>. QED BY <1>1, <2>1, <2>3 DEF Latest
<1>2. CASE ~("key" \in DOMAIN text[n] /\ text[n].key = k)
  <2>1. Upto(text, k, n) = Upto(text, k, n - 1)
    <3>1. \A i \in 1 .. n : i = n \/ i \in 1 .. n - 1
      OBVIOUS
    <3>2. \A i \in 1 .. n - 1 : i \in 1 .. n
      OBVIOUS
    <3>. QED BY <1>2, <3>1, <3>2 DEF Upto
  <2>. QED BY <1>2, <2>1 DEF Latest
<1>. QED BY <1>1, <1>2

LatestOf(text, n) == [k \in OptionKeys |-> Latest(text, k, n)]

LEMMA OptionsUpTo ==
  ASSUME NEW text, NEW N \in Nat, NEW g, AreSet(g, text, N), NEW n \in 0 .. N
  PROVE  g[n] = LatestOf(text, n)
<1>. USE DEF LatestOf
<1>. DEFINE S == {m \in 0 .. N : g[m] # [k \in OptionKeys |-> Latest(text, k, m)]}
<1>. SUFFICES ASSUME S # {} PROVE FALSE
  OBVIOUS
<1>1. PICK m \in S : \A l \in S : m <= l
  <2>1. S \subseteq Nat
    OBVIOUS
  <2>. HIDE DEF S
  <2>. QED BY <2>1, LeastNumber
<1>2. m \in 0 .. N /\ g[m] # [k \in OptionKeys |-> Latest(text, k, m)]
  OBVIOUS
<1>3. g[m] = IF m = 0 THEN NoOptions ELSE Item(g[m - 1], text[m])
  BY <1>2 DEF AreSet
<1>4. CASE m = 0
  <2>1. \A k \in OptionKeys : Latest(text, k, 0) = NULL
    <3>1. \A k : Upto(text, k, 0) = {}
      BY DEF Upto
    <3>. QED BY <3>1 DEF Latest
  <2>. QED BY <1>2, <1>3, <1>4, <2>1 DEF NoOptions
<1>5. CASE m # 0
  <2>1. m - 1 \in 0 .. N /\ m - 1 \notin S /\ m \in Nat \ {0}
    BY <1>1, <1>2, <1>5
  <2>2. g[m - 1] = [k \in OptionKeys |-> Latest(text, k, m - 1)]
    BY <2>1
  <2>. DEFINE t == text[m]
  <2>3. \A k \in OptionKeys : Latest(text, k, m) =
           IF "key" \in DOMAIN t /\ t.key = k THEN t.number ELSE Latest(text, k, m - 1)
    BY <2>1, LatestGrows
  <2>4. CASE "key" \in DOMAIN t
    <3>1. g[m] = [g[m - 1] EXCEPT ![t.key] = t.number]
      BY <1>3, <1>5, <2>4 DEF Item, SetOption
    <3>. HIDE DEF t, S
    <3>2. g[m] = [k \in OptionKeys |-> IF k = t.key THEN t.number ELSE Latest(text, k, m - 1)]
      BY <2>2, <3>1
    <3>. QED BY <1>2, <2>3, <2>4, <3>2
  <2>5. CASE "key" \notin DOMAIN t
    <3>1. g[m] = g[m - 1]
      BY <1>3, <1>5, <2>5 DEF Item
    <3>. HIDE DEF t, S
    <3>. QED BY <1>2, <2>2, <2>3, <2>5, <3>1
  <2>. QED BY <2>4, <2>5
<1>. QED BY <1>4, <1>5

\* What the options of a line come to: the last number given for each, whatever was
\* given before it.
LEMMA OptionsOfIs ==
  ASSUME NEW text, Len(text) \in Nat
  PROVE  OptionsOf(text) = LatestOf(text, Len(text))
<1>1. PICK g : /\ AreSet(g, text, Len(text))
               /\ OptionsOf(text) = g[Len(text)]
  BY OptionsAre
<1>. DEFINE N == Len(text)
<1>2. N \in Nat /\ N \in 0 .. N
  OBVIOUS
<1>3. g[N] = LatestOf(text, N)
  <2>1. AreSet(g, text, N)
    BY <1>1
  <2>. HIDE DEF N
  <2>. QED BY <1>2, <2>1, OptionsUpTo
<1>. QED BY <1>1, <1>3

LEMMA OptionNumber ==
  ASSUME NEW t \in Token, "key" \in DOMAIN t
  PROVE  t.number \in Int
<1>1. ASSUME t \in [key : STRING, number : Int] PROVE t.number \in Int
  BY <1>1
<1>2. ASSUME t \notin [key : STRING, number : Int] PROVE FALSE
  <2>1. t \notin [word : STRING]
    OBVIOUS
  <2>2. t \notin [json : Texts]
    OBVIOUS
  <2>3. t \notin [quoted : Texts]
    OBVIOUS
  <2>4. t \notin [num : Int]
    OBVIOUS
  <2>5. t \notin [amount : Int, unit : STRING]
    OBVIOUS
  <2>6. t \notin [client : Nat]
    OBVIOUS
  <2>7. t \notin [comment : {TRUE}]
    <3>1. t \in [comment : {TRUE}] => DOMAIN t = {"comment"}
      OBVIOUS
    <3>2. "key" \notin {"comment"}
      OBVIOUS
    <3>. QED BY <3>1, <3>2, Zenon
  <2>. QED BY <1>2, <2>1, <2>2, <2>3, <2>4, <2>5, <2>6, <2>7 DEF Token
<1>. QED BY <1>1, <1>2

LEMMA NumberGiven ==
  ASSUME NEW text \in Seq(Token), NEW k, Upto(text, k, Len(text)) # {}
  PROVE  Latest(text, k, Len(text)) \in Int
<1>. DEFINE U == Upto(text, k, Len(text))
            t == text[LastOf(U)]
<1>1. U \subseteq 1 .. Len(text)
  BY DEF Upto
<1>2. LastOf(U) \in U
  <2>. HIDE DEF U
  <2>1. Len(text) \in Nat /\ U # {}
    BY DEF U
  <2>. QED BY <1>1, <2>1, LastOfIs
<1>3. t \in Token /\ "key" \in DOMAIN t
  BY <1>1, <1>2 DEF Upto
<1>4. t.number \in Int
  BY <1>3, OptionNumber
<1>. QED BY <1>4 DEF Latest

LEMMA StatementIs ==
  ASSUME NEW t, NEW i
  PROVE  Statement(i, t).line = i /\ Statement(i, t).options = OptionsOf(t)
BY DEF Statement

-----------------------------------------------------------------------------
(***************************************************************************)
(* The inductive invariant.  What has been read is what the file says of   *)
(* the lines up to pos; statement n is the n-th line after the header.     *)
(***************************************************************************)

Body == Told \ Foremost

\* The lines of B that are before line i.
Before(B, i) == {b \in B : b < i}

FileInv ==
  /\ file \in Files
  /\ pos \in 0 .. Len(file)
  /\ name \in Idents \cup {NULL}
  /\ name # NULL <=> \E i \in Told : i <= pos
  /\ \A i \in Wrong : pos < i

StatementsInv ==
  /\ statements \in Seq({Statement(i, file[i]) : i \in Body \ Wrong})
  /\ {statements[n].line : n \in DOMAIN statements} = Before(Body, pos + 1)
  /\ Len(statements) = Cardinality(Before(Body, pos + 1))
  /\ \A n \in DOMAIN statements : Cardinality(Before(Body, statements[n].line)) = n - 1

\* Execution is of a file that was read to its end.
DoneInv ==
  /\ done \in 0 .. Len(statements)
  /\ done > 0 => pos = Len(file) /\ name # NULL

BlamedInv ==
  blamed # NULL =>
    /\ blamed \in 0 .. Len(file)
    /\ IF Told = {} THEN blamed = 0
       ELSE IF Wrong # {} THEN done = 0 /\ blamed \in Wrong /\ \A i \in Wrong : blamed <= i
       ELSE blamed \in Told /\ Cardinality(Before(Body, blamed)) = done

\* Statement n made q what it is now.
Made(n, q) ==
  /\ About(n, "CreateQueue", q)
  /\ \A m \in n .. done : ~About(m, "DeleteQueue", q)
  /\ \A m \in 1 .. n - 1 : About(m, "CreateQueue", q) =>
       \E d \in m .. n : About(d, "DeleteQueue", q)

\* Queue q is what some statement made it.
IsMade(q) ==
  \E n \in 1 .. done :
    /\ Made(n, q)
    /\ queue[q] = QueueColumns(statements[n].options, Defaults)

\* The queue that statement m is about has been deleted since.
IsDeleted(m) == \E d \in m .. done : About(d, "DeleteQueue", statements[m].args[1])

\* A queue that is not there has been deleted since it was last created.
QueueInv ==
  /\ \A q \in DOMAIN queue : IsMade(q)
  /\ \A m \in 1 .. done :
       /\ statements[m].command = "CreateQueue"
       /\ statements[m].args[1] \notin DOMAIN queue
       => IsDeleted(m)

\* Statement n sent the last job, and the queue it was sent to, unless it has been
\* deleted, is the one there is.
Sent(n) ==
  /\ statements[n].command = "Push"
  /\ \A m \in n + 1 .. done : statements[m].command # "Push"
  /\ \A k \in SendKeys : Given(n, k) # {} => job[k] = LastGiven(n, k)
  /\ (\A m \in n .. done : ~About(m, "DeleteQueue", statements[n].args[1])) =>
       /\ statements[n].args[1] \in DOMAIN queue
       /\ \A k \in SendKeys \cap QueueKeys :
            Given(n, k) = {} => job[k] = queue[statements[n].args[1]][k]

JobInv ==
  job # NULL => /\ \A k \in SendKeys : job[k] \in I32
                /\ \E n \in 1 .. done : Sent(n)

IInv == FileInv /\ StatementsInv /\ DoneInv /\ BlamedInv /\ QueueInv /\ JobInv

-----------------------------------------------------------------------------
(***************************************************************************)
(* Reading.                                                                *)
(***************************************************************************)

LEMMA LinesAre ==
  ASSUME FileInv
  PROVE  /\ Len(file) \in Nat /\ pos \in Nat
         /\ \A i \in 1 .. Len(file) : file[i] \in Seq(Token)
         /\ Body \subseteq 1 .. Len(file) /\ Told \subseteq 1 .. Len(file)
         /\ \A i \in Body : i \notin Wrong => IsStatement(file[i])
<1>1. file \in Seq(Seq(Token))
  BY FileAssumption DEF FileInv
<1>2. Told \subseteq 1 .. Len(file)
  BY DEF Told
<1>3. Body \subseteq 1 .. Len(file)
  BY <1>2 DEF Body
<1>4. \A i \in Body : i \notin Wrong => IsStatement(file[i])
  BY DEF Body, Wrong
<1>5. pos \in Nat
  BY <1>1 DEF FileInv
<1>6. \A i \in 1 .. Len(file) : file[i] \in Seq(Token)
  BY <1>1
<1>. QED BY <1>1, <1>2, <1>3, <1>4, <1>5, <1>6

LEMMA BeforeIs ==
  ASSUME FileInv, NEW i \in Int
  PROVE  /\ IsFiniteSet(Before(Body, i)) /\ Cardinality(Before(Body, i)) \in Nat
         /\ Before(Body, i + 1) = Before(Body, i) \cup (Body \cap {i})
         /\ i \notin Before(Body, i)
<1>1. Body \subseteq Int /\ IsFiniteSet(Body)
  <2>1. Len(file) \in Int /\ Body \subseteq 1 .. Len(file)
    BY LinesAre
  <2>2. IsFiniteSet(1 .. Len(file)) /\ 1 .. Len(file) \subseteq Int
    BY <2>1, FS_Interval
  <2>. QED BY <2>1, <2>2, FS_Subset
<1>2. IsFiniteSet(Before(Body, i)) /\ Cardinality(Before(Body, i)) \in Nat
  <2>1. Before(Body, i) \subseteq Body
    BY DEF Before
  <2>2. IsFiniteSet(Before(Body, i))
    BY <1>1, <2>1, FS_Subset
  <2>. QED BY <2>2, FS_CardinalityType
<1>3. Before(Body, i + 1) = Before(Body, i) \cup (Body \cap {i})
  <2>1. \A b \in Body : b < i + 1 <=> b < i \/ b = i
    BY <1>1
  <2>. QED BY <2>1 DEF Before
<1>4. i \notin Before(Body, i)
  BY DEF Before
<1>. QED BY <1>2, <1>3, <1>4

\* What statement n is.
LEMMA StatementsAre ==
  ASSUME FileInv, StatementsInv
  PROVE  /\ Len(statements) \in Nat
         /\ DOMAIN statements = 1 .. Len(statements)
         /\ \A n \in 1 .. Len(statements) :
              \E i \in Body : /\ i \notin Wrong
                             /\ statements[n] = Statement(i, file[i])
                             /\ statements[n].line = i
                             /\ statements[n].options = OptionsOf(Text(n))
                             /\ Text(n) \in Seq(Token)
<1>. DEFINE S == {Statement(i, file[i]) : i \in Body \ Wrong}
<1>1. statements \in Seq(S)
  BY DEF StatementsInv
<1>2. ASSUME NEW n \in 1 .. Len(statements)
      PROVE  \E i \in Body : /\ i \notin Wrong
                             /\ statements[n] = Statement(i, file[i])
                             /\ statements[n].line = i
                             /\ statements[n].options = OptionsOf(Text(n))
                             /\ Text(n) \in Seq(Token)
  <2>1. statements[n] \in S
    <3>. HIDE DEF S
    <3>. QED BY <1>1
  <2>2. PICK i \in Body \ Wrong : statements[n] = Statement(i, file[i])
    BY <2>1
  <2>3. file[i] \in Seq(Token)
    BY <2>2, LinesAre
  <2>4. statements[n].line = i /\ statements[n].options = OptionsOf(file[i])
    BY <2>2, StatementIs
  <2>5. Text(n) = file[i]
    BY <2>4 DEF Text
  <2>. QED BY <2>2, <2>3, <2>4, <2>5
<1>3. Len(statements) \in Nat /\ DOMAIN statements = 1 .. Len(statements)
  <2>. HIDE DEF S
  <2>. QED BY <1>1
<1>. QED BY <1>2, <1>3

LEMMA SameFile ==
  ASSUME file' = file
  PROVE  Told' = Told /\ Wrong' = Wrong /\ Body' = Body
BY DEF Told, Foremost, Wrong, Body

\* The first line that counts is the header, and there is one once there is a name.
LEMMA NextLine ==
  ASSUME FileInv, Reading
  PROVE  /\ pos + 1 \in 1 .. Len(file)
         /\ pos + 1 \in Told <=> ~IsSkipped(Line)
         /\ name = NULL /\ pos + 1 \in Told => pos + 1 \in Foremost
         /\ name # NULL => pos + 1 \notin Foremost
         /\ \A i \in Told : i <= pos + 1 <=> i <= pos \/ i = pos + 1
<1>1. Len(file) \in Nat /\ pos \in Nat /\ Told \subseteq 1 .. Len(file) /\ pos < Len(file)
  BY LinesAre DEF Reading
<1>2. pos + 1 \in 1 .. Len(file)
  BY <1>1
<1>3. pos + 1 \in Told <=> ~IsSkipped(Line)
  BY <1>2 DEF Told, Line
<1>4. \A i \in Told : i \in Int
  BY <1>1
<1>5. \A i \in Told : i <= pos + 1 <=> i <= pos \/ i = pos + 1
  BY <1>1, <1>4
<1>6. ASSUME name = NULL, pos + 1 \in Told
      PROVE  pos + 1 \in Foremost
  <2>1. \A i \in Told : ~(i <= pos)
    BY <1>6 DEF FileInv
  <2>2. \A i \in Told : pos + 1 <= i
    BY <1>1, <1>4, <2>1
  <2>. QED BY <1>6, <2>2 DEF Foremost
<1>7. ASSUME name # NULL
      PROVE  pos + 1 \notin Foremost
  <2>1. PICK i \in Told : i <= pos
    BY <1>7 DEF FileInv
  <2>2. ~(pos + 1 <= i)
    BY <1>1, <1>4, <2>1
  <2>. QED BY <2>1, <2>2 DEF Foremost
<1>. QED BY <1>2, <1>3, <1>5, <1>6, <1>7

\* Reading goes on after a line that is as it should be.
LEMMA ReadingFile ==
  ASSUME FileInv, SkipLine \/ ReadHeader \/ ReadStatement
  PROVE  FileInv' /\ pos + 1 \notin Wrong
<1>1. Reading /\ file' = file /\ pos' = pos + 1
  BY DEF SkipLine, ReadHeader, ReadStatement
<1>2. Told' = Told /\ Wrong' = Wrong
  BY <1>1, SameFile
<1>3. Len(file) \in Nat /\ pos \in Nat /\ Told \subseteq 1 .. Len(file) /\ pos < Len(file)
  BY <1>1, LinesAre DEF Reading
<1>4. Wrong \subseteq Told /\ Told \subseteq Int
  BY <1>3 DEF Wrong, Foremost
<1>5. /\ pos + 1 \notin Wrong
      /\ name' \in Idents \cup {NULL}
      /\ name' # NULL <=> name # NULL \/ pos + 1 \in Told
  <2>1. CASE SkipLine
    <3>1. pos + 1 \notin Told /\ name' = name
      BY <1>1, <2>1, NextLine DEF SkipLine
    <3>. QED BY <1>4, <3>1 DEF FileInv
  <2>2. CASE ReadHeader
    <3>1. pos + 1 \in Told /\ pos + 1 \in Foremost /\ IsHeader(file[pos + 1])
      BY <1>1, <2>2, NextLine DEF ReadHeader, Line
    <3>2. pos + 1 \notin Wrong
      BY <3>1 DEF Wrong
    <3>3. name' \in Idents
      <4>1. Len(HeaderForm) = 2 /\ HeaderForm[2] = Idents
        BY DEF HeaderForm
      <4>2. file[pos + 1][1 + 2 - 1] \in HeaderForm[2]
        BY <3>1, <4>1 DEF IsHeader, Reads
      <4>. QED BY <2>2, <4>1, <4>2 DEF ReadHeader, Line
    <3>. QED BY <3>1, <3>2, <3>3, FileAssumption
  <2>3. CASE ReadStatement
    <3>1. pos + 1 \in Told /\ pos + 1 \notin Foremost /\ IsStatement(file[pos + 1])
      BY <1>1, <2>3, NextLine DEF ReadStatement, Line
    <3>2. pos + 1 \notin Wrong
      BY <3>1 DEF Wrong
    <3>. QED BY <2>3, <3>1, <3>2 DEF ReadStatement, FileInv
  <2>. QED BY <2>1, <2>2, <2>3
<1>6. \A i \in Wrong : pos + 1 < i
  <2>1. \A i \in Wrong : pos < i /\ i # pos + 1
    BY <1>5 DEF FileInv
  <2>. QED BY <1>3, <1>4, <2>1
<1>7. name' # NULL <=> \E i \in Told : i <= pos + 1
  <2>1. \A i \in Told : i <= pos + 1 <=> i <= pos \/ i = pos + 1
    BY <1>1, NextLine
  <2>2. pos + 1 \in Told => pos + 1 <= pos + 1
    BY <1>3
  <2>3. name # NULL <=> \E i \in Told : i <= pos
    BY DEF FileInv
  <2>. QED BY <1>5, <2>1, <2>2, <2>3
<1>8. pos + 1 \in 0 .. Len(file)
  BY <1>3
<1>9. FileInv'
  BY <1>1, <1>2, <1>5, <1>6, <1>7, <1>8 DEF FileInv
<1>. QED BY <1>5, <1>9

LEMMA NotDone ==
  ASSUME FileInv, StatementsInv, DoneInv, pos < Len(file) \/ name = NULL
  PROVE  done = 0
<1>1. Len(file) \in Nat /\ pos \in Nat /\ Len(statements) \in Nat
  BY LinesAre, StatementsAre
<1>. QED BY <1>1 DEF DoneInv

LEMMA NextBefore ==
  ASSUME FileInv, Reading
  PROVE  /\ IsFiniteSet(Before(Body, pos + 1)) /\ Cardinality(Before(Body, pos + 1)) \in Nat
         /\ pos + 1 \notin Before(Body, pos + 1)
         /\ pos + 1 \in Body => Before(Body, pos + 2) = Before(Body, pos + 1) \cup {pos + 1}
         /\ pos + 1 \notin Body => Before(Body, pos + 2) = Before(Body, pos + 1)
<1>. DEFINE i == pos + 1
<1>1. i \in Int /\ i + 1 = pos + 2
  BY LinesAre
<1>2. /\ IsFiniteSet(Before(Body, i)) /\ Cardinality(Before(Body, i)) \in Nat
      /\ Before(Body, i + 1) = Before(Body, i) \cup (Body \cap {i})
      /\ i \notin Before(Body, i)
  <2>. HIDE DEF i
  <2>. QED BY <1>1, BeforeIs
<1>3. Before(Body, pos + 2) = Before(Body, i) \cup (Body \cap {i})
  BY <1>1, <1>2
<1>. QED BY <1>2, <1>3

LEMMA ReadingStatements ==
  ASSUME FileInv, StatementsInv, SkipLine \/ ReadHeader \/ ReadStatement
  PROVE  StatementsInv'
<1>1. Reading /\ file' = file /\ pos' = pos + 1
  BY DEF SkipLine, ReadHeader, ReadStatement
<1>2. Told' = Told /\ Wrong' = Wrong /\ Body' = Body
  BY <1>1, SameFile
<1>3. Before(Body', pos' + 1) = Before(Body, pos + 2)
  <2>1. pos' + 1 = pos + 2
    BY <1>1, LinesAre
  <2>. QED BY <1>2, <2>1
<1>4. /\ IsFiniteSet(Before(Body, pos + 1)) /\ Cardinality(Before(Body, pos + 1)) \in Nat
      /\ pos + 1 \notin Before(Body, pos + 1)
      /\ pos + 1 \in Body => Before(Body, pos + 2) = Before(Body, pos + 1) \cup {pos + 1}
      /\ pos + 1 \notin Body => Before(Body, pos + 2) = Before(Body, pos + 1)
  BY <1>1, NextBefore
<1>. DEFINE S == {Statement(i, file[i]) : i \in Body \ Wrong}
<1>5. /\ statements \in Seq(S)
      /\ {statements[n].line : n \in DOMAIN statements} = Before(Body, pos + 1)
      /\ Len(statements) = Cardinality(Before(Body, pos + 1))
      /\ \A n \in DOMAIN statements : Cardinality(Before(Body, statements[n].line)) = n - 1
  BY DEF StatementsInv
<1>6. CASE SkipLine \/ ReadHeader
  <2>1. pos + 1 \notin Body /\ statements' = statements
    <3>1. CASE SkipLine
      BY <1>1, <3>1, NextLine DEF SkipLine, Body
    <3>2. CASE ReadHeader
      BY <1>1, <3>2, NextLine DEF ReadHeader, Body
    <3>. QED BY <1>6, <3>1, <3>2
  <2>2. Before(Body', pos' + 1) = Before(Body, pos + 1)
    BY <1>3, <1>4, <2>1
  <2>. HIDE DEF S
  <2>. QED BY <1>1, <1>2, <1>5, <2>1, <2>2 DEF StatementsInv, S
<1>7. CASE ReadStatement
  <2>1. pos + 1 \in Body \ Wrong
    BY <1>1, <1>7, NextLine, ReadingFile DEF ReadStatement, Body
  <2>. DEFINE st == Statement(pos + 1, file[pos + 1])
              N  == Len(statements)
  <2>2. statements' = Append(statements, st) /\ st \in S
    BY <1>7, <2>1 DEF ReadStatement, LineNo, Line
  <2>3. st.line = pos + 1
    BY DEF Statement
  <2>4. /\ statements' \in Seq(S) /\ N \in Nat
        /\ DOMAIN statements = 1 .. N /\ DOMAIN statements' = 1 .. N + 1 /\ Len(statements') = N + 1
        /\ \A n \in 1 .. N : statements'[n] = statements[n]
        /\ statements'[N + 1] = st
    <3>. HIDE DEF S, st
    <3>. QED BY <1>5, <2>2
  <2>5. {statements'[n].line : n \in DOMAIN statements'} = Before(Body, pos + 2)
    <3>1. \A n \in 1 .. N + 1 : n \in 1 .. N \/ n = N + 1
      BY <2>4
    <3>2. \A n \in 1 .. N : n \in 1 .. N + 1
      BY <2>4
    <3>3. N + 1 \in 1 .. N + 1
      BY <2>4
    <3>4. {statements[n].line : n \in 1 .. N} = Before(Body, pos + 1)
      BY <1>5, <2>4
    <3>5. {statements'[n].line : n \in 1 .. N + 1} = Before(Body, pos + 1) \cup {pos + 1}
      <4>. HIDE DEF S, st, N
      <4>. QED BY <2>3, <2>4, <3>1, <3>2, <3>3, <3>4
    <3>. QED BY <1>4, <2>1, <2>4, <3>5
  <2>6. Len(statements') = Cardinality(Before(Body, pos + 2))
    BY <1>4, <1>5, <2>1, <2>4, FS_AddElement
  <2>7. ASSUME NEW n \in DOMAIN statements'
        PROVE  Cardinality(Before(Body, statements'[n].line)) = n - 1
    <3>1. CASE n \in 1 .. N
      BY <1>5, <2>4, <3>1
    <3>2. CASE n = N + 1
      <4>1. statements'[n].line = pos + 1
        BY <2>3, <2>4, <3>2
      <4>. QED BY <1>5, <2>4, <3>2, <4>1
    <3>. QED BY <2>4, <2>7, <3>1, <3>2
  <2>8. statements' \in Seq({Statement(i, file[i]) : i \in Body \ Wrong})
    BY <2>4
  <2>. HIDE DEF S, st, N
  <2>. QED BY <1>1, <1>2, <1>3, <2>5, <2>6, <2>7, <2>8 DEF StatementsInv
<1>. QED BY <1>6, <1>7

\* Before anything is executed there are no queues and no job.
LEMMA NothingYet ==
  ASSUME done = 0, QueueInv, JobInv
  PROVE  DOMAIN queue = {} /\ job = NULL
<1>1. \A n \in 1 .. done : FALSE
  OBVIOUS
<1>. QED BY <1>1 DEF QueueInv, IsMade, JobInv

LEMMA ReadingInv ==
  ASSUME IInv, SkipLine \/ ReadHeader \/ ReadStatement
  PROVE  IInv'
<1>1. /\ Reading /\ file' = file /\ done' = done /\ blamed' = blamed
      /\ queue' = queue /\ job' = job
  BY DEF SkipLine, ReadHeader, ReadStatement
<1>2. FileInv' /\ StatementsInv'
  BY ReadingFile, ReadingStatements DEF IInv
<1>3. done = 0 /\ blamed = NULL /\ Len(statements') \in Nat
  <2>1. Len(statements') \in Nat
    BY <1>2 DEF StatementsInv
  <2>. QED BY <1>1, <2>1, NotDone DEF IInv, Reading
<1>4. DoneInv'
  BY <1>1, <1>3 DEF DoneInv
<1>5. BlamedInv'
  BY <1>1, <1>3 DEF BlamedInv
<1>6. DOMAIN queue = {} /\ job = NULL
  BY <1>3, NothingYet DEF IInv
<1>7. \A m \in 1 .. done' : FALSE
  BY <1>1, <1>3
<1>8. QueueInv'
  BY <1>1, <1>6, <1>7 DEF QueueInv
<1>9. JobInv'
  BY <1>1, <1>6 DEF JobInv
<1>. QED BY <1>2, <1>4, <1>5, <1>8, <1>9 DEF IInv

-----------------------------------------------------------------------------
(***************************************************************************)
(* Errors.                                                                 *)
(***************************************************************************)

\* A file that is read to its end has no wrong line.
LEMMA ReadToTheEnd ==
  ASSUME FileInv, pos = Len(file)
  PROVE  Wrong = {} /\ (name = NULL <=> Told = {}) /\ Before(Body, pos + 1) = Body
<1>1. Len(file) \in Nat /\ pos \in Nat
  BY LinesAre
<1>2. Told \subseteq 1 .. Len(file) /\ Body \subseteq 1 .. Len(file)
  BY LinesAre
<1>3. \A i \in 1 .. Len(file) : i <= pos /\ ~(pos < i) /\ i < pos + 1
  BY <1>1
<1>4. Wrong = {}
  <2>1. Wrong \subseteq Told
    BY DEF Wrong, Foremost
  <2>. QED BY <1>2, <1>3, <2>1 DEF FileInv
<1>5. name = NULL <=> Told = {}
  BY <1>2, <1>3 DEF FileInv
<1>6. Before(Body, pos + 1) = Body
  BY <1>2, <1>3 DEF Before
<1>. QED BY <1>4, <1>5, <1>6

\* A wrong line is blamed when it is the next one, and so the first.
LEMMA ParseErrorInv ==
  ASSUME IInv, ParseError
  PROVE  BlamedInv'
<1>1. file' = file /\ done' = done
  BY DEF ParseError
<1>2. Told' = Told /\ Wrong' = Wrong /\ Body' = Body
  BY <1>1, SameFile
<1>3. CASE Reading /\ ~IsSkipped(Line) /\ blamed' = LineNo(pos)
             /\ ~(IF name = NULL THEN IsHeader(Line) ELSE IsStatement(Line))
  <2>1. pos + 1 \in Told /\ pos + 1 \in 1 .. Len(file) /\ file[pos + 1] = Line
    BY <1>3, NextLine DEF IInv, Line
  <2>2. pos + 1 \in Wrong
    <3>1. CASE name = NULL
      <4>1. pos + 1 \in Foremost
        BY <1>3, <2>1, <3>1, NextLine DEF IInv
      <4>. QED BY <1>3, <2>1, <3>1, <4>1 DEF Wrong
    <3>2. CASE name # NULL
      <4>1. pos + 1 \notin Foremost
        BY <1>3, <2>1, <3>2, NextLine DEF IInv
      <4>. QED BY <1>3, <2>1, <3>2, <4>1 DEF Wrong
    <3>. QED BY <3>1, <3>2
  <2>3. \A i \in Wrong : pos + 1 <= i
    <3>1. pos \in Nat /\ Told \subseteq 1 .. Len(file) /\ Len(file) \in Nat
      BY LinesAre DEF IInv
    <3>2. Wrong \subseteq Told
      BY DEF Wrong, Foremost
    <3>3. \A i \in Wrong : pos < i /\ i \in Int
      BY <3>1, <3>2 DEF IInv, FileInv
    <3>. QED BY <3>1, <3>3
  <2>4. done = 0
    BY <1>3, NotDone DEF IInv, Reading
  <2>5. pos + 1 \in 0 .. Len(file)
    BY <2>1
  <2>. QED BY <1>1, <1>2, <1>3, <2>1, <2>2, <2>3, <2>4, <2>5 DEF BlamedInv, LineNo
<1>4. CASE blamed = NULL /\ pos = Len(file) /\ name = NULL /\ blamed' = 0
  <2>1. Told = {}
    BY <1>4, ReadToTheEnd DEF IInv
  <2>2. 0 \in 0 .. Len(file)
    BY LinesAre DEF IInv
  <2>. QED BY <1>1, <1>2, <1>4, <2>1, <2>2 DEF BlamedInv
<1>. QED BY <1>3, <1>4 DEF ParseError

\* What is blamed in execution is the line of the next statement.
LEMMA RunErrorInv ==
  ASSUME IInv, Parsed, done < Len(statements),
         file' = file, done' = done, blamed' = statements[done + 1].line
  PROVE  BlamedInv'
<1>1. Told' = Told /\ Wrong' = Wrong /\ Body' = Body
  BY SameFile
<1>2. Wrong = {} /\ Told # {}
  BY ReadToTheEnd DEF IInv, Parsed
<1>3. done + 1 \in 1 .. Len(statements) /\ done \in Nat
  BY StatementsAre DEF IInv, DoneInv
<1>4. blamed' \in Body /\ done + 1 \in DOMAIN statements
  BY <1>3, StatementsAre DEF IInv
<1>5. Cardinality(Before(Body, blamed')) = done
  <2>1. Cardinality(Before(Body, blamed')) = (done + 1) - 1
    BY <1>4 DEF IInv, StatementsInv
  <2>. QED BY <1>3, <2>1
<1>6. blamed' \in Told /\ blamed' \in 0 .. Len(file)
  <2>1. blamed' \in 1 .. Len(file)
    BY <1>4, LinesAre DEF IInv
  <2>2. Len(file) \in Nat
    BY LinesAre DEF IInv
  <2>. QED BY <1>4, <2>1, <2>2 DEF Body
<1>. QED BY <1>1, <1>2, <1>5, <1>6 DEF BlamedInv

-----------------------------------------------------------------------------
(***************************************************************************)
(* Execution.                                                              *)
(***************************************************************************)

Step == UNCHANGED <<file, statements>> /\ done' = done + 1

LEMMA SameStatements ==
  ASSUME UNCHANGED <<file, statements>>
  PROVE  /\ \A m, c, q : About(m, c, q)' <=> About(m, c, q)
         /\ \A n, k : Given(n, k)' = Given(n, k) /\ LastGiven(n, k)' = LastGiven(n, k)
<1>1. \A m, c, q : About(m, c, q)' <=> About(m, c, q)
  BY DEF About
<1>2. \A n, k : Given(n, k)' = Given(n, k)
  BY DEF Given, Text
<1>3. \A n, k : LastGiven(n, k)' = LastGiven(n, k)
  BY <1>2 DEF LastGiven, Text
<1>. QED BY <1>1, <1>2, <1>3

\* A queue stays as it was made unless the statement deletes it.
LEMMA QueueKept ==
  ASSUME QueueInv, Step, done \in Nat, NEW q \in DOMAIN queue,
         ~About(done + 1, "DeleteQueue", q), queue'[q] = queue[q]
  PROVE  IsMade(q)'
<1>1. PICK n \in 1 .. done :
        Made(n, q) /\ queue[q] = QueueColumns(statements[n].options, Defaults)
  BY DEF QueueInv, IsMade
<1>2. n \in 1 .. done' /\ \A m \in n .. done' : m \in n .. done \/ m = done + 1
  BY DEF Step
<1>3. /\ About(n, "CreateQueue", q)
      /\ \A m \in n .. done : ~About(m, "DeleteQueue", q)
      /\ \A m \in 1 .. n - 1 : About(m, "CreateQueue", q) =>
           \E d \in m .. n : About(d, "DeleteQueue", q)
  BY <1>1 DEF Made
<1>4. \A m \in n .. done' : ~About(m, "DeleteQueue", q)
  BY <1>2, <1>3
<1>5. \A m, c, x : About(m, c, x)' <=> About(m, c, x)
  BY SameStatements DEF Step
<1>6. Made(n, q)'
  BY <1>3, <1>4, <1>5 DEF Made
<1>. QED BY <1>1, <1>2, <1>6 DEF Step, IsMade

\* One that was not there before is still deleted.
LEMMA DeletedKept ==
  ASSUME QueueInv, Step, done \in Nat, NEW m \in 1 .. done,
         statements[m].command = "CreateQueue", statements[m].args[1] \notin DOMAIN queue
  PROVE  IsDeleted(m)'
<1>1. PICK d \in m .. done : About(d, "DeleteQueue", statements[m].args[1])
  BY DEF QueueInv, IsDeleted
<1>2. d \in m .. done'
  BY DEF Step
<1>. QED BY <1>1, <1>2 DEF Step, About, IsDeleted

LEMMA CreateQueueInv ==
  ASSUME QueueInv, done \in Nat, CreateQueue, done' # done
  PROVE  QueueInv'
<1>. PICK e : e = done + 1
  OBVIOUS
<1>. DEFINE st == statements[e]
            a  == st.args[1]
<1>1. Step /\ st.command = "CreateQueue" /\ e \in 1 .. done' /\ done' = e
  BY DEF CreateQueue, Succeeds, Fails, Running, Step
<1>2. queue' = [x \in DOMAIN queue \cup {a} |->
                  IF x \in DOMAIN queue THEN queue[x]
                  ELSE QueueColumns(st.options, Defaults)]
  BY DEF CreateQueue, Fails
<1>3. \A q : ~About(e, "DeleteQueue", q)
  BY <1>1 DEF About
<1>4. ASSUME NEW q \in DOMAIN queue'
      PROVE  IsMade(q)'
  <2>1. CASE q \in DOMAIN queue
    <3>1. queue'[q] = queue[q]
      BY <1>2, <2>1
    <3>. QED BY <1>1, <1>3, <2>1, <3>1, QueueKept
  <2>2. CASE q \notin DOMAIN queue
    <3>1. q = a /\ queue'[q] = QueueColumns(st.options, Defaults)
      BY <1>2, <2>2
    <3>2. About(e, "CreateQueue", q)
      BY <1>1, <3>1 DEF About
    <3>3. ASSUME NEW m \in 1 .. e - 1, About(m, "CreateQueue", q)
          PROVE  \E d \in m .. e : About(d, "DeleteQueue", q)
      <4>1. PICK d \in m .. done : About(d, "DeleteQueue", q)
        BY <2>2, <3>3 DEF QueueInv, About, IsDeleted
      <4>2. d \in m .. e
        OBVIOUS
      <4>. QED BY <4>1, <4>2
    <3>4. \A m, c, x : About(m, c, x)' <=> About(m, c, x)
      BY <1>1, SameStatements DEF Step
    <3>5. \A m \in e .. done' : ~About(m, "DeleteQueue", q)
      BY <1>1, <1>3
    <3>6. Made(e, q)'
      BY <3>2, <3>3, <3>4, <3>5 DEF Made
    <3>. QED BY <1>1, <3>1, <3>6 DEF Step, IsMade
  <2>. QED BY <2>1, <2>2
<1>5. ASSUME NEW m \in 1 .. done', statements'[m].command = "CreateQueue",
             statements'[m].args[1] \notin DOMAIN queue'
      PROVE  IsDeleted(m)'
  <2>1. statements[m].args[1] \notin DOMAIN queue /\ statements[m].args[1] # a
    BY <1>1, <1>2, <1>5 DEF Step
  <2>2. m \in 1 .. done /\ statements[m].command = "CreateQueue"
    BY <1>1, <1>5, <2>1 DEF Step
  <2>. QED BY <1>1, <2>1, <2>2, DeletedKept
<1>. QED BY <1>4, <1>5 DEF QueueInv

LEMMA DeleteQueueInv ==
  ASSUME QueueInv, done \in Nat, DeleteQueue, done' # done
  PROVE  QueueInv'
<1>. PICK e : e = done + 1
  OBVIOUS
<1>. DEFINE a == statements[e].args[1]
<1>1. Step /\ statements[e].command = "DeleteQueue" /\ e \in 1 .. done' /\ done' = e
  BY DEF DeleteQueue, Succeeds, Fails, Running, Step
<1>2. queue' = [x \in DOMAIN queue \ {a} |-> queue[x]]
  BY DEF DeleteQueue, Fails, Restrict
<1>3. ASSUME NEW q \in DOMAIN queue'
      PROVE  IsMade(q)'
  <2>1. q \in DOMAIN queue /\ q # a /\ queue'[q] = queue[q]
    BY <1>2
  <2>2. ~About(done + 1, "DeleteQueue", q)
    BY <2>1 DEF About
  <2>. QED BY <1>1, <2>1, <2>2, QueueKept
<1>4. ASSUME NEW m \in 1 .. done', statements'[m].command = "CreateQueue",
             statements'[m].args[1] \notin DOMAIN queue'
      PROVE  IsDeleted(m)'
  <2>1. m \in 1 .. done /\ statements[m].command = "CreateQueue" /\ m \in Int
    BY <1>1, <1>4 DEF Step
  <2>2. CASE statements[m].args[1] = a
    <3>1. e \in m .. done'
      BY <1>1, <2>1
    <3>2. About(e, "DeleteQueue", statements[m].args[1])'
      BY <1>1, <2>2 DEF About, Step
    <3>. QED BY <3>1, <3>2 DEF IsDeleted
  <2>3. CASE statements[m].args[1] # a
    <3>1. statements[m].args[1] \notin DOMAIN queue
      BY <1>1, <1>2, <1>4, <2>3 DEF Step
    <3>. QED BY <1>1, <2>1, <3>1, DeletedKept
  <2>. QED BY <2>2, <2>3
<1>. QED BY <1>3, <1>4 DEF QueueInv

\* What neither creates nor deletes a queue.
LEMMA OtherQueueInv ==
  ASSUME QueueInv, done \in Nat, Step, queue' = queue,
         statements[done + 1].command \notin {"CreateQueue", "DeleteQueue"}
  PROVE  QueueInv'
<1>1. \A q \in DOMAIN queue' : IsMade(q)'
  <2>1. \A q : ~About(done + 1, "DeleteQueue", q)
    BY DEF About
  <2>. QED BY <2>1, QueueKept
<1>2. ASSUME NEW m \in 1 .. done', statements'[m].command = "CreateQueue",
             statements'[m].args[1] \notin DOMAIN queue'
      PROVE  IsDeleted(m)'
  <2>1. m \in 1 .. done /\ statements[m].command = "CreateQueue"
    BY <1>2 DEF Step
  <2>. QED BY <1>2, <2>1, DeletedKept DEF Step
<1>. QED BY <1>1, <1>2 DEF QueueInv

-----------------------------------------------------------------------------
(***************************************************************************)
(* Columns.                                                                *)
(***************************************************************************)

\* A cast to i32 makes an i32 of everything, and leaves one alone.
LEMMA Casts ==
  ASSUME NEW v \in Int
  PROVE  Cast32(v) \in I32 /\ (v \in I32 => Cast32(v) = v)
<1>. DEFINE w == 2 * Half32
<1>1. Half32 \in Nat /\ w \in Nat /\ 0 < w /\ w = Half32 + Half32
  BY WidthAssumption
<1>2. ASSUME NEW x \in Int
      PROVE  x % w \in Int /\ 0 <= x % w /\ x % w < w /\ (x \in 0 .. w - 1 => x % w = x)
  <2>. HIDE DEF w
  <2>. QED BY <1>1
<1>3. v + Half32 \in Int /\ Cast32(v) = ((v + Half32) % w) - Half32
  BY <1>1 DEF Cast32
<1>. HIDE DEF w
<1>. DEFINE y == (v + Half32) % w
<1>4. y \in Int /\ 0 <= y /\ y < w /\ (v + Half32 \in 0 .. w - 1 => y = v + Half32)
  BY <1>2, <1>3
<1>. HIDE DEF y
<1>5. Cast32(v) = y - Half32
  BY <1>3 DEF y
<1>6. v \in I32 => v + Half32 \in 0 .. w - 1
  BY <1>1 DEF I32
<1>7. Cast32(v) \in I32
  BY <1>1, <1>4, <1>5 DEF I32
<1>8. v \in I32 => Cast32(v) = v
  BY <1>1, <1>4, <1>5, <1>6
<1>. QED BY <1>7, <1>8

\* What option k of statement n comes to.
Option(n, k) == Latest(Text(n), k, Len(Text(n)))

LEMMA OptionIs ==
  ASSUME NEW n, Text(n) \in Seq(Token), NEW k
  PROVE  /\ Option(n, k) \in Int \cup {NULL}
         /\ Given(n, k) = {} => Option(n, k) = NULL
         /\ Given(n, k) # {} => Option(n, k) = LastGiven(n, k) /\ Option(n, k) # NULL
<1>. DEFINE text == Text(n)
<1>1. DOMAIN text = 1 .. Len(text)
  OBVIOUS
<1>2. Given(n, k) = Upto(text, k, Len(text))
  BY <1>1 DEF Given, Upto
<1>3. Option(n, k) = IF Given(n, k) = {} THEN NULL ELSE LastGiven(n, k)
  BY <1>2 DEF Option, Latest, LastGiven
<1>4. Given(n, k) # {} => Option(n, k) \in Int
  BY <1>2, NumberGiven DEF Option
<1>. QED BY <1>3, <1>4, FileAssumption

LEMMA OptionsOfStatement ==
  ASSUME NEW n, Text(n) \in Seq(Token), statements[n].options = OptionsOf(Text(n)),
         NEW k \in OptionKeys
  PROVE  statements[n].options[k] = Option(n, k)
<1>1. Len(Text(n)) \in Nat
  OBVIOUS
<1>2. OptionsOf(Text(n)) = LatestOf(Text(n), Len(Text(n)))
  BY <1>1, OptionsOfIs
<1>. QED BY <1>2 DEF LatestOf, Option

\* The columns of a queue are SQL integers, and what was given where that is one.
LEMMA QueueColumnsAre ==
  ASSUME NEW n, Text(n) \in Seq(Token), statements[n].options = OptionsOf(Text(n)),
         NEW k \in QueueKeys, NEW columns,
         columns = QueueColumns(statements[n].options, Defaults)
  PROVE  /\ columns[k] \in I32
         /\ Given(n, k) = {} => columns[k] = Defaults[k]
         /\ Given(n, k) # {} /\ LastGiven(n, k) \in I32 => columns[k] = LastGiven(n, k)
<1>. DEFINE v == Option(n, k)
<1>1. statements[n].options[k] = v
  BY OptionsOfStatement DEF OptionKeys
<1>2. columns[k] = IF v = NULL THEN Defaults[k] ELSE Cast32(v)
  BY <1>1 DEF QueueColumns, AsI32
<1>3. /\ v \in Int \cup {NULL}
      /\ Given(n, k) = {} => v = NULL
      /\ Given(n, k) # {} => v = LastGiven(n, k) /\ v # NULL
  BY OptionIs
<1>4. v # NULL => Cast32(v) \in I32 /\ (v \in I32 => Cast32(v) = v)
  BY <1>3, Casts
<1>5. Defaults[k] \in I32
  BY FileAssumption
<1>. HIDE DEF v
<1>. QED BY <1>2, <1>3, <1>4, <1>5

-----------------------------------------------------------------------------
(***************************************************************************)
(* Jobs.                                                                   *)
(***************************************************************************)

\* Every column of every queue is an SQL integer.
LEMMA QueuesAre ==
  ASSUME IInv, NEW q \in DOMAIN queue, NEW k \in QueueKeys
  PROVE  queue[q][k] \in I32
<1>1. PICK n \in 1 .. done :
        queue[q] = QueueColumns(statements[n].options, Defaults)
  BY DEF IInv, QueueInv, IsMade
<1>2. n \in 1 .. Len(statements)
  BY StatementsAre DEF IInv, DoneInv
<1>3. Text(n) \in Seq(Token) /\ statements[n].options = OptionsOf(Text(n))
  BY <1>2, StatementsAre DEF IInv
<1>. QED BY <1>1, <1>3, QueueColumnsAre

\* A step that executes nothing.
LEMMA TablesSame ==
  ASSUME QueueInv, JobInv, UNCHANGED <<file, statements, done, queue, job>>
  PROVE  QueueInv' /\ JobInv'
<1>1. /\ \A m, c, x : About(m, c, x)' <=> About(m, c, x)
      /\ \A m, k : Given(m, k)' = Given(m, k) /\ LastGiven(m, k)' = LastGiven(m, k)
  BY SameStatements
<1>2. \A n, q : Made(n, q)' <=> Made(n, q)
  BY <1>1 DEF Made
<1>3. \A q : IsMade(q)' <=> IsMade(q)
  BY <1>2 DEF IsMade
<1>4. \A m : IsDeleted(m)' <=> IsDeleted(m)
  BY DEF IsDeleted, About
<1>5. \A n : Sent(n)' <=> Sent(n)
  <2>1. ASSUME NEW n
        PROVE  Sent(n)' <=> Sent(n)
    <3>. PICK a : a = statements[n].args[1]
      OBVIOUS
    <3>1. statements'[n].args[1] = a
      OBVIOUS
    <3>2. (\A m \in n .. done' : ~About(m, "DeleteQueue", a)') <=>
          (\A m \in n .. done : ~About(m, "DeleteQueue", a))
      BY <1>1
    <3>. QED BY <1>1, <3>1, <3>2 DEF Sent
  <2>. QED BY <2>1
<1>6. QueueInv'
  BY <1>3, <1>4 DEF QueueInv
<1>7. JobInv'
  BY <1>5 DEF JobInv
<1>. QED BY <1>6, <1>7

\* The last job stays while its queue does, and its queue stays as it is.
LEMMA SentKept ==
  ASSUME NEW n \in 1 .. done, Sent(n), done \in Nat, Step, job' = job,
         statements[done + 1].command # "Push",
         LET a == statements[n].args[1]
         IN  a \in DOMAIN queue /\ ~About(done + 1, "DeleteQueue", a) =>
               a \in DOMAIN queue' /\ queue'[a] = queue[a]
  PROVE  Sent(n)'
<1>. PICK a : a = statements[n].args[1]
  OBVIOUS
<1>1. /\ \A m, c, x : About(m, c, x)' <=> About(m, c, x)
      /\ \A m, k : Given(m, k)' = Given(m, k) /\ LastGiven(m, k)' = LastGiven(m, k)
  BY SameStatements DEF Step
<1>2. /\ \A m \in n + 1 .. done' : m \in n + 1 .. done \/ m = done + 1
      /\ \A m \in n .. done : m \in n .. done'
      /\ done + 1 \in n .. done'
  BY DEF Step
<1>3. (statements[n].command = "Push")'
  BY DEF Sent, Step
<1>4. \A m \in n + 1 .. done' : statements'[m].command # "Push"
  BY <1>2 DEF Sent, Step
<1>5. \A k \in SendKeys : Given(n, k)' # {} => job'[k] = LastGiven(n, k)'
  BY <1>1 DEF Sent
<1>6. ASSUME \A m \in n .. done' : ~About(m, "DeleteQueue", a)
      PROVE  /\ a \in DOMAIN queue'
             /\ \A k \in SendKeys \cap QueueKeys : Given(n, k) = {} => job[k] = queue'[a][k]
  <2>1. /\ a \in DOMAIN queue
        /\ \A k \in SendKeys \cap QueueKeys : Given(n, k) = {} => job[k] = queue[a][k]
    BY <1>2, <1>6 DEF Sent
  <2>2. a \in DOMAIN queue' /\ queue'[a] = queue[a]
    BY <1>2, <1>6, <2>1
  <2>. QED BY <2>1, <2>2
<1>7. statements'[n].args[1] = a
  BY DEF Step
<1>8. (\A m \in n .. done' : ~About(m, "DeleteQueue", a)') =>
        /\ a \in DOMAIN queue'
        /\ \A k \in SendKeys \cap QueueKeys : Given(n, k)' = {} => job'[k] = queue'[a][k]
  BY <1>1, <1>6
<1>. QED BY <1>3, <1>4, <1>5, <1>7, <1>8 DEF Sent, Step

LEMMA JobKept ==
  ASSUME JobInv, done \in Nat, Step, job' = job, statements[done + 1].command # "Push",
         \A a \in DOMAIN queue : ~About(done + 1, "DeleteQueue", a) =>
           a \in DOMAIN queue' /\ queue'[a] = queue[a]
  PROVE  JobInv'
<1>1. CASE job = NULL
  BY <1>1 DEF JobInv
<1>2. CASE job # NULL
  <2>1. PICK n \in 1 .. done : Sent(n)
    BY <1>2 DEF JobInv
  <2>2. Sent(n)'
    BY <2>1, SentKept
  <2>3. n \in 1 .. done'
    BY DEF Step
  <2>4. \A k \in SendKeys : job'[k] \in I32
    BY <1>2 DEF JobInv
  <2>. QED BY <2>2, <2>3, <2>4 DEF JobInv
<1>. QED BY <1>1, <1>2

\* Push, when there is the queue and everything can be cast.
LEMMA PushJobInv ==
  ASSUME IInv, Push, done' # done
  PROVE  JobInv'
<1>. PICK e : e = done + 1
  OBVIOUS
<1>. DEFINE st == statements[e]
            q  == st.args[1]
            o  == st.options
<1>1. /\ Step /\ queue' = queue /\ st.command = "Push"
      /\ q \in DOMAIN queue /\ SendAccepts(o) /\ job' = SendColumns(o, queue[q])
  BY DEF Push, Succeeds, Fails, Running, Step
<1>2. e \in 1 .. Len(statements) /\ e \in 1 .. done' /\ done' = e /\ e \in Int
  <2>1. done \in Nat /\ done < Len(statements) /\ Len(statements) \in Nat
    BY StatementsAre DEF IInv, DoneInv, Push, Running
  <2>. QED BY <1>1, <2>1 DEF Step
<1>3. Text(e) \in Seq(Token) /\ st.options = OptionsOf(Text(e))
  BY <1>2, StatementsAre DEF IInv
<1>4. \A k \in SendKeys : o[k] = Option(e, k)
  BY <1>3, OptionsOfStatement DEF OptionKeys
<1>5. \A k \in SendKeys :
        job'[k] = IF Option(e, k) # NULL THEN Option(e, k)
                  ELSE IF k \in QueueKeys THEN queue[q][k] ELSE 0
  <2>. HIDE DEF o, q
  <2>. QED BY <1>1, <1>4, Zenon DEF SendColumns
<1>6. \A k \in SendKeys : job'[k] \in I32
  <2>1. \A k \in SendKeys : Option(e, k) # NULL => Option(e, k) \in I32
    BY <1>1, <1>4 DEF SendAccepts, Castable
  <2>2. \A k \in QueueKeys : queue[q][k] \in I32
    BY <1>1, QueuesAre
  <2>3. 0 \in I32
    BY WidthAssumption DEF I32
  <2>. HIDE DEF q
  <2>. QED BY <1>5, <2>1, <2>2, <2>3
<1>7. \A k : /\ Given(e, k) = {} => Option(e, k) = NULL
             /\ Given(e, k) # {} => Option(e, k) = LastGiven(e, k) /\ Option(e, k) # NULL
  BY <1>3, OptionIs
<1>8. /\ \A m, k : Given(m, k)' = Given(m, k) /\ LastGiven(m, k)' = LastGiven(m, k)
      /\ statements' = statements
  BY <1>1, SameStatements DEF Step
<1>9. Sent(e)'
  <2>1. \A m \in e + 1 .. done' : FALSE
    BY <1>2
  <2>2. \A k \in SendKeys : Given(e, k)' # {} => job'[k] = LastGiven(e, k)'
    BY <1>5, <1>7, <1>8
  <2>3. \A k \in SendKeys \cap QueueKeys : Given(e, k)' = {} => job'[k] = queue'[q][k]
    BY <1>1, <1>5, <1>7, <1>8
  <2>4. q \in DOMAIN queue' /\ statements'[e].args[1] = q /\ statements'[e].command = "Push"
    BY <1>1, <1>8
  <2>. QED BY <2>1, <2>2, <2>3, <2>4 DEF Sent
<1>. QED BY <1>2, <1>6, <1>9 DEF JobInv

-----------------------------------------------------------------------------
(***************************************************************************)
(* The invariant is inductive.                                             *)
(***************************************************************************)

LEMMA InitInv == Init => IInv
<1>. SUFFICES ASSUME Init PROVE IInv
  OBVIOUS
<1>1. file \in Seq(Seq(Token))
  BY FileAssumption DEF Init
<1>2. Len(file) \in Nat /\ Told \subseteq 1 .. Len(file)
  BY <1>1 DEF Told
<1>3. Wrong \subseteq Told /\ Body \subseteq Told
  BY DEF Wrong, Foremost, Body
<1>4. \A i \in 1 .. Len(file) : 0 < i /\ ~(i <= 0) /\ ~(i < 0 + 1)
  OBVIOUS
<1>5. FileInv
  BY <1>2, <1>3, <1>4 DEF Init, FileInv
<1>6. StatementsInv
  <2>1. Before(Body, pos + 1) = {}
    BY <1>2, <1>3, <1>4 DEF Before, Init
  <2>. QED BY <2>1, FS_EmptySet DEF Init, StatementsInv
<1>7. DoneInv
  BY DEF Init, DoneInv
<1>8. BlamedInv
  BY DEF Init, BlamedInv
<1>9. QueueInv /\ JobInv
  <2>1. \A m \in 1 .. done : FALSE
    BY DEF Init
  <2>2. DOMAIN queue = {}
    BY DEF Init
  <2>. QED BY <2>1, <2>2 DEF Init, QueueInv, JobInv
<1>. QED BY <1>5, <1>6, <1>7, <1>8, <1>9 DEF IInv

\* What a statement that is executed leaves alone.
LEMMA ExecutedInv ==
  ASSUME IInv, Parsed, done < Len(statements), UNCHANGED <<file, pos, name, statements>>,
         \/ done' = done + 1 /\ blamed' = blamed
         \/ done' = done /\ blamed' = statements[done + 1].line
  PROVE  FileInv' /\ StatementsInv' /\ DoneInv' /\ BlamedInv' /\ done \in Nat
<1>1. Told' = Told /\ Wrong' = Wrong /\ Body' = Body
  BY SameFile
<1>2. FileInv'
  BY <1>1 DEF IInv, FileInv
<1>3. StatementsInv'
  BY <1>1 DEF IInv, StatementsInv
<1>4. Len(statements) \in Nat /\ done \in Nat
  BY StatementsAre DEF IInv, DoneInv
<1>5. DoneInv'
  BY <1>4 DEF IInv, DoneInv, Parsed
<1>6. BlamedInv'
  <2>1. CASE blamed' = blamed
    BY <2>1 DEF Parsed, BlamedInv
  <2>2. CASE done' = done /\ blamed' = statements[done + 1].line
    BY <2>2, RunErrorInv
  <2>. QED BY <2>1, <2>2
<1>. QED BY <1>2, <1>3, <1>4, <1>5, <1>6

\* What a statement that succeeds does to the tables.
LEMMA SucceedsInv ==
  ASSUME IInv, CreateQueue \/ DeleteQueue \/ Push \/ Other, Step, done' # done, done \in Nat
  PROVE  QueueInv' /\ JobInv'
<1>1. CASE CreateQueue
  <2>1. QueueInv'
    BY <1>1, CreateQueueInv DEF IInv
  <2>2. job' = job /\ statements[done + 1].command # "Push"
    BY <1>1 DEF CreateQueue, Running, Fails
  <2>3. \A a \in DOMAIN queue : a \in DOMAIN queue' /\ queue'[a] = queue[a]
    BY <1>1 DEF CreateQueue, Fails
  <2>. QED BY <2>1, <2>2, <2>3, JobKept DEF IInv
<1>2. CASE DeleteQueue
  <2>1. QueueInv'
    BY <1>2, DeleteQueueInv DEF IInv
  <2>2. /\ job' = job
        /\ statements[done + 1].command = "DeleteQueue"
        /\ statements[done + 1].command # "Push"
    BY <1>2 DEF DeleteQueue, Running, Fails
  <2>3. queue' = [x \in DOMAIN queue \ {statements[done + 1].args[1]} |-> queue[x]]
    BY <1>2 DEF DeleteQueue, Fails, Restrict
  <2>4. ASSUME NEW a \in DOMAIN queue, ~About(done + 1, "DeleteQueue", a)
        PROVE  a \in DOMAIN queue' /\ queue'[a] = queue[a]
    BY <2>2, <2>3, <2>4 DEF About
  <2>. QED BY <2>1, <2>2, <2>4, JobKept DEF IInv
<1>3. CASE Push
  <2>1. queue' = queue /\ statements[done + 1].command = "Push"
    BY <1>3 DEF Push, Running, Fails
  <2>2. QueueInv'
    BY <2>1, OtherQueueInv DEF IInv
  <2>. QED BY <1>3, <2>2, PushJobInv
<1>4. CASE Other
  <2>1. /\ statements[done + 1].command \notin {"CreateQueue", "DeleteQueue", "Push"}
        /\ queue' = queue /\ job' = job
    BY <1>4 DEF Other, Running, Fails
  <2>2. QueueInv'
    BY <2>1, OtherQueueInv DEF IInv
  <2>. QED BY <2>1, <2>2, JobKept DEF IInv
<1>. QED BY <1>1, <1>2, <1>3, <1>4

LEMMA NextInv == IInv /\ [Next]_vars => IInv'
<1>. SUFFICES ASSUME IInv, [Next]_vars PROVE IInv'
  OBVIOUS
<1>1. CASE SkipLine \/ ReadHeader \/ ReadStatement
  BY <1>1, ReadingInv
<1>2. CASE ParseError
  <2>1. UNCHANGED <<file, pos, name, statements, done, queue, job>>
    BY <1>2 DEF ParseError
  <2>2. Told' = Told /\ Wrong' = Wrong /\ Body' = Body
    BY <2>1, SameFile
  <2>3. FileInv' /\ StatementsInv' /\ DoneInv'
    BY <2>1, <2>2 DEF IInv, FileInv, StatementsInv, DoneInv
  <2>4. QueueInv' /\ JobInv'
    BY <2>1, TablesSame DEF IInv
  <2>. QED BY <1>2, <2>3, <2>4, ParseErrorInv DEF IInv
<1>3. CASE CreateQueue \/ DeleteQueue \/ Push \/ Other
  <2>1. /\ Parsed /\ done < Len(statements) /\ UNCHANGED <<file, pos, name, statements>>
        /\ \/ done' = done + 1 /\ blamed' = blamed
           \/ /\ done' = done /\ blamed' = statements[done + 1].line
              /\ UNCHANGED <<queue, job>>
    BY <1>3 DEF CreateQueue, DeleteQueue, Push, Other, Running, Succeeds, Fails
  <2>2. FileInv' /\ StatementsInv' /\ DoneInv' /\ BlamedInv' /\ done \in Nat
    BY <2>1, ExecutedInv
  <2>3. CASE done' = done /\ UNCHANGED <<queue, job>>
    <3>1. QueueInv' /\ JobInv'
      BY <2>1, <2>3, TablesSame DEF IInv
    <3>. QED BY <2>2, <3>1 DEF IInv
  <2>4. CASE done' = done + 1
    <3>1. done' # done /\ Step
      BY <2>1, <2>2, <2>4 DEF Step
    <3>2. QueueInv' /\ JobInv'
      BY <1>3, <2>2, <3>1, SucceedsInv
    <3>. QED BY <2>2, <3>2 DEF IInv
  <2>. QED BY <2>1, <2>3, <2>4
<1>4. CASE UNCHANGED vars
  <2>1. UNCHANGED <<file, pos, name, statements, done, blamed, queue, job>>
    BY <1>4 DEF vars
  <2>2. Told' = Told /\ Wrong' = Wrong /\ Body' = Body
    BY <2>1, SameFile
  <2>3. FileInv' /\ StatementsInv' /\ DoneInv' /\ BlamedInv'
    BY <2>1, <2>2 DEF IInv, FileInv, StatementsInv, DoneInv, BlamedInv
  <2>4. QueueInv' /\ JobInv'
    BY <2>1, TablesSame DEF IInv
  <2>. QED BY <2>3, <2>4 DEF IInv
<1>. QED BY <1>1, <1>2, <1>3, <1>4 DEF Next

LEMMA Invariant == Spec => []IInv
BY InitInv, NextInv, PTL DEF Spec

-----------------------------------------------------------------------------
(***************************************************************************)
(* The theorems.                                                           *)
(***************************************************************************)

\* The type invariant of parse_scenario and of the runner: whatever numbers a file
\* gives, as many as it likes, every column of every queue and of the last job is an
\* SQL integer.
THEOREM ColumnsAreIntegers == Spec => []TypeOK
<1>1. ASSUME IInv
      PROVE  TypeOK
  <2>1. \A q \in DOMAIN queue : \A k \in QueueKeys : queue[q][k] \in I32
    BY <1>1, QueuesAre
  <2>2. job # NULL => \A k \in SendKeys : job[k] \in I32
    BY <1>1 DEF IInv, JobInv
  <2>. QED BY <1>1, <2>1, <2>2 DEF TypeOK, IInv, FileInv, DoneInv, BlamedInv
<1>. QED BY <1>1, Invariant, PTL

\* parse_scenario and run: every line of a file that counts is a statement under its
\* own number, a file with a wrong line is refused for the first and not executed, and
\* what fails is the statement behind those that were executed.
THEOREM LinesCount == Spec => []EveryLineCounts
<1>1. ASSUME IInv
      PROVE  EveryLineCounts
  <2>1. \A i : Before(Body, i) = {b \in Told \ Foremost : b < i}
    BY DEF Before, Body
  <2>2. blamed # NULL =>
          IF Told = {} THEN blamed = 0
          ELSE IF Wrong # {} THEN done = 0 /\ blamed \in Wrong /\ \A i \in Wrong : blamed <= i
          ELSE blamed \in Told /\ Cardinality({i \in Told \ Foremost : i < blamed}) = done
    BY <1>1, <2>1 DEF IInv, BlamedInv
  <2>3. ASSUME Parsed
        PROVE  /\ Wrong = {}
               /\ {statements[n].line : n \in DOMAIN statements} = Told \ Foremost
               /\ Len(statements) = Cardinality(Told \ Foremost)
    <3>1. Wrong = {} /\ Before(Body, pos + 1) = Body
      BY <1>1, <2>3, ReadToTheEnd DEF IInv, Parsed
    <3>. QED BY <1>1, <3>1 DEF IInv, StatementsInv, Body
  <2>. QED BY <2>2, <2>3 DEF EveryLineCounts
<1>. QED BY <1>1, Invariant, PTL

\* From the options of a line to the columns (set of ast.rs, as_i32 of create_queue, the
\* casts of send): a queue is what the create that made it gave last for each option,
\* or the default; a job is what its send gave, or what its queue had.
THEOREM OptionsReachColumns == Spec => []StoredAsWritten
<1>1. ASSUME IInv
      PROVE  StoredAsWritten
  <2>1. ASSUME NEW q \in DOMAIN queue
        PROVE  \E n \in 1 .. done :
                 /\ About(n, "CreateQueue", q)
                 /\ \A m \in n .. done : ~About(m, "DeleteQueue", q)
                 /\ \A m \in 1 .. n - 1 : About(m, "CreateQueue", q) =>
                      \E d \in m .. n : About(d, "DeleteQueue", q)
                 /\ \A k \in QueueKeys :
                      IF Given(n, k) = {} THEN queue[q][k] = Defaults[k]
                      ELSE LastGiven(n, k) \in I32 => queue[q][k] = LastGiven(n, k)
    <3>1. PICK n \in 1 .. done :
            /\ Made(n, q)
            /\ queue[q] = QueueColumns(statements[n].options, Defaults)
      BY <1>1 DEF IInv, QueueInv, IsMade
    <3>2. n \in 1 .. Len(statements)
      BY <1>1, StatementsAre DEF IInv, DoneInv
    <3>3. Text(n) \in Seq(Token) /\ statements[n].options = OptionsOf(Text(n))
      BY <1>1, <3>2, StatementsAre DEF IInv
    <3>4. \A k \in QueueKeys :
            /\ Given(n, k) = {} => queue[q][k] = Defaults[k]
            /\ Given(n, k) # {} /\ LastGiven(n, k) \in I32 => queue[q][k] = LastGiven(n, k)
      BY <3>1, <3>3, QueueColumnsAre
    <3>. QED BY <3>1, <3>4 DEF Made
  <2>2. ASSUME job # NULL
        PROVE  \E n \in 1 .. done :
                 /\ statements[n].command = "Push"
                 /\ \A m \in n + 1 .. done : statements[m].command # "Push"
                 /\ \A k \in SendKeys : Given(n, k) # {} => job[k] = LastGiven(n, k)
                 /\ statements[n].args[1] \in DOMAIN queue
                    /\ (\A m \in n .. done : ~About(m, "DeleteQueue", statements[n].args[1])) =>
                      \A k \in SendKeys \cap QueueKeys :
                        Given(n, k) = {} => job[k] = queue[statements[n].args[1]][k]
    BY <1>1, <2>2 DEF IInv, JobInv, Sent
  <2>. QED BY <2>1, <2>2 DEF StoredAsWritten
<1>. QED BY <1>1, Invariant, PTL

=============================================================================
