------------------------- MODULE ToolSessionsProofs -------------------------
(***************************************************************************)
(* Proofs about ToolSessions, for any commands, tools, descriptions,       *)
(* labels, changes by people and failed calls.                             *)
(*                                                                         *)
(* A command's list of calls is what its future is known by: the lists     *)
(* that the tools begin with, go on with and end with are described once,  *)
(* by the calls they have and have not (PrologueList, EpilogueList).  What *)
(* a command has read is compared with what people wrote only while it is  *)
(* fresh: a call that writes a field makes the other commands' stale.      *)
(***************************************************************************)
EXTENDS ToolSessions, SequenceTheorems, WellFoundedInduction, TLAPS

\* Numbers of which there are any have a least.
LEMMA LeastNumber ==
  ASSUME NEW T \in SUBSET Nat, T # {}
  PROVE  \E m \in T : \A k \in T : m <= k
<1> DEFINE Less == {p \in Nat \X Nat : p[1] < p[2]}
<1>1. IsWellFoundedOn(Less, Nat)
  BY NatLessThanWellFounded DEF OpToRel
<1> HIDE DEF Less
<1>2. PICK m \in T : \A k \in T : <<k, m>> \notin Less
  BY <1>1, WFMin
<1>3. \A k \in T : ~(k < m)
  BY <1>2 DEF Less
<1>. QED
  BY <1>2, <1>3

\* A set with zero and the successors of its members has all the numbers.
LEMMA Numbers ==
  ASSUME NEW T, 0 \in T, \A n \in Nat : n \in T => n + 1 \in T
  PROVE  \A n \in Nat : n \in T
<1>1. SUFFICES ASSUME NEW n \in Nat, n \notin T PROVE FALSE
  OBVIOUS
<1> DEFINE Missing == {k \in Nat : k \notin T}
<1>2. PICK m \in Missing : \A k \in Missing : m <= k
  <2>1. Missing \in SUBSET Nat /\ Missing # {}
    BY <1>1
  <2> HIDE DEF Missing
  <2>. QED
    BY <2>1, LeastNumber
<1>3. m \in Nat /\ m \notin T
  OBVIOUS
<1>4. m # 0 /\ m - 1 \in Nat /\ m - 1 < m /\ (m - 1) + 1 = m
  BY <1>3
<1>5. m - 1 \notin Missing
  <2> HIDE DEF Missing
  <2>. QED
    BY <1>2, <1>3, <1>4
<1>6. m - 1 \in T
  BY <1>4, <1>5
<1>. QED
  BY <1>3, <1>4, <1>6

-----------------------------------------------------------------------------
(* What a text has of some blocks. *)

\* of gives what each of the first m blocks leaves.
Selects(of, text, bs, m) ==
  of = [n \in 0..m |-> IF n = 0 THEN <<>>
                       ELSE IF text[n] \in bs THEN Append(of[n - 1], text[n])
                       ELSE of[n - 1]]

LEMMA SelectsExists ==
  ASSUME NEW text, NEW bs
  PROVE  \A m \in Nat : \E of : Selects(of, text, bs, m)
<1> DEFINE T == {m \in Nat : \E of : Selects(of, text, bs, m)}
<1>1. 0 \in T
  <2> DEFINE zero == [n \in 0..0 |-> <<>>]
  <2>1. Selects(zero, text, bs, 0)
    BY DEF Selects
  <2>. QED
    BY <2>1
<1>2. ASSUME NEW m \in Nat, m \in T PROVE m + 1 \in T
  <2>1. PICK of : Selects(of, text, bs, m)
    BY <1>2
  <2> DEFINE next == [n \in 0..(m + 1) |->
               IF n <= m THEN of[n]
               ELSE IF text[n] \in bs THEN Append(of[m], text[n]) ELSE of[m]]
             good == [n \in 0..(m + 1) |-> IF n = 0 THEN <<>>
                       ELSE IF text[n] \in bs THEN Append(next[n - 1], text[n])
                       ELSE next[n - 1]]
  <2>2. ASSUME NEW n \in 0..(m + 1) PROVE next[n] = good[n]
    <3>1. CASE n = 0
      <4>1. of[n] = <<>>
        BY <2>1, <3>1 DEF Selects
      <4>. QED
        BY <3>1, <4>1
    <3>2. CASE n # 0 /\ n <= m
      <4>1. n \in 0..m /\ n - 1 \in 0..(m + 1) /\ n - 1 <= m
        BY <3>2
      <4>2. of[n] = IF text[n] \in bs THEN Append(of[n - 1], text[n]) ELSE of[n - 1]
        BY <2>1, <3>2, <4>1 DEF Selects
      <4>3. next[n] = of[n] /\ next[n - 1] = of[n - 1]
        BY <3>2, <4>1
      <4>4. good[n] = IF text[n] \in bs THEN Append(next[n - 1], text[n]) ELSE next[n - 1]
        BY <3>2
      <4> HIDE DEF next, good
      <4>. QED
        BY <4>2, <4>3, <4>4
    <3>3. CASE n = m + 1
      <4>1. ~(n <= m) /\ n # 0 /\ n - 1 = m /\ m \in 0..(m + 1)
        BY <3>3
      <4>2. next[m] = of[m]
        BY <4>1
      <4>3. next[n] = IF text[n] \in bs THEN Append(of[m], text[n]) ELSE of[m]
        BY <4>1
      <4>4. good[n] = IF text[n] \in bs THEN Append(next[n - 1], text[n]) ELSE next[n - 1]
        BY <4>1
      <4> HIDE DEF next, good
      <4>. QED
        BY <4>1, <4>2, <4>3, <4>4
    <3>. QED
      BY <3>1, <3>2, <3>3
  <2>3. next = good
    <3>1. next = [n \in 0..(m + 1) |-> next[n]] /\ good = [n \in 0..(m + 1) |-> good[n]]
      OBVIOUS
    <3> HIDE DEF next, good
    <3>. QED
      BY <2>2, <3>1
  <2>4. Selects(next, text, bs, m + 1)
    <3> HIDE DEF next
    <3>. QED
      BY <2>3 DEF Selects
  <2>. QED
    BY <2>4
<1> HIDE DEF T
<1>3. \A m \in Nat : m \in T
  BY <1>1, <1>2, Numbers
<1>. QED
  BY <1>3 DEF T

\* Texts that begin alike leave the same.
LEMMA SelectsAlike ==
  ASSUME NEW s, NEW u, NEW bs, NEW m \in Nat, NEW k \in Nat, NEW f, NEW g,
         Selects(f, s, bs, m), Selects(g, u, bs, k),
         \A n \in 1..m : n <= k => s[n] = u[n] \/ (s[n] \notin bs /\ u[n] \notin bs)
  PROVE  \A n \in Nat : n <= m /\ n <= k => f[n] = g[n]
<1> DEFINE T == {n \in Nat : n <= m /\ n <= k => f[n] = g[n]}
<1>1. 0 \in T
  <2>1. f[0] = <<>> /\ g[0] = <<>>
    BY DEF Selects
  <2>. QED
    BY <2>1
<1>2. ASSUME NEW n \in Nat, n \in T PROVE n + 1 \in T
  <2>1. SUFFICES ASSUME n + 1 <= m, n + 1 <= k PROVE f[n + 1] = g[n + 1]
    OBVIOUS
  <2>2. f[n] = g[n] /\ n + 1 \in 0..m /\ n + 1 \in 0..k
        /\ (n + 1) - 1 = n /\ n + 1 # 0
    BY <1>2, <2>1
  <2>3. f[n + 1] = IF s[n + 1] \in bs THEN Append(f[(n + 1) - 1], s[n + 1]) ELSE f[(n + 1) - 1]
    BY <2>2 DEF Selects
  <2>5. n + 1 \in 1..m /\ n + 1 <= k
    BY <2>1
  <2>6. s[n + 1] = u[n + 1] \/ (s[n + 1] \notin bs /\ u[n + 1] \notin bs)
    BY <2>5
  <2>4. g[n + 1] = IF u[n + 1] \in bs THEN Append(g[(n + 1) - 1], u[n + 1]) ELSE g[(n + 1) - 1]
    BY <2>2 DEF Selects
  <2>. QED
    BY <2>2, <2>3, <2>4, <2>6
<1> HIDE DEF T
<1>3. \A n \in Nat : n \in T
  BY <1>1, <1>2, Numbers
<1>. QED
  BY <1>3 DEF T

LEMMA BlockSelects ==
  ASSUME NEW text, Len(text) \in Nat, NEW bs, NEW f, Selects(f, text, bs, Len(text))
  PROVE  Block(text, bs) = f[Len(text)]
<1> DEFINE g == CHOOSE of : Selects(of, text, bs, Len(text))
<1>1. Selects(g, text, bs, Len(text))
  OBVIOUS
<1>2. Block(text, bs) = g[Len(text)]
  BY DEF Block, Selects
<1> HIDE DEF g
<1>4. \A n \in 1..Len(text) : n <= Len(text)
         => text[n] = text[n] \/ (text[n] \notin bs /\ text[n] \notin bs)
  OBVIOUS
<1>3. \A n \in Nat : n <= Len(text) /\ n <= Len(text) => f[n] = g[n]
  BY <1>1, <1>4, SelectsAlike
<1>. QED
  BY <1>2, <1>3

LEMMA BlockEmpty ==
  ASSUME NEW bs
  PROVE  Block(<<>>, bs) = <<>>
<1>1. Len(<<>>) = 0
  OBVIOUS
<1>2. PICK f : Selects(f, <<>>, bs, 0)
  BY SelectsExists
<1>3. f[0] = <<>>
  BY <1>2 DEF Selects
<1>. QED
  BY <1>1, <1>2, <1>3, BlockSelects

LEMMA BlockAppend ==
  ASSUME NEW A, NEW s \in Seq(A), NEW b \in A, NEW bs
  PROVE  Block(Append(s, b), bs) =
           IF b \in bs THEN Append(Block(s, bs), b) ELSE Block(s, bs)
<1> DEFINE u == Append(s, b)
<1>1. Len(s) \in Nat /\ Len(u) \in Nat /\ Len(u) = Len(s) + 1 /\ u[Len(s) + 1] = b
      /\ \A n \in 1..Len(s) : s[n] = u[n]
  OBVIOUS
<1> HIDE DEF u
<1>2. PICK f : Selects(f, s, bs, Len(s))
  BY <1>1, SelectsExists
<1>3. PICK g : Selects(g, u, bs, Len(u))
  BY <1>1, SelectsExists
<1>4. f[Len(s)] = g[Len(s)]
  <2>1. \A n \in Nat : n <= Len(s) /\ n <= Len(u) => f[n] = g[n]
    <3>1. \A n \in 1..Len(s) : n <= Len(u)
             => s[n] = u[n] \/ (s[n] \notin bs /\ u[n] \notin bs)
      BY <1>1
    <3>2. Len(s) \in Nat /\ Len(u) \in Nat
      BY <1>1
    <3>. QED
      BY <1>2, <1>3, <3>1, <3>2, SelectsAlike
  <2>. QED
    BY <1>1, <2>1
<1>5. Block(s, bs) = f[Len(s)] /\ Block(u, bs) = g[Len(u)]
  <2>1. Len(u) \in Nat
    BY <1>1
  <2>. QED
    BY <1>1, <1>2, <1>3, <2>1, BlockSelects
<1>6. g[Len(s) + 1] = IF u[Len(s) + 1] \in bs THEN Append(g[Len(s)], u[Len(s) + 1])
                      ELSE g[Len(s)]
  <2>1. Len(s) + 1 \in 0..Len(u) /\ Len(s) + 1 # 0 /\ (Len(s) + 1) - 1 = Len(s)
    BY <1>1
  <2>2. g[Len(s) + 1] = IF u[Len(s) + 1] \in bs
          THEN Append(g[(Len(s) + 1) - 1], u[Len(s) + 1]) ELSE g[(Len(s) + 1) - 1]
    BY <1>3, <2>1 DEF Selects
  <2>. QED
    BY <2>1, <2>2
<1>. QED
  BY <1>1, <1>4, <1>5, <1>6 DEF u

\* Texts that differ only in other blocks have the same of bs.
LEMMA BlockAlike ==
  ASSUME NEW s, NEW u, NEW bs, Len(s) \in Nat, Len(u) = Len(s),
         \A n \in 1..Len(s) : s[n] = u[n] \/ (s[n] \notin bs /\ u[n] \notin bs)
  PROVE  Block(s, bs) = Block(u, bs)
<1>1. PICK f : Selects(f, s, bs, Len(s))
  BY SelectsExists
<1>2. PICK g : Selects(g, u, bs, Len(u))
  BY SelectsExists
<1>3. \A n \in Nat : n <= Len(s) /\ n <= Len(u) => f[n] = g[n]
  BY <1>1, <1>2, SelectsAlike
<1>4. f[Len(s)] = g[Len(s)]
  BY <1>3
<1>5. Block(s, bs) = f[Len(s)] /\ Block(u, bs) = g[Len(u)]
  BY <1>1, <1>2, BlockSelects
<1>. QED
  BY <1>4, <1>5

\* A text is empty or ends with a block.
LEMMA LastBlock ==
  ASSUME NEW A, NEW s \in Seq(A), NEW n \in Nat, Len(s) = n + 1
  PROVE  \E q \in Seq(A), b \in A : s = Append(q, b) /\ Len(q) = n
<1> DEFINE q == [i \in 1..n |-> s[i]]
<1>1. q \in Seq(A) /\ Len(q) = n /\ s[n + 1] \in A
  OBVIOUS
<1>2. s = Append(q, s[n + 1])
  <2>1. Append(q, s[n + 1]) \in Seq(A) /\ Len(Append(q, s[n + 1])) = n + 1
    BY <1>1
  <2>2. ASSUME NEW i \in 1..(n + 1) PROVE s[i] = Append(q, s[n + 1])[i]
    OBVIOUS
  <2> HIDE DEF q
  <2>. QED
    BY <2>1, <2>2, SeqEqual
<1>. QED
  BY <1>1, <1>2

\* What is left of a text has no other blocks.
LEMMA BlockType ==
  ASSUME NEW A, NEW s \in Seq(A), NEW bs
  PROVE  Block(s, bs) \in Seq(A \cap bs)
<1> DEFINE T == {n \in Nat : \A q \in Seq(A) : Len(q) = n => Block(q, bs) \in Seq(A \cap bs)}
<1>1. 0 \in T
  <2>1. ASSUME NEW q \in Seq(A), Len(q) = 0 PROVE Block(q, bs) \in Seq(A \cap bs)
    <3>1. q = <<>> /\ <<>> \in Seq(A \cap bs)
      BY <2>1
    <3>2. Block(<<>>, bs) = <<>>
      BY BlockEmpty
    <3>. QED
      BY <3>1, <3>2
  <2>. QED
    BY <2>1
<1>2. ASSUME NEW n \in Nat, n \in T PROVE n + 1 \in T
  <2>1. ASSUME NEW q \in Seq(A), Len(q) = n + 1 PROVE Block(q, bs) \in Seq(A \cap bs)
    <3>1. PICK p \in Seq(A), b \in A : q = Append(p, b) /\ Len(p) = n
      BY <2>1, LastBlock
    <3>2. Block(p, bs) \in Seq(A \cap bs)
      BY <1>2, <3>1
    <3>3. Block(q, bs) = IF b \in bs THEN Append(Block(p, bs), b) ELSE Block(p, bs)
      BY <3>1, BlockAppend
    <3>. QED
      BY <3>2, <3>3
  <2>. QED
    BY <2>1
<1> HIDE DEF T
<1>3. \A n \in Nat : n \in T
  BY <1>1, <1>2, Numbers
<1>4. Len(s) \in T
  BY <1>3
<1>. QED
  BY <1>4 DEF T

\* A text without the blocks leaves nothing.
LEMMA BlockNone ==
  ASSUME NEW A, NEW s \in Seq(A), NEW bs, A \cap bs = {}
  PROVE  Block(s, bs) = <<>>
<1>1. Block(s, bs) \in Seq({})
  BY BlockType
<1>. QED
  BY <1>1

LEMMA BlockPrepend ==
  ASSUME NEW A, NEW s \in Seq(A), NEW a \in A, NEW bs
  PROVE  Block(<<a>> \o s, bs) =
           IF a \in bs THEN <<a>> \o Block(s, bs) ELSE Block(s, bs)
<1> DEFINE Left(q) == IF a \in bs THEN <<a>> \o Block(q, bs) ELSE Block(q, bs)
           T == {n \in Nat : \A q \in Seq(A) : Len(q) = n => Block(<<a>> \o q, bs) = Left(q)}
<1>1. 0 \in T
  <2>1. ASSUME NEW q \in Seq(A), Len(q) = 0 PROVE Block(<<a>> \o q, bs) = Left(q)
    <3>1. q = <<>> /\ <<>> \in Seq(A) /\ <<a>> \o q = Append(<<>>, a)
      BY <2>1
    <3>2. Block(Append(<<>>, a), bs) = IF a \in bs THEN Append(Block(<<>>, bs), a) ELSE Block(<<>>, bs)
      BY <3>1, BlockAppend
    <3>3. Append(<<>>, a) = <<a>> \o <<>>
      OBVIOUS
    <3>. QED
      BY <3>1, <3>2, <3>3, BlockEmpty
  <2>. QED
    BY <2>1
<1>2. ASSUME NEW n \in Nat, n \in T PROVE n + 1 \in T
  <2>1. ASSUME NEW q \in Seq(A), Len(q) = n + 1 PROVE Block(<<a>> \o q, bs) = Left(q)
    <3>1. PICK p \in Seq(A), b \in A : q = Append(p, b) /\ Len(p) = n
      BY <2>1, LastBlock
    <3>2. Block(<<a>> \o p, bs) = Left(p)
      BY <1>2, <3>1
    <3>3. Block(q, bs) = IF b \in bs THEN Append(Block(p, bs), b) ELSE Block(p, bs)
      BY <3>1, BlockAppend
    <3>4. <<a>> \o q = Append(<<a>> \o p, b) /\ <<a>> \o p \in Seq(A)
      BY <3>1
    <3>5. Block(<<a>> \o q, bs) =
            IF b \in bs THEN Append(Block(<<a>> \o p, bs), b) ELSE Block(<<a>> \o p, bs)
      <4> DEFINE ap == <<a>> \o p
      <4>1. ap \in Seq(A) /\ <<a>> \o q = Append(ap, b)
        BY <3>4
      <4> HIDE DEF ap
      <4>2. Block(Append(ap, b), bs) = IF b \in bs THEN Append(Block(ap, bs), b) ELSE Block(ap, bs)
        BY <4>1, BlockAppend
      <4>. QED
        BY <4>1, <4>2 DEF ap
    <3>6. Block(p, bs) \in Seq(A)
      <4>1. Block(p, bs) \in Seq(A \cap bs)
        BY BlockType
      <4>. QED
        BY <4>1
    <3>7. Append(<<a>> \o Block(p, bs), b) = <<a>> \o Append(Block(p, bs), b)
      BY <3>6
    <3>8. CASE a \in bs
      <4>1. Block(<<a>> \o p, bs) = <<a>> \o Block(p, bs)
        BY <3>2, <3>8
      <4>2. Left(q) = <<a>> \o Block(q, bs)
        BY <3>8
      <4> HIDE DEF Left
      <4>3. CASE b \in bs
        <5>1. Block(<<a>> \o q, bs) = Append(<<a>> \o Block(p, bs), b)
          BY <3>5, <4>1, <4>3
        <5>2. Block(q, bs) = Append(Block(p, bs), b)
          BY <3>3, <4>3
        <5>. QED
          BY <3>7, <4>2, <5>1, <5>2
      <4>4. CASE b \notin bs
        BY <3>3, <3>5, <4>1, <4>2, <4>4
      <4>. QED
        BY <4>3, <4>4
    <3>9. CASE a \notin bs
      <4>1. Block(<<a>> \o p, bs) = Block(p, bs)
        BY <3>2, <3>9
      <4>2. Left(q) = Block(q, bs)
        BY <3>9
      <4> HIDE DEF Left
      <4>. QED
        BY <3>3, <3>5, <4>1, <4>2
    <3> HIDE DEF Left
    <3>. QED
      BY <3>8, <3>9
  <2> HIDE DEF Left
  <2>. QED
    BY <2>1
<1> HIDE DEF T
<1>3. \A n \in Nat : n \in T
  BY <1>1, <1>2, Numbers
<1>4. Len(s) \in T
  BY <1>3
<1>. QED
  BY <1>4 DEF T

-----------------------------------------------------------------------------
(* The lists of calls. *)

AllCalls == {"announce", "clone", "think", "get_labels?", "put_labels?", "publish",
             "say", "suggest", "push", "review", "clean?"}
Announcers == {"describe", "generate_labels", "ask", "add_docs", "update_changelog"}

\* The calls that the tool of t may make.
OwnCalls(t) ==
  {c \in AllCalls : /\ c = "announce" => tool[t] \in Announcers
                    /\ c = "think" => tool[t] # "config"
                    /\ c = "publish" => "text" \in Fields(t)
                    /\ c \in {"get_labels?", "put_labels?"} => "labels" \in Fields(t)
                    /\ c = "push" => "changelog" \in Fields(t)}

\* The calls until the model has answered.
Asking == {"announce", "clone", "think"}

ThinkLists == {<<"announce", "think">>, <<"think">>, <<"clone", "think">>,
               <<"clone", "think", "think">>, <<"think", "think">>}

LEMMA ToolFields ==
  ASSUME NEW t
  PROVE  /\ tool[t] \in {"describe", "auto_describe"} => Fields(t) = {"text", "labels"}
         /\ tool[t] = "generate_labels" => Fields(t) = {"labels"}
         /\ tool[t] = "update_changelog" => Fields(t) = {"changelog"}
         /\ tool[t] \in {"ask", "ask_line", "add_docs", "config", "help", "help_docs"} => Fields(t) = {}
BY DEF Fields

\* What is left after a call.
LEMMA TailContains ==
  ASSUME NEW A, NEW s \in Seq(A), s # <<>>, NEW c
  PROVE  /\ Contains(Tail(s), c) => Contains(s, c)
         /\ Contains(s, c) /\ Head(s) # c => Contains(Tail(s), c)
         /\ Tail(s) \in Seq(A)
BY DEF Contains

LEMMA Literals ==
  ASSUME NEW calls \in ThinkLists
  PROVE  /\ calls # <<>>
         /\ Contains(calls, "think")
         /\ ~Contains(calls, "put_labels?") /\ ~Contains(calls, "publish")
         /\ ~Contains(calls, "get_labels?") /\ ~Contains(Tail(calls), "get_labels?")
         /\ Head(calls) # "think" => Tail(calls) \in ThinkLists
         /\ Head(calls) = "think" => Tail(calls) = <<>> \/ Tail(calls) \in ThinkLists
         /\ calls # <<"think">> /\ Head(calls) = "think" => calls = <<"think", "think">>
<1>1. CASE calls = <<"announce", "think">>
  <2>1. Tail(calls) = <<"think">>
    BY <1>1
  <2>2. Len(calls) = 2 /\ calls[1] = "announce" /\ calls[2] = "think" /\ Head(calls) = "announce" /\ calls # <<>>
    BY <1>1
  <2>. QED
    BY <2>1, <2>2 DEF Contains, ThinkLists
<1>2. CASE calls = <<"think">>
  BY <1>2 DEF ThinkLists, Contains
<1>3. CASE calls = <<"clone", "think">>
  BY <1>3 DEF ThinkLists, Contains
<1>4. CASE calls = <<"clone", "think", "think">>
  BY <1>4 DEF ThinkLists, Contains
<1>5. CASE calls = <<"think", "think">>
  BY <1>5 DEF ThinkLists, Contains
<1>. QED
  BY <1>1, <1>2, <1>3, <1>4, <1>5 DEF ThinkLists

\* The lists of two sequences of calls.
LEMMA ConcatContains ==
  ASSUME NEW A, NEW p \in Seq(A), NEW q \in Seq(A)
  PROVE  /\ p \o q \in Seq(A)
         /\ \A c : Contains(p \o q, c) <=> Contains(p, c) \/ Contains(q, c)
         /\ p # <<>> => p \o q # <<>> /\ Tail(p \o q) = Tail(p) \o q
<1>1. /\ p \o q \in Seq(A) /\ Len(p \o q) = Len(p) + Len(q) /\ Len(p) \in Nat /\ Len(q) \in Nat
      /\ \A i \in 1..Len(p) : (p \o q)[i] = p[i]
      /\ \A i \in 1..Len(q) : (p \o q)[Len(p) + i] = q[i]
  OBVIOUS
<1>2. ASSUME NEW c PROVE Contains(p \o q, c) <=> Contains(p, c) \/ Contains(q, c)
  <2>1. ASSUME Contains(p \o q, c) PROVE Contains(p, c) \/ Contains(q, c)
    <3>1. PICK i \in 1..Len(p \o q) : (p \o q)[i] = c
      BY <2>1 DEF Contains
    <3>2. CASE i \in 1..Len(p)
      BY <1>1, <3>1, <3>2 DEF Contains
    <3>3. CASE i \notin 1..Len(p)
      <4>1. i - Len(p) \in 1..Len(q) /\ Len(p) + (i - Len(p)) = i
        BY <1>1, <3>1, <3>3
      <4>2. q[i - Len(p)] = c
        BY <1>1, <3>1, <4>1
      <4>. QED
        BY <4>1, <4>2 DEF Contains
    <3>. QED
      BY <3>2, <3>3
  <2>2. ASSUME Contains(p, c) PROVE Contains(p \o q, c)
    <3>1. PICK i \in 1..Len(p) : p[i] = c
      BY <2>2 DEF Contains
    <3>2. i \in 1..Len(p \o q) /\ (p \o q)[i] = c
      BY <1>1, <3>1
    <3>. QED
      BY <3>2 DEF Contains
  <2>3. ASSUME Contains(q, c) PROVE Contains(p \o q, c)
    <3>1. PICK i \in 1..Len(q) : q[i] = c
      BY <2>3 DEF Contains
    <3>2. Len(p) + i \in 1..Len(p \o q) /\ (p \o q)[Len(p) + i] = c
      BY <1>1, <3>1
    <3>. QED
      BY <3>2 DEF Contains
  <2>. QED
    BY <2>1, <2>2, <2>3
<1>3. ASSUME p # <<>> PROVE p \o q # <<>> /\ Tail(p \o q) = Tail(p) \o q
  <2>1. Len(p) >= 1
    BY <1>3
  <2>2. p \o q # <<>>
    BY <1>1, <2>1
  <2>3. /\ Tail(p \o q) \in Seq(A) /\ Len(Tail(p \o q)) = Len(p) + Len(q) - 1
        /\ Tail(p) \in Seq(A) /\ Len(Tail(p)) = Len(p) - 1
        /\ Tail(p) \o q \in Seq(A) /\ Len(Tail(p) \o q) = Len(p) - 1 + Len(q)
    BY <1>1, <2>1, <2>2
  <2>4. ASSUME NEW i \in 1..(Len(p) + Len(q) - 1) PROVE Tail(p \o q)[i] = (Tail(p) \o q)[i]
    <3>1. Tail(p \o q)[i] = (p \o q)[i + 1]
      BY <1>1, <2>2, <2>3
    <3>2. CASE i <= Len(p) - 1
      BY <1>1, <2>1, <2>3, <3>1, <3>2
    <3>3. CASE i > Len(p) - 1
      BY <1>1, <2>1, <2>3, <3>1, <3>3
    <3>. QED
      BY <1>1, <3>2, <3>3
  <2>. QED
    BY <2>2, <2>3, <2>4, SeqEqual, <1>1
<1>. QED
  BY <1>1, <1>2, <1>3

LEMMA OneCall ==
  ASSUME NEW x
  PROVE  /\ \A c : Contains(<<x>>, c) <=> c = x
         /\ <<x>> # <<>> /\ Tail(<<x>>) = <<>> /\ Head(<<x>>) = x
BY DEF Contains

LEMMA TwoCalls ==
  ASSUME NEW x, NEW y
  PROVE  Contains(<<x, y>>, x) /\ Contains(<<x, y>>, y)
<1>1. Len(<<x, y>>) = 2 /\ <<x, y>>[1] = x /\ <<x, y>>[2] = y
  OBVIOUS
<1>. QED
  BY <1>1 DEF Contains

LEMMA SeqContains ==
  ASSUME NEW A, NEW s \in Seq(A)
  PROVE  \A c : Contains(s, c) => c \in A
BY DEF Contains

LEMMA NoCalls == \A c : ~Contains(<<>>, c)
BY DEF Contains

\* Four sequences of calls.
LEMMA FourLists ==
  ASSUME NEW A, NEW p \in Seq(A), NEW m \in Seq(A), NEW r \in Seq(A), NEW c \in Seq(A)
  PROVE  LET x == p \o m \o r \o c IN
         /\ x \in Seq(A)
         /\ \A k : Contains(x, k) <=> Contains(p, k) \/ Contains(m, k) \/ Contains(r, k) \/ Contains(c, k)
         /\ p # <<>> => \A k : Contains(Tail(x), k)
              => Contains(Tail(p), k) \/ Contains(m, k) \/ Contains(r, k) \/ Contains(c, k)
<1> DEFINE x == p \o m \o r \o c
<1> DEFINE pm == p \o m
           pmr == pm \o r
<1>1. /\ pm \in Seq(A) /\ \A k : Contains(pm, k) <=> Contains(p, k) \/ Contains(m, k)
      /\ p # <<>> => pm # <<>> /\ Tail(pm) = Tail(p) \o m
  BY ConcatContains
<1> HIDE DEF pm
<1>2. /\ pmr \in Seq(A) /\ \A k : Contains(pmr, k) <=> Contains(pm, k) \/ Contains(r, k)
      /\ pm # <<>> => pmr # <<>> /\ Tail(pmr) = Tail(pm) \o r
  BY <1>1, ConcatContains
<1>3. x = pmr \o c
  BY DEF pm
<1> HIDE DEF pmr, x
<1>4. /\ x \in Seq(A) /\ \A k : Contains(x, k) <=> Contains(pmr, k) \/ Contains(c, k)
      /\ pmr # <<>> => x # <<>> /\ Tail(x) = Tail(pmr) \o c
  <2>1. pmr \in Seq(A)
    BY <1>2
  <2>2. /\ pmr \o c \in Seq(A)
        /\ \A k : Contains(pmr \o c, k) <=> Contains(pmr, k) \/ Contains(c, k)
        /\ pmr # <<>> => pmr \o c # <<>> /\ Tail(pmr \o c) = Tail(pmr) \o c
    BY <2>1, ConcatContains
  <2>. QED
    BY <2>2, <1>3
<1>5. ASSUME p # <<>>, NEW k, Contains(Tail(x), k)
      PROVE  Contains(Tail(p), k) \/ Contains(m, k) \/ Contains(r, k) \/ Contains(c, k)
  <2> DEFINE tp == Tail(p)
             tpm == tp \o m
  <2>1. Tail(pm) = tpm /\ pm # <<>> /\ tp \in Seq(A)
    BY <1>1, <1>5
  <2>2. Tail(x) = Tail(pmr) \o c /\ Tail(pmr) = Tail(pm) \o r
    BY <1>2, <1>4, <2>1
  <2> HIDE DEF tp
  <2>3. tpm \in Seq(A) /\ (Contains(tpm, k) <=> Contains(tp, k) \/ Contains(m, k))
    BY <2>1, ConcatContains
  <2> HIDE DEF tpm
  <2> DEFINE tpmr == tpm \o r
  <2>4. tpmr \in Seq(A) /\ (Contains(tpmr, k) <=> Contains(tpm, k) \/ Contains(r, k))
    BY <2>3, ConcatContains
  <2>5. Tail(x) = tpmr \o c
    BY <2>1, <2>2
  <2> HIDE DEF tpmr
  <2>6. Contains(tpmr \o c, k) <=> Contains(tpmr, k) \/ Contains(c, k)
    BY <2>4, ConcatContains
  <2>7. Contains(tpmr, k) \/ Contains(c, k)
    BY <1>5, <2>5, <2>6
  <2>. QED
    BY <2>3, <2>4, <2>7 DEF tp
<1>6. x \in Seq(A)
  BY <1>4
<1>7. \A k : Contains(x, k) <=> Contains(p, k) \/ Contains(m, k) \/ Contains(r, k) \/ Contains(c, k)
  BY <1>1, <1>2, <1>4
<1>. QED
  BY <1>5, <1>6, <1>7 DEF x

\* A list of /describe.
LEMMA DescribeList ==
  ASSUME NEW o, NEW ls, NEW auto, NEW A,
         {"get_labels?", "put_labels?", "publish", "say", "clean?"} \subseteq A,
         NEW calls, calls = Describe(o, ls, auto)
  PROVE  /\ calls \in Seq(A)
         /\ Contains(calls, "clean?") /\ calls # <<>>
         /\ \A c : Contains(calls, c) => c \in {"get_labels?", "put_labels?", "publish", "say", "clean?"}
         /\ Contains(calls, "publish") => o # "empty"
         /\ Contains(calls, "put_labels?") => Contains(calls, "get_labels?")
         /\ ~Contains(Tail(calls), "get_labels?")
<1>0. CASE o = "empty"
  <2>1. calls = <<"clean?">>
    BY <1>0 DEF Describe
  <2>2. calls \in Seq(A)
    BY <2>1
  <2>3. \A c : Contains(calls, c) <=> c = "clean?"
    BY <2>1, OneCall
  <2>4. calls # <<>> /\ ~Contains(Tail(calls), "get_labels?")
    <3>1. calls # <<>> /\ Tail(calls) = <<>>
      BY <2>1
    <3>. QED
      BY <3>1, NoCalls
  <2>. QED
    BY <1>0, <2>2, <2>3, <2>4
<1>1. CASE o # "empty"
  <2> DEFINE p == IF "labels" \in option /\ ls # {} THEN <<"get_labels?", "put_labels?">> ELSE <<>>
             m == <<"publish">>
             r == IF auto THEN <<>> ELSE <<"say">>
             e == <<"clean?">>
  <2>1. calls = p \o m \o r \o e
    BY <1>1 DEF Describe
  <2>2. p \in Seq(A) /\ \A c : Contains(p, c) <=> p # <<>> /\ c \in {"get_labels?", "put_labels?"}
    <3>1. CASE "labels" \in option /\ ls # {}
      <4>1. p = <<"get_labels?", "put_labels?">>
        BY <3>1
      <4>2. p \in Seq(A) /\ p # <<>> /\ Len(p) = 2 /\ p[1] = "get_labels?" /\ p[2] = "put_labels?"
        BY <4>1
      <4> HIDE DEF p
      <4>. QED
        BY <4>2 DEF Contains
    <3>2. CASE ~("labels" \in option /\ ls # {})
      <4>1. p = <<>>
        BY <3>2
      <4> HIDE DEF p
      <4>2. p \in Seq(A)
        BY <4>1
      <4>. QED
        BY <4>1, <4>2, NoCalls
    <3>. QED
      BY <3>1, <3>2
  <2>3. m \in Seq(A) /\ \A c : Contains(m, c) <=> c = "publish"
    BY OneCall
  <2>4. r \in Seq(A) /\ \A c : Contains(r, c) => c = "say"
    <3>1. CASE auto
      <4>1. r = <<>>
        BY <3>1
      <4>. QED
        BY <4>1, NoCalls
    <3>2. CASE ~auto
      <4>1. r = <<"say">>
        BY <3>2
      <4> HIDE DEF r
      <4>2. r \in Seq(A)
        BY <4>1
      <4>. QED
        BY <4>1, <4>2, OneCall
    <3>. QED
      BY <3>1, <3>2
  <2>5. e \in Seq(A) /\ \A c : Contains(e, c) <=> c = "clean?"
    BY OneCall
  <2>6. p # <<>> => Tail(p) = <<"put_labels?">>
    OBVIOUS
  <2> HIDE DEF p, m, r, e
  <2>7. /\ calls \in Seq(A)
        /\ \A k : Contains(calls, k) <=> Contains(p, k) \/ Contains(m, k) \/ Contains(r, k) \/ Contains(e, k)
        /\ p # <<>> => \A k : Contains(Tail(calls), k)
             => Contains(Tail(p), k) \/ Contains(m, k) \/ Contains(r, k) \/ Contains(e, k)
    <3>1. p \in Seq(A) /\ m \in Seq(A) /\ r \in Seq(A) /\ e \in Seq(A)
      BY <2>2, <2>3, <2>4, <2>5
    <3> DEFINE x == p \o m \o r \o e
    <3>2. x \in Seq(A)
      BY <3>1
    <3>4. \A k : Contains(x, k) <=> Contains(p, k) \/ Contains(m, k) \/ Contains(r, k) \/ Contains(e, k)
      BY <3>1, FourLists
    <3>5. p # <<>> => \A k : Contains(Tail(x), k)
            => Contains(Tail(p), k) \/ Contains(m, k) \/ Contains(r, k) \/ Contains(e, k)
      BY <3>1, FourLists
    <3>3. x = calls
      BY <2>1
    <3> HIDE DEF x
    <3>. QED
      BY <3>2, <3>3, <3>4, <3>5
  <2>8. calls # <<>>
    <3>1. Contains(calls, "clean?")
      BY <2>5, <2>7
    <3>. QED
      BY <3>1, NoCalls
  <2>9. ~Contains(Tail(calls), "get_labels?")
    <3>1. CASE p = <<>>
      <4>1. ~Contains(calls, "get_labels?")
        BY <2>2, <2>3, <2>4, <2>5, <2>7, <3>1
      <4>. QED
        BY <2>7, <2>8, <4>1, TailContains
    <3>2. CASE p # <<>>
      <4> DEFINE tp == Tail(p)
      <4>0. tp = <<"put_labels?">>
        BY <2>6, <3>2
      <4>1. tp \in Seq(A) /\ \A k : Contains(tp, k) <=> k = "put_labels?"
        <5> HIDE DEF tp
        <5>1. tp \in Seq(A)
          BY <4>0
        <5>. QED
          BY <4>0, <5>1, OneCall
      <4>2. \A k : Contains(Tail(calls), k)
              => Contains(tp, k) \/ Contains(m, k) \/ Contains(r, k) \/ Contains(e, k)
        BY <2>7, <3>2
      <4> HIDE DEF tp
      <4>. QED
        BY <2>3, <2>4, <2>5, <4>1, <4>2
    <3>. QED
      BY <3>1, <3>2
  <2>10. \A c : Contains(calls, c) => c \in {"get_labels?", "put_labels?", "publish", "say", "clean?"}
    BY <2>2, <2>3, <2>4, <2>5, <2>7
  <2>11. Contains(calls, "clean?") /\ (Contains(calls, "put_labels?") => Contains(calls, "get_labels?"))
    BY <2>2, <2>3, <2>4, <2>5, <2>7
  <2>. QED
    BY <1>1, <2>7, <2>8, <2>9, <2>10, <2>11
<1>. QED
  BY <1>0, <1>1

\* What the lists of calls have in common: only describing puts labels that
\* it reads before, and only it publishes.
LEMMA EpilogueList ==
  ASSUME NEW t, tool[t] \in AllTools \ {"config"},
         NEW o, o \in {"answer", "nothing", "empty", "unusable"},
         NEW ls, NEW calls, calls = Epilogue(t, o, ls)
  PROVE  /\ calls \in Seq(OwnCalls(t))
         /\ (\A c \in Asking : ~Contains(calls, c))
         /\ tool[t] \in Announcers =>
              Contains(calls, "clean?") \/ (tool[t] \in {"generate_labels", "add_docs"} /\ calls = <<>>)
         /\ Contains(calls, "publish") => o # "empty" /\ "text" \in Fields(t)
         /\ Contains(calls, "put_labels?") => Contains(calls, "get_labels?") \/ Fields(t) = {"labels"}
         /\ calls # <<>> => ~Contains(Tail(calls), "get_labels?")
<1>0. {"get_labels?", "put_labels?", "publish", "say", "clean?", "think", "suggest", "review", "push"} \subseteq AllCalls
      /\ {"say", "clean?", "suggest", "review"} \subseteq OwnCalls(t)
  BY DEF AllCalls, OwnCalls
<1>1. ASSUME tool[t] \in {"describe", "auto_describe"}, NEW auto, calls = Describe(o, ls, auto)
      PROVE  /\ calls \in Seq(OwnCalls(t))
             /\ (\A c \in Asking : ~Contains(calls, c))
             /\ Contains(calls, "clean?")
             /\ Contains(calls, "publish") => o # "empty" /\ "text" \in Fields(t)
             /\ Contains(calls, "put_labels?") => Contains(calls, "get_labels?") \/ Fields(t) = {"labels"}
             /\ calls # <<>> => ~Contains(Tail(calls), "get_labels?")
  <2>1. {"get_labels?", "put_labels?", "publish", "say", "clean?"} \subseteq OwnCalls(t) /\ "text" \in Fields(t)
    BY <1>0, <1>1, ToolFields DEF OwnCalls
  <2>2. /\ calls \in Seq(OwnCalls(t))
        /\ Contains(calls, "clean?")
        /\ \A c : Contains(calls, c) => c \in {"get_labels?", "put_labels?", "publish", "say", "clean?"}
        /\ Contains(calls, "publish") => o # "empty"
        /\ Contains(calls, "put_labels?") => Contains(calls, "get_labels?")
        /\ ~Contains(Tail(calls), "get_labels?")
    BY <1>1, <2>1, DescribeList
  <2>. QED
    BY <2>1, <2>2 DEF Asking
<1>2. CASE tool[t] = "describe"
  <2>1. calls = Describe(o, ls, FALSE)
    BY <1>2 DEF Epilogue
  <2>. QED
    BY <1>1, <1>2, <2>1
<1>3. CASE tool[t] = "auto_describe"
  <2>1. calls = Describe(o, ls, TRUE)
    BY <1>3 DEF Epilogue
  <2>. QED
    BY <1>1, <1>3, <2>1 DEF Announcers
<1> DEFINE S == OwnCalls(t) \ ({"publish", "get_labels?"} \cup Asking)
           T == S \ {"put_labels?"}
<1>4. ASSUME calls \in Seq(S)
      PROVE  /\ calls \in Seq(OwnCalls(t))
             /\ (\A c \in Asking : ~Contains(calls, c)) /\ ~Contains(calls, "publish")
             /\ calls # <<>> => ~Contains(Tail(calls), "get_labels?")
  <2>1. \A c : Contains(calls, c) => c \in S
    BY <1>4, SeqContains
  <2>2. calls # <<>> => \A c : Contains(Tail(calls), c) => Contains(calls, c)
    BY <1>4, TailContains
  <2>3. calls \in Seq(OwnCalls(t))
    BY <1>4
  <2>. QED
    BY <2>1, <2>2, <2>3
<1>5. ASSUME calls \in Seq(T)
      PROVE  calls \in Seq(S) /\ ~Contains(calls, "put_labels?")
  <2>1. \A c : Contains(calls, c) => c \in T
    BY <1>5, SeqContains
  <2>. QED
    BY <1>5, <2>1
<1>6. {"say", "clean?", "suggest", "review"} \subseteq T
  BY <1>0 DEF Asking
<1> HIDE DEF T
<1>7. CASE tool[t] = "generate_labels"
  <2>1. calls = GenerateLabels(o) /\ Fields(t) = {"labels"}
    BY <1>7, ToolFields DEF Epilogue
  <2>2. "put_labels?" \in S /\ "clean?" \in S
    BY <1>0, <2>1 DEF OwnCalls, Asking
  <2> HIDE DEF S
  <2>3. calls \in Seq(S) /\ (calls = <<>> \/ Contains(calls, "clean?"))
    <3>1. CASE o = "empty"
      BY <2>1, <3>1 DEF GenerateLabels
    <3>2. CASE o # "empty"
      <4>1. calls = <<"put_labels?", "clean?">>
        BY <2>1, <3>2 DEF GenerateLabels
      <4>. QED
        BY <2>2, <4>1, TwoCalls
    <3>. QED
      BY <3>1, <3>2
  <2>. QED
    BY <1>4, <1>7, <2>1, <2>3
<1> HIDE DEF S
<1>8. ASSUME calls \in Seq(T), tool[t] \in Announcers =>
        Contains(calls, "clean?") \/ (tool[t] \in {"generate_labels", "add_docs"} /\ calls = <<>>)
      PROVE  /\ calls \in Seq(OwnCalls(t))
             /\ (\A c \in Asking : ~Contains(calls, c))
             /\ tool[t] \in Announcers =>
                  Contains(calls, "clean?") \/ (tool[t] \in {"generate_labels", "add_docs"} /\ calls = <<>>)
             /\ Contains(calls, "publish") => o # "empty" /\ "text" \in Fields(t)
             /\ Contains(calls, "put_labels?") => Contains(calls, "get_labels?") \/ Fields(t) = {"labels"}
             /\ calls # <<>> => ~Contains(Tail(calls), "get_labels?")
  BY <1>4, <1>5, <1>8
<1>9. CASE tool[t] = "ask"
  <2>1. calls = <<"say", "clean?">>
    BY <1>9 DEF Epilogue, Ask
  <2>2. calls \in Seq(T) /\ Contains(calls, "clean?")
    BY <1>6, <2>1, TwoCalls
  <2>. QED
    BY <1>8, <2>2
<1>10. CASE tool[t] = "ask_line"
  <2>1. calls = <<"say">>
    BY <1>10 DEF Epilogue, AskLine
  <2>. QED
    BY <1>6, <1>8, <1>10, <2>1 DEF Announcers
<1>11. CASE tool[t] = "add_docs"
  <2>1. calls = AddDocs(o)
    BY <1>11 DEF Epilogue
  <2>2. CASE o = "answer"
    <3>1. calls = <<"clean?", "suggest">>
      BY <2>1, <2>2 DEF AddDocs
    <3>2. calls \in Seq(T) /\ Contains(calls, "clean?")
      BY <1>6, <3>1, TwoCalls
    <3>. QED
      BY <1>8, <3>2
  <2>3. CASE o = "nothing"
    <3>1. calls = <<"clean?", "say">>
      BY <2>1, <2>3 DEF AddDocs
    <3>2. calls \in Seq(T) /\ Contains(calls, "clean?")
      BY <1>6, <3>1, TwoCalls
    <3>. QED
      BY <1>8, <3>2
  <2>4. CASE o = "empty"
    <3>1. calls = <<>>
      BY <2>1, <2>4 DEF AddDocs
    <3>. QED
      BY <1>8, <1>11, <3>1
  <2>5. CASE o = "unusable"
    <3>1. calls = <<"clean?">>
      BY <2>1, <2>5 DEF AddDocs
    <3>2. calls \in Seq(T) /\ Contains(calls, "clean?")
      BY <1>6, <3>1, OneCall
    <3>. QED
      BY <1>8, <3>2
  <2>. QED
    BY <2>2, <2>3, <2>4, <2>5
<1>12. CASE tool[t] = "update_changelog"
  <2> DEFINE end == IF "push" \in option THEN <<"push", "review">> ELSE <<"say">>
  <2>1. calls = <<"clean?">> \o end
    BY <1>12 DEF Epilogue, UpdateChangelog
  <2>2. "push" \in T
    BY <1>0, <1>12, ToolFields DEF OwnCalls, T, S, Asking
  <2>3. <<"clean?">> \in Seq(T) /\ end \in Seq(T)
    BY <1>6, <2>2
  <2> HIDE DEF end
  <2>4. /\ <<"clean?">> \o end \in Seq(T)
        /\ Contains(<<"clean?">> \o end, "clean?") <=> Contains(<<"clean?">>, "clean?") \/ Contains(end, "clean?")
    BY <2>3, ConcatContains
  <2>5. Contains(<<"clean?">>, "clean?")
    BY OneCall
  <2>6. calls \in Seq(T) /\ Contains(calls, "clean?")
    BY <2>1, <2>4, <2>5
  <2>. QED
    BY <1>8, <2>6
<1>13. CASE tool[t] = "help"
  <2>1. calls \in Seq(T)
    BY <1>6, <1>13 DEF Epilogue, Help
  <2>. QED
    BY <1>8, <1>13, <2>1 DEF Announcers
<1>14. CASE tool[t] = "help_docs"
  <2>1. calls \in Seq(T)
    BY <1>6, <1>14 DEF Epilogue, HelpDocs
  <2>. QED
    BY <1>8, <1>14, <2>1 DEF Announcers
<1>. QED
  BY <1>2, <1>3, <1>7, <1>9, <1>10, <1>11, <1>12, <1>13, <1>14 DEF AllTools

\* The lists that a command begins with.
LEMMA PrologueList ==
  ASSUME NEW t, tool[t] \in AllTools, NEW calls \in Prologue(t) \cup Unasked(t)
  PROVE  /\ calls \in Seq(OwnCalls(t))
         /\ \A c \in Asking : Contains(calls, c) => calls \in ThinkLists
         /\ ~Contains(calls, "publish") /\ ~Contains(calls, "put_labels?")
         /\ calls # <<>> => ~Contains(Tail(calls), "get_labels?")
<1>0. {"say", "clean?", "clone"} \subseteq OwnCalls(t)
      /\ (tool[t] # "config" => "think" \in OwnCalls(t))
      /\ (tool[t] \in Announcers => "announce" \in OwnCalls(t))
  BY DEF AllCalls, OwnCalls
<1> DEFINE Short == calls \in {<<>>, <<"say">>, <<"say", "clean?">>}
           Long == calls \in ThinkLists /\ calls \in Seq(OwnCalls(t))
<1>1. Short \/ Long
  <2>1. CASE tool[t] \in Announcers
    <3>1. calls = <<"announce", "think">>
      BY <2>1 DEF Prologue, Unasked, Announcers
    <3>. QED
      BY <1>0, <2>1, <3>1 DEF ThinkLists, Announcers
  <2>2. CASE tool[t] \in {"auto_describe", "ask_line", "help"}
    <3>1. calls \in {<<"think">>, <<>>, <<"say">>}
      BY <2>2 DEF Prologue, Unasked
    <3>2. "think" \in OwnCalls(t)
      BY <1>0, <2>2
    <3>3. CASE calls = <<"think">>
      BY <3>2, <3>3 DEF ThinkLists
    <3>. QED
      BY <3>1, <3>3
  <2>3. CASE tool[t] = "config"
    BY <2>3 DEF Prologue, Unasked
  <2>4. CASE tool[t] = "help_docs"
    <3>1. calls \in {<<"clone", "think">>, <<"clone", "think", "think">>, <<>>}
      BY <2>4 DEF Prologue, Unasked
    <3>2. "think" \in OwnCalls(t) /\ "clone" \in OwnCalls(t)
      BY <1>0, <2>4
    <3>3. CASE calls = <<"clone", "think">>
      BY <3>2, <3>3 DEF ThinkLists
    <3>4. CASE calls = <<"clone", "think", "think">>
      BY <3>2, <3>4 DEF ThinkLists
    <3>. QED
      BY <3>1, <3>3, <3>4
  <2>5. \/ tool[t] \in Announcers \/ tool[t] \in {"auto_describe", "ask_line", "help"}
        \/ tool[t] = "config" \/ tool[t] = "help_docs"
    BY DEF AllTools, Announcers
  <2> HIDE DEF Short, Long
  <2>. QED
    BY <2>1, <2>2, <2>3, <2>4, <2>5
<1>2. CASE Short
  <2>1. calls \in Seq({"say", "clean?"})
    <3>1. CASE calls = <<>>
      BY <3>1
    <3>2. CASE calls = <<"say">>
      BY <3>2
    <3>3. CASE calls = <<"say", "clean?">>
      BY <3>3
    <3>. QED
      BY <1>2, <3>1, <3>2, <3>3
  <2>4. calls \in Seq(OwnCalls(t))
    BY <1>0, <2>1
  <2>2. \A c : Contains(calls, c) => c \in {"say", "clean?"}
    BY <2>1, SeqContains
  <2>3. calls # <<>> => \A c : Contains(Tail(calls), c) => Contains(calls, c)
    BY <2>1, TailContains
  <2>. QED
    BY <2>2, <2>3, <2>4 DEF Asking
<1>3. CASE Long
  BY <1>3, Literals
<1>. QED
  BY <1>1, <1>2, <1>3

-----------------------------------------------------------------------------
(* The invariants. *)

TitleInv ==
  /\ pr.title <= edits /\ people.title <= edits
  /\ \A t \in Tasks : seen[t].title <= edits

\* The model is asked before anything is written, and labels are read, if at
\* all, first of what comes after.
TodoInv ==
  /\ todo \in [Tasks -> Seq(AllCalls)]
  /\ \A t \in Tasks :
       /\ todo[t] \in Seq(OwnCalls(t))
       /\ \A c \in Asking : Contains(todo[t], c) => todo[t] \in ThinkLists
       /\ todo[t] # <<>> => ~Contains(Tail(todo[t]), "get_labels?")

\* What t read of the field is what is there.
Fresh(t, field) == pc[t] = "running" /\ field \in Fields(t) /\ <<t, field>> \notin stale

\* t is past the call that reads the labels.
LabelsRead(t) ==
  \/ Fields(t) = {"labels"}
  \/ Contains(todo[t], "put_labels?") /\ ~Contains(todo[t], "get_labels?")

LabelsInv ==
  /\ people.labels \subseteq UserLabels
  /\ people.labels \subseteq pr.labels
  /\ \A t \in Tasks : Fresh(t, "labels") /\ LabelsRead(t) => people.labels \subseteq seen[t].labels

ChangelogInv ==
  /\ Block(pr.changelog, {People}) = people.changelog
  /\ \A t \in Tasks : Fresh(t, "changelog") => Block(seen[t].changelog, {People}) = people.changelog

-----------------------------------------------------------------------------
(* What a step of a command does to its list of calls. *)

TodoEffect(t) ==
  /\ todo' = [todo EXCEPT ![t] = todo'[t]]
  /\ pc' = [pc EXCEPT ![t] = pc'[t]]
  /\ pc'[t] \in {"running"} \cup Ended
  /\ pc'[t] # "running" <=> todo'[t] = <<>>
  /\ \/ todo'[t] = <<>>
     \/ pc[t] = "running" /\ todo[t] # <<>> /\ todo'[t] = Tail(todo[t])
     \/ Calls(t, "review") /\ todo'[t] = <<"say">>
     \/ Open(t) /\ todo'[t] \in Prologue(t) \cup Unasked(t)
     \/ /\ Calls(t, "think") /\ Tail(todo[t]) = <<>>
        /\ \E o \in Outcomes(t), ls \in Answers(t) : todo'[t] = Epilogue(t, o, ls)

LEMMA ThenEffect ==
  ASSUME TypeOK, TodoInv, NEW t \in Tasks, NEW calls, Then(t, calls)
  PROVE  /\ todo' = [todo EXCEPT ![t] = todo'[t]] /\ todo'[t] = calls
         /\ pc' = [pc EXCEPT ![t] = pc'[t]]
         /\ pc'[t] = IF calls = <<>> THEN "done" ELSE "running"
         /\ pc'[t] \in {"running"} \cup Ended
         /\ pc'[t] # "running" <=> todo'[t] = <<>>
BY DEF TypeOK, TodoInv, Then, Ended

LEMMA GiveUpEffect ==
  ASSUME TypeOK, TodoInv, NEW t \in Tasks, GiveUp(t)
  PROVE  TodoEffect(t) /\ pc'[t] = "failed" /\ todo'[t] = <<>>
BY DEF TypeOK, TodoInv, GiveUp, Ended, TodoEffect

LEMMA ContinueEffect ==
  ASSUME TypeOK, TodoInv, NEW t \in Tasks, NEW call, Calls(t, call), Continue(t)
  PROVE  TodoEffect(t) /\ todo'[t] = Tail(todo[t])
BY ThenEffect DEF Continue, Calls, TodoEffect

LEMMA StepTodo ==
  ASSUME TypeOK, TodoInv, NEW t \in Tasks, Step(t)
  PROVE  TodoEffect(t)
<1>1. CASE Open(t)
  <2>1. CASE GiveUp(t)
    BY <2>1, GiveUpEffect
  <2>2. ASSUME NEW calls \in Prologue(t) \cup Unasked(t), Then(t, calls) PROVE TodoEffect(t)
    BY <1>1, <2>2, ThenEffect DEF TodoEffect
  <2>. QED
    BY <1>1, <2>1, <2>2 DEF Open
<1>2. CASE Clone(t)
  <2>1. ASSUME Then(t, <<>>) PROVE TodoEffect(t)
    BY <2>1, ThenEffect DEF TodoEffect
  <2>. QED
    BY <1>2, <2>1, ContinueEffect DEF Clone
<1>3. CASE Think(t)
  <2>1. CASE GiveUp(t)
    BY <2>1, GiveUpEffect
  <2>2. ASSUME NEW o \in Outcomes(t), NEW ls \in Answers(t), Tail(todo[t]) = <<>>,
               Then(t, Epilogue(t, o, ls))
        PROVE  TodoEffect(t)
    <3>1. todo'[t] = Epilogue(t, o, ls)
      BY <2>2, ThenEffect
    <3>2. Calls(t, "think")
      BY <1>3 DEF Think
    <3>. QED
      BY <2>2, <3>1, <3>2, ThenEffect DEF TodoEffect
  <2>3. CASE Then(t, <<>>)
    BY <2>3, ThenEffect DEF TodoEffect
  <2>4. CASE Continue(t)
    BY <1>3, <2>4, ContinueEffect DEF Think
  <2>. QED
    BY <1>3, <2>1, <2>2, <2>3, <2>4 DEF Think
<1>4. CASE Review(t)
  <2>1. CASE Continue(t)
    BY <1>4, <2>1, ContinueEffect DEF Review
  <2>2. CASE Then(t, <<"say">>)
    <3>1. todo'[t] = <<"say">> /\ Calls(t, "review")
      BY <1>4, <2>2, ThenEffect DEF Review
    <3>. QED
      BY <2>2, <3>1, ThenEffect DEF TodoEffect
  <2>. QED
    BY <1>4, <2>1, <2>2 DEF Review
<1>5. CASE Announce(t)
  BY <1>5, ContinueEffect, GiveUpEffect DEF Announce
<1>6. CASE GetLabels(t)
  BY <1>6, ContinueEffect, GiveUpEffect DEF GetLabels
<1>7. CASE PutLabels(t)
  BY <1>7, ContinueEffect, GiveUpEffect DEF PutLabels
<1>8. CASE Publish(t)
  BY <1>8, ContinueEffect, GiveUpEffect DEF Publish
<1>9. CASE Say(t)
  BY <1>9, ContinueEffect, GiveUpEffect DEF Say
<1>10. CASE Suggest(t)
  BY <1>10, ContinueEffect, GiveUpEffect DEF Suggest
<1>11. CASE Push(t)
  BY <1>11, ContinueEffect, GiveUpEffect DEF Push
<1>12. CASE Clean(t)
  BY <1>12, ContinueEffect, GiveUpEffect DEF Clean
<1>. QED
  BY <1>1, <1>2, <1>3, <1>4, <1>5, <1>6, <1>7, <1>8, <1>9, <1>10, <1>11, <1>12 DEF Step

-----------------------------------------------------------------------------
(* What every step leaves alone, and the lists of calls. *)

PeopleStep ==
  \/ \E text \in Texts : Rewrite(people.title, text)
  \/ Rewrite(people.title + 1, people.text)
  \/ \E l \in UserLabels : AddLabel(l)
  \/ AddEntry

LEMMA NextCases ==
  ASSUME Next
  PROVE  (\E t \in Tasks : Step(t)) \/ PeopleStep \/ UNCHANGED vars
BY DEF Next, PeopleStep, Quiescent

LEMMA StepConstant ==
  ASSUME NEW t, Step(t)
  PROVE  option' = option /\ tool' = tool /\ edits' = edits
<1>1. CASE Open(t)
  BY <1>1 DEF Open
<1>2. CASE Announce(t) \/ Clone(t) \/ Think(t) \/ GetLabels(t)
  BY <1>2 DEF Announce, Clone, Think, GetLabels
<1>3. CASE PutLabels(t) \/ Publish(t) \/ Say(t) \/ Suggest(t)
  BY <1>3 DEF PutLabels, Publish, Say, Suggest
<1>4. CASE Push(t) \/ Review(t) \/ Clean(t)
  BY <1>4 DEF Push, Review, Clean
<1>. QED
  BY <1>1, <1>2, <1>3, <1>4 DEF Step

LEMMA PeopleConstant ==
  ASSUME PeopleStep
  PROVE  /\ UNCHANGED <<option, tool, todo, pc, seen, labels, thread, failures>>
         /\ edits < MaxEdits /\ edits' = edits + 1
BY DEF PeopleStep, Rewrite, AddLabel, AddEntry

LEMMA Constant ==
  ASSUME [Next]_vars
  PROVE  /\ option' = option /\ tool' = tool
         /\ \A t : Fields(t)' = Fields(t) /\ OwnCalls(t)' = OwnCalls(t)
<1>1. option' = option /\ tool' = tool
  BY NextCases, StepConstant, PeopleConstant DEF vars
<1>. QED
  BY <1>1 DEF Fields, OwnCalls

LEMMA Tool ==
  ASSUME TypeOK, NEW t \in Tasks
  PROVE  tool[t] \in AllTools
BY ToolSessionsAssumption DEF TypeOK

LEMMA OutcomeNames ==
  ASSUME NEW t
  PROVE  Outcomes(t) \subseteq {"answer", "nothing", "empty", "unusable"}
BY DEF Outcomes

\* The list that t will have.
LEMMA NewList ==
  ASSUME TypeOK, TodoInv, NEW t \in Tasks, TodoEffect(t)
  PROVE  /\ todo'[t] \in Seq(OwnCalls(t))
         /\ \A c \in Asking : Contains(todo'[t], c) => todo'[t] \in ThinkLists
         /\ todo'[t] # <<>> => ~Contains(Tail(todo'[t]), "get_labels?")
<1> DEFINE new == todo'[t]
<1>0. /\ todo[t] \in Seq(OwnCalls(t))
      /\ \A c \in Asking : Contains(todo[t], c) => todo[t] \in ThinkLists
      /\ todo[t] # <<>> => ~Contains(Tail(todo[t]), "get_labels?")
      /\ tool[t] \in AllTools
  BY Tool DEF TodoInv
<1>1. CASE new = <<>>
  BY <1>1, NoCalls
<1>2. CASE todo[t] # <<>> /\ new = Tail(todo[t])
  <2>1. new \in Seq(OwnCalls(t)) /\ \A c : Contains(new, c) => Contains(todo[t], c)
    BY <1>0, <1>2, TailContains
  <2>2. new # <<>> => ~Contains(Tail(new), "get_labels?")
    <3>1. SUFFICES ASSUME new # <<>> PROVE ~Contains(Tail(new), "get_labels?")
      OBVIOUS
    <3> HIDE DEF new
    <3>2. \A c : Contains(Tail(new), c) => Contains(new, c)
      BY <2>1, <3>1, TailContains
    <3>. QED
      BY <1>0, <1>2, <3>2
  <2>3. ASSUME NEW c \in Asking, Contains(new, c) PROVE new \in ThinkLists
    <3>1. todo[t] \in ThinkLists
      BY <1>0, <2>1, <2>3
    <3>2. Tail(todo[t]) = <<>> \/ Tail(todo[t]) \in ThinkLists
      BY <3>1, Literals
    <3>. QED
      BY <1>2, <2>3, <3>2, NoCalls
  <2>. QED
    BY <2>1, <2>2, <2>3
<1>3. CASE Calls(t, "review") /\ new = <<"say">>
  <2>1. new \in Seq(OwnCalls(t)) /\ Tail(new) = <<>>
    BY <1>3 DEF OwnCalls, AllCalls
  <2>2. \A c : Contains(new, c) <=> c = "say"
    BY <1>3, OneCall
  <2>. QED
    BY <2>1, <2>2, NoCalls DEF Asking
<1>4. CASE new \in Prologue(t) \cup Unasked(t)
  BY <1>0, <1>4, PrologueList
<1>5. CASE /\ Calls(t, "think")
           /\ \E o \in Outcomes(t), ls \in Answers(t) : new = Epilogue(t, o, ls)
  <2>1. PICK o \in Outcomes(t), ls \in Answers(t) : new = Epilogue(t, o, ls)
    BY <1>5
  <2>2. tool[t] \in AllTools \ {"config"}
    <3>1. Head(todo[t]) \in OwnCalls(t)
      BY <1>0, <1>5 DEF Calls
    <3>. QED
      BY <1>0, <1>5, <3>1 DEF Calls, OwnCalls
  <2>3. o \in {"answer", "nothing", "empty", "unusable"}
    BY OutcomeNames
  <2>. QED
    BY <2>1, <2>2, <2>3, EpilogueList
<1>. QED
  BY <1>1, <1>2, <1>3, <1>4, <1>5 DEF TodoEffect

LEMMA TodoStable ==
  ASSUME TypeOK, TodoInv, [Next]_vars
  PROVE  TodoInv'
<1>1. \A t : OwnCalls(t)' = OwnCalls(t)
  BY Constant
<1>2. CASE todo' = todo
  BY <1>1, <1>2 DEF TodoInv
<1>3. ASSUME NEW t \in Tasks, Step(t) PROVE TodoInv'
  <2>1. TodoEffect(t)
    BY <1>3, StepTodo
  <2>2. /\ todo'[t] \in Seq(OwnCalls(t))
        /\ \A c \in Asking : Contains(todo'[t], c) => todo'[t] \in ThinkLists
        /\ todo'[t] # <<>> => ~Contains(Tail(todo'[t]), "get_labels?")
    BY <2>1, NewList
  <2>3. todo'[t] \in Seq(AllCalls)
    <3>1. OwnCalls(t) \subseteq AllCalls
      BY DEF OwnCalls
    <3>. QED
      BY <2>2, <3>1
  <2>4. todo' \in [Tasks -> Seq(AllCalls)] /\ \A u \in Tasks \ {t} : todo'[u] = todo[u]
    BY <2>1, <2>3 DEF TodoEffect, TodoInv
  <2>5. ASSUME NEW u \in Tasks
        PROVE  /\ todo'[u] \in Seq(OwnCalls(u))
               /\ \A c \in Asking : Contains(todo'[u], c) => todo'[u] \in ThinkLists
               /\ todo'[u] # <<>> => ~Contains(Tail(todo'[u]), "get_labels?")
    <3>1. CASE u = t
      BY <2>2, <3>1
    <3>2. CASE u # t
      <4>1. todo'[u] = todo[u]
        BY <2>4, <3>2
      <4>. QED
        BY <4>1 DEF TodoInv
    <3>. QED
      BY <3>1, <3>2
  <2>. QED
    BY <1>1, <2>4, <2>5 DEF TodoInv
<1>. QED
  BY <1>2, <1>3, NextCases, PeopleConstant DEF vars

-----------------------------------------------------------------------------
(* Descriptions. *)

Blocks == Words \cup Headings

LEMMA MinOf ==
  ASSUME NEW n \in Nat, NEW I \in SUBSET (1..n), I # {}
  PROVE  Min(I) \in I /\ \A i \in I : Min(I) <= i
<1>1. I \in SUBSET Nat
  OBVIOUS
<1>2. \E m \in I : \A i \in I : m <= i
  BY <1>1, LeastNumber
<1>. QED
  BY <1>2 DEF Min

\* Where the first of the headings is.
LEMMA UserDescriptionCases ==
  ASSUME NEW text \in Seq(Blocks)
  PROVE  \/ (text = <<>> \/ Head(text) \notin Headings) /\ UserDescription(text) = text
         \/ /\ text # <<>> /\ Head(text) \in Headings /\ ~Contains(text, "user")
            /\ UserDescription(text) = <<>>
         \/ /\ text # <<>> /\ Head(text) \in Headings
            /\ \E begin \in 1..Len(text) :
                 /\ text[begin] = "user"
                 /\ \A i \in 1..Len(text) : text[i] = "user" => begin <= i
                 /\ \/ \E end \in 1..Len(text) :
                         /\ text[end] \in Headings \ {"user"}
                         /\ \A i \in 1..Len(text) : text[i] \in Headings \ {"user"} => end <= i
                         /\ end > begin
                         /\ UserDescription(text) = SubSeq(text, begin + 1, end - 1)
                    \/ /\ \/ \A i \in 1..Len(text) : text[i] \notin Headings \ {"user"}
                          \/ \E i \in 1..(begin - 1) : text[i] \in Headings \ {"user"}
                       /\ UserDescription(text) = Tail(text)
<1>1. CASE text = <<>> \/ Head(text) \notin Headings
  BY <1>1 DEF UserDescription
<1>2. CASE text # <<>> /\ Head(text) \in Headings /\ ~Contains(text, "user")
  BY <1>2 DEF UserDescription
<1>3. CASE text # <<>> /\ Head(text) \in Headings /\ Contains(text, "user")
  <2> DEFINE I == {i \in 1..Len(text) : text[i] = "user"}
             J == {i \in 1..Len(text) : text[i] \in Headings \ {"user"}}
             begin == IF I # {} THEN Min(I) ELSE 0
             end == IF J # {} THEN Min(J) ELSE 0
  <2>1. UserDescription(text) =
          IF end > begin THEN SubSeq(text, begin + 1, end - 1) ELSE Tail(text)
    BY <1>3 DEF UserDescription, SelectInSeq
  <2>2. I # {} /\ begin \in I /\ \A i \in I : begin <= i
    <3>1. I # {}
      BY <1>3 DEF Contains
    <3>2. I \in SUBSET (1..Len(text)) /\ Len(text) \in Nat
      OBVIOUS
    <3> HIDE DEF I
    <3>. QED
      BY <3>1, <3>2, MinOf
  <2>3. CASE J = {}
    <3>1. end = 0 /\ \A i \in 1..Len(text) : text[i] \notin Headings \ {"user"}
      BY <2>3
    <3>2. UserDescription(text) = Tail(text)
      <4>1. ~(end > begin)
        BY <2>2, <3>1
      <4> HIDE DEF end, begin
      <4>. QED
        BY <2>1, <4>1
    <3> HIDE DEF end, begin
    <3>. QED
      BY <1>3, <2>2, <3>1, <3>2
  <2>4. CASE J # {}
    <3>1. end \in J /\ \A i \in J : end <= i
      <4>1. J \in SUBSET (1..Len(text)) /\ Len(text) \in Nat
        OBVIOUS
      <4> HIDE DEF J
      <4>. QED
        BY <2>4, <4>1, MinOf
    <3> HIDE DEF end, begin
    <3>2. CASE end > begin
      <4>1. UserDescription(text) = SubSeq(text, begin + 1, end - 1)
        BY <2>1, <3>2
      <4>. QED
        BY <1>3, <2>2, <3>1, <3>2, <4>1
    <3>3. CASE ~(end > begin)
      <4>1. UserDescription(text) = Tail(text)
        BY <2>1, <3>3
      <4>2. end # begin
        BY <2>2, <3>1
      <4>3. end \in 1..(begin - 1) /\ text[end] \in Headings \ {"user"}
        BY <2>2, <3>1, <3>3, <4>2
      <4>. QED
        BY <1>3, <2>2, <4>1, <4>3
    <3>. QED
      BY <3>2, <3>3
  <2>. QED
    BY <2>3, <2>4
<1>. QED
  BY <1>1, <1>2, <1>3

\* Nothing is read that is not there.
LEMMA UserDescriptionType ==
  ASSUME NEW B \in SUBSET Blocks, NEW text \in Seq(B)
  PROVE  UserDescription(text) \in Seq(B)
<1>0. text \in Seq(Blocks)
  OBVIOUS
<1>1. CASE UserDescription(text) = text
  BY <1>1
<1>4. CASE UserDescription(text) = <<>>
  BY <1>4
<1>2. CASE text # <<>> /\ UserDescription(text) = Tail(text)
  BY <1>2
<1>3. ASSUME NEW begin \in 1..Len(text), NEW end \in 1..Len(text), end > begin,
             UserDescription(text) = SubSeq(text, begin + 1, end - 1)
      PROVE  UserDescription(text) \in Seq(B)
  <2> DEFINE part == [i \in 1..(end - begin - 1) |-> text[i + begin]]
  <2>1. SubSeq(text, begin + 1, end - 1) = part
    OBVIOUS
  <2>2. part \in Seq(B)
    OBVIOUS
  <2>. QED
    BY <1>3, <2>1, <2>2
<1>. QED
  BY <1>0, <1>1, <1>2, <1>3, <1>4, UserDescriptionCases

\* What the author wrote is read as it is, unless it begins with a heading.
LEMMA UserDescriptionPlain ==
  ASSUME NEW text \in Seq(Words)
  PROVE  /\ UserDescription(text) \in {text, <<>>}
         /\ ~Contains(text, "section") => UserDescription(text) = text
<1>0. text \in Seq(Blocks)
  BY DEF Blocks
<1>1. ~Contains(text, "user")
  <2>1. "user" \notin Words
    BY DEF Words
  <2>. QED
    BY <2>1, SeqContains
<1>2. UserDescription(text) \in {text, <<>>}
  BY <1>0, <1>1, UserDescriptionCases DEF Contains
<1>3. ASSUME ~Contains(text, "section") PROVE UserDescription(text) = text
  <2>1. text = <<>> \/ Head(text) \notin Headings
    <3>1. SUFFICES ASSUME text # <<>> PROVE Head(text) \notin Headings
      OBVIOUS
    <3>2. 1 \in 1..Len(text) /\ text[1] = Head(text) /\ text[1] \in Words
      BY <3>1
    <3>3. text[1] # "section"
      BY <1>3, <3>2 DEF Contains
    <3>. QED
      BY <3>2, <3>3 DEF Words, Headings
  <2>. QED
    BY <2>1 DEF UserDescription
<1>. QED
  BY <1>2, <1>3

\* The description that is made of a text.
LEMMA Made ==
  ASSUME "markers" \notin option, NEW u \in Seq(Words)
  PROVE  /\ u = <<>> => Description(u) = <<"answer">>
         /\ Description(u) \in Seq(Blocks) /\ Description(u) # <<>>
         /\ u # <<>> =>
              /\ Len(Description(u)) = Len(u) + 2
              /\ Description(u)[1] = "user" /\ Description(u)[Len(u) + 2] = "answer"
              /\ \A i \in 1..Len(u) : Description(u)[i + 1] = u[i]
<1>1. CASE u = <<>>
  <2>1. Description(u) = <<"answer">>
    BY <1>1 DEF Description
  <2>2. "answer" \in Blocks
    BY DEF Blocks, Headings
  <2>3. Description(u) \in Seq(Blocks) /\ Description(u) # <<>>
    BY <2>1, <2>2
  <2>. QED
    BY <1>1, <2>1, <2>3
<1>2. CASE u # <<>>
  <2>1. Description(u) = <<"user">> \o u \o <<"answer">>
    BY <1>2 DEF Description
  <2>2. "user" \in Blocks /\ "answer" \in Blocks /\ u \in Seq(Blocks)
    BY DEF Blocks, Headings
  <2>3. /\ Description(u) \in Seq(Blocks) /\ Len(Description(u)) = Len(u) + 2
        /\ Description(u)[1] = "user" /\ Description(u)[Len(u) + 2] = "answer"
        /\ \A i \in 1..Len(u) : Description(u)[i + 1] = u[i]
    BY <2>1, <2>2
  <2>. QED
    BY <1>2, <2>3
<1>. QED
  BY <1>1, <1>2

\* Of a description that was made, what is read is the author's text up to a
\* heading.
LEMMA UserDescriptionMade ==
  ASSUME "markers" \notin option, NEW u \in Seq(Words)
  PROVE  /\ UserDescription(Description(u)) \in Seq(Words)
         /\ ~Contains(u, "section") => UserDescription(Description(u)) = u
<1> DEFINE d == Description(u)
<1>0. d \in Seq(Blocks) /\ d # <<>>
  BY Made
<1>1. CASE u = <<>>
  <2>1. d = <<"answer">>
    BY <1>1, Made
  <2>2. ~Contains(d, "user")
    BY <2>1, OneCall
  <2>3. Head(d) \in Headings
    BY <2>1 DEF Headings
  <2>4. UserDescription(d) = <<>>
    BY <1>0, <2>2, <2>3 DEF UserDescription
  <2>. QED
    BY <1>1, <2>4
<1>2. CASE u # <<>>
  <2>1. /\ Len(d) = Len(u) + 2 /\ d[1] = "user" /\ d[Len(u) + 2] = "answer"
        /\ \A i \in 1..Len(u) : d[i + 1] = u[i]
        /\ Len(u) \in Nat
    BY <1>2, Made
  <2>2. Head(d) \in Headings /\ Contains(d, "user")
    BY <1>0, <2>1 DEF Headings, Contains
  <2> HIDE DEF d
  <2>3. PICK begin \in 1..Len(d) :
          /\ d[begin] = "user"
          /\ \A i \in 1..Len(d) : d[i] = "user" => begin <= i
          /\ \/ \E end \in 1..Len(d) :
                  /\ d[end] \in Headings \ {"user"}
                  /\ \A i \in 1..Len(d) : d[i] \in Headings \ {"user"} => end <= i
                  /\ end > begin
                  /\ UserDescription(d) = SubSeq(d, begin + 1, end - 1)
             \/ /\ \/ \A i \in 1..Len(d) : d[i] \notin Headings \ {"user"}
                   \/ \E i \in 1..(begin - 1) : d[i] \in Headings \ {"user"}
                /\ UserDescription(d) = Tail(d)
    BY <1>0, <2>2, UserDescriptionCases
  <2>4. begin = 1
    BY <2>1, <2>3
  <2>5. Len(u) + 2 \in 1..Len(d) /\ d[Len(u) + 2] \in Headings \ {"user"}
    BY <2>1 DEF Headings
  <2>6. PICK end \in 1..Len(d) :
          /\ d[end] \in Headings \ {"user"}
          /\ \A i \in 1..Len(d) : d[i] \in Headings \ {"user"} => end <= i
          /\ end > 1
          /\ UserDescription(d) = SubSeq(d, 2, end - 1)
    BY <2>3, <2>4, <2>5
  <2> DEFINE part == [i \in 1..(end - 2) |-> u[i]]
  <2>7. end <= Len(u) + 2
    BY <2>5, <2>6
  <2>8. UserDescription(d) = part
    <3>1. SubSeq(d, 2, end - 1) = [i \in 1..(end - 2) |-> d[i + 1]]
      BY <1>0, <2>6
    <3>2. \A i \in 1..(end - 2) : d[i + 1] = u[i]
      BY <2>1, <2>7
    <3>. QED
      BY <2>6, <3>1, <3>2
  <2>9. part \in Seq(Words)
    BY <2>1, <2>7
  <2>10. ASSUME ~Contains(u, "section") PROVE part = u
    <3>1. end = Len(u) + 2
      <4>1. SUFFICES ASSUME end # Len(u) + 2 PROVE FALSE
        OBVIOUS
      <4>2. end - 1 \in 1..Len(u) /\ (end - 1) + 1 = end
        BY <2>1, <2>6, <2>7, <4>1
      <4>3. d[end] = u[end - 1] /\ u[end - 1] \in Words
        BY <2>1, <4>2
      <4>4. u[end - 1] # "section"
        BY <2>10, <4>2 DEF Contains
      <4>. QED
        BY <2>6, <4>3, <4>4 DEF Words, Headings
    <3>2. end - 2 = Len(u)
      BY <2>1, <3>1
    <3>3. u = [i \in 1..Len(u) |-> u[i]]
      OBVIOUS
    <3>. QED
      BY <3>2, <3>3
  <2>. QED
    BY <2>8, <2>9, <2>10 DEF d
<1>. QED
  BY <1>1, <1>2

\* Where there are markers, each gives way to the answer.
LEMMA MadeOfMarkers ==
  ASSUME "markers" \in option, NEW u \in Seq(Blocks)
  PROVE  /\ Description(u) \in Seq(Blocks \ {"marker"})
         /\ Len(Description(u)) = Len(u)
         /\ \A i \in 1..Len(u) : Description(u)[i] = IF u[i] = "marker" THEN "answer" ELSE u[i]
<1> DEFINE d == [i \in 1..Len(u) |-> IF u[i] = "marker" THEN "answer" ELSE u[i]]
<1>1. Description(u) = d
  <2>1. DOMAIN u = 1..Len(u)
    OBVIOUS
  <2>. QED
    BY <2>1 DEF Description
<1>2. "answer" \in Blocks \ {"marker"}
  BY DEF Blocks, Headings
<1>3. d \in Seq(Blocks \ {"marker"})
  BY <1>2
<1>4. Len(d) = Len(u) /\ \A i \in 1..Len(u) : d[i] = IF u[i] = "marker" THEN "answer" ELSE u[i]
  OBVIOUS
<1> HIDE DEF d
<1>. QED
  BY <1>1, <1>3, <1>4

LEMMA DescriptionType ==
  ASSUME NEW u \in Seq(Blocks)
  PROVE  Description(u) \in Seq(Blocks)
<1>1. CASE "markers" \in option
  BY <1>1, MadeOfMarkers
<1>2. CASE "markers" \notin option
  <2>1. "user" \in Blocks /\ "answer" \in Blocks
    BY DEF Blocks, Headings
  <2> DEFINE v == IF u = <<>> THEN <<>> ELSE <<"user">> \o u
  <2>2. v \in Seq(Blocks)
    BY <2>1
  <2>3. Description(u) = v \o <<"answer">>
    BY <1>2 DEF Description
  <2> HIDE DEF v
  <2>. QED
    BY <2>1, <2>2, <2>3
<1>. QED
  BY <1>1, <1>2

\* What is the author's in a description that is made of a text.
LEMMA MadeBlocks ==
  ASSUME NEW u \in Seq(Words)
  PROVE  /\ Block(Description(u), Words \ {"marker"}) = Block(u, Words \ {"marker"})
         /\ "markers" \notin option => Len(Block(Description(u), {"answer"})) = 1
<1>0. /\ u \in Seq(Blocks) /\ "user" \in Blocks /\ "answer" \in Blocks
      /\ "user" \notin Words /\ "answer" \notin Words
  BY DEF Blocks, Headings, Words
<1>1. CASE "markers" \in option
  <2>1. Len(Description(u)) = Len(u) /\ Len(u) \in Nat
        /\ \A i \in 1..Len(u) : Description(u)[i] = IF u[i] = "marker" THEN "answer" ELSE u[i]
    BY <1>0, <1>1, MadeOfMarkers
  <2> DEFINE ws == Words \ {"marker"}
  <2>2. \A i \in 1..Len(u) : u[i] = Description(u)[i] \/ (u[i] \notin ws /\ Description(u)[i] \notin ws)
    BY <1>0, <2>1
  <2> HIDE DEF ws
  <2>3. Block(u, ws) = Block(Description(u), ws)
    BY <2>1, <2>2, BlockAlike
  <2>. QED
    BY <1>1, <2>3 DEF ws
<1>2. ASSUME "markers" \notin option, NEW bs, "user" \notin bs
      PROVE  Block(Description(u), bs) =
               IF "answer" \in bs THEN Append(Block(u, bs), "answer") ELSE Block(u, bs)
  <2> DEFINE v == IF u = <<>> THEN <<>> ELSE <<"user">> \o u
  <2>1. v \in Seq(Blocks)
    BY <1>0
  <2>2. Description(u) = Append(v, "answer")
    <3>1. Description(u) = v \o <<"answer">>
      BY <1>2 DEF Description
    <3> HIDE DEF v
    <3>. QED
      BY <1>0, <2>1, <3>1
  <2>3. Block(v, bs) = Block(u, bs)
    <3>1. CASE u = <<>>
      BY <3>1
    <3>2. CASE u # <<>>
      <4>1. v = <<"user">> \o u
        BY <3>2
      <4>2. Block(<<"user">> \o u, bs) = Block(u, bs)
        BY <1>0, <1>2, BlockPrepend
      <4>. QED
        BY <4>1, <4>2
    <3>. QED
      BY <3>1, <3>2
  <2> HIDE DEF v
  <2>4. Block(Append(v, "answer"), bs) =
          IF "answer" \in bs THEN Append(Block(v, bs), "answer") ELSE Block(v, bs)
    BY <1>0, <2>1, BlockAppend
  <2>. QED
    BY <2>2, <2>3, <2>4
<1>3. CASE "markers" \notin option
  <2>1. Block(Description(u), Words \ {"marker"}) = Block(u, Words \ {"marker"})
    BY <1>0, <1>2, <1>3
  <2>2. Block(Description(u), {"answer"}) = Append(Block(u, {"answer"}), "answer")
    BY <1>2, <1>3
  <2>3. Block(u, {"answer"}) = <<>>
    <3>1. Words \cap {"answer"} = {}
      BY <1>0
    <3>. QED
      BY <3>1, BlockNone
  <2>4. Len(Append(<<>>, "answer")) = 1
    OBVIOUS
  <2>. QED
    BY <2>1, <2>2, <2>3, <2>4
<1>. QED
  BY <1>1, <1>3

-----------------------------------------------------------------------------
(* The types. *)

LEMMA PullRequestFields ==
  ASSUME NEW p \in PullRequest
  PROVE  /\ p.title \in 0..MaxEdits /\ p.text \in Seq(Blocks)
         /\ p.labels \subseteq UserLabels \cup Types \cup Others
         /\ p.changelog \in Seq(Tasks \cup {People})
BY DEF PullRequest, Blocks

LEMMA SnapshotType ==
  ASSUME TypeOK, TitleInv, NEW t
  PROVE  /\ Snapshot(t) \in PullRequest /\ Unread \in PullRequest
         /\ Snapshot(t).title <= edits /\ Unread.title <= edits
<1>1. /\ pr.title \in 0..MaxEdits /\ pr.text \in Seq(Blocks)
      /\ pr.labels \subseteq UserLabels \cup Types \cup Others
      /\ pr.changelog \in Seq(Tasks \cup {People})
      /\ pr.title <= edits /\ edits \in Nat /\ MaxEdits \in Nat
  BY PullRequestFields, ToolSessionsAssumption DEF TypeOK, TitleInv
<1>2. UserDescription(pr.text) \in Seq(Blocks)
  BY <1>1, UserDescriptionType
<1>3. Snapshot(t) \in PullRequest
  <2>1. (IF "text" \in Fields(t) THEN pr.title ELSE 0) \in 0..MaxEdits
    BY <1>1
  <2>2. (IF "text" \in Fields(t) THEN UserDescription(pr.text) ELSE <<>>) \in Seq(Words \cup Headings)
    BY <1>2 DEF Blocks
  <2>3. (IF Fields(t) = {"labels"} THEN pr.labels ELSE {}) \in SUBSET (UserLabels \cup Types \cup Others)
    BY <1>1
  <2>4. (IF "changelog" \in Fields(t) THEN pr.changelog ELSE <<>>) \in Seq(Tasks \cup {People})
    BY <1>1
  <2>. QED
    BY <2>1, <2>2, <2>3, <2>4 DEF Snapshot, PullRequest
<1>4. Unread \in PullRequest
  BY <1>1 DEF Unread, PullRequest
<1>. QED
  BY <1>1, <1>3, <1>4 DEF Snapshot, Unread

Quiet == UNCHANGED <<pr, people, seen, stale>>

LEMMA StepCases ==
  ASSUME NEW t, Step(t)
  PROVE  Quiet \/ Open(t) \/ GetLabels(t) \/ PutLabels(t) \/ Publish(t) \/ Push(t)
BY DEF Step, Quiet, Announce, Clone, Think, Say, Suggest, Review, Clean

\* The commands' bookkeeping keeps to its values.
LEMMA BookkeepingStable ==
  ASSUME TypeOK, TodoInv, [Next]_vars
  PROVE  /\ option' \in Options /\ tool' \in [Tasks -> Tools]
         /\ pc' \in [Tasks -> {"idle", "running"} \cup Ended]
         /\ \A t \in Tasks : pc'[t] # "running" <=> todo'[t] = <<>>
<1>1. option' = option /\ tool' = tool
  BY Constant
<1>2. CASE pc' = pc /\ todo' = todo
  BY <1>1, <1>2 DEF TypeOK
<1>3. ASSUME NEW t \in Tasks, Step(t)
      PROVE  /\ pc' \in [Tasks -> {"idle", "running"} \cup Ended]
             /\ \A u \in Tasks : pc'[u] # "running" <=> todo'[u] = <<>>
  <2>1. TodoEffect(t)
    BY <1>3, StepTodo
  <2>2. pc' \in [Tasks -> {"idle", "running"} \cup Ended]
    BY <2>1 DEF TodoEffect, TypeOK
  <2>3. \A u \in Tasks \ {t} : pc'[u] = pc[u] /\ todo'[u] = todo[u]
    BY <2>1 DEF TodoEffect, TypeOK, TodoInv
  <2>4. pc'[t] # "running" <=> todo'[t] = <<>>
    BY <2>1 DEF TodoEffect
  <2>. QED
    BY <2>2, <2>3, <2>4 DEF TypeOK
<1>. QED
  BY <1>1, <1>2, <1>3, NextCases, PeopleConstant DEF vars, TypeOK

LEMMA CountersStable ==
  ASSUME TypeOK, [Next]_vars
  PROVE  edits' \in 0..MaxEdits /\ failures' \in 0..MaxFailures /\ failures <= failures'
<1>0. edits \in 0..MaxEdits /\ failures \in 0..MaxFailures /\ MaxEdits \in Nat /\ MaxFailures \in Nat
  BY ToolSessionsAssumption DEF TypeOK
<1>1. CASE UNCHANGED <<edits, failures>>
  BY <1>0, <1>1
<1>2. CASE PeopleStep
  BY <1>0, <1>2, PeopleConstant
<1>3. ASSUME NEW t \in Tasks, Step(t) PROVE edits' = edits /\ (Succeed \/ Fail)
  BY <1>3, StepConstant DEF Step, Open, Announce, Clone, Think, GetLabels, PutLabels, Publish,
     Say, Suggest, Push, Review, Clean
<1>4. Succeed \/ Fail => failures' \in 0..MaxFailures /\ failures <= failures'
  BY <1>0 DEF Succeed, Fail
<1>. QED
  BY <1>0, <1>1, <1>2, <1>3, <1>4, NextCases DEF vars

\* The answers and the comments.
LEMMA AnswersStable ==
  ASSUME TypeOK, [Next]_vars
  PROVE  /\ labels' \in [Tasks -> SUBSET (Types \cup Others)]
         /\ thread' \subseteq {"temporary", "answer"} \X Tasks
<1>1. CASE UNCHANGED <<labels, thread>>
  BY <1>1 DEF TypeOK
<1>2. ASSUME NEW t \in Tasks, Step(t)
      PROVE  /\ labels' \in [Tasks -> SUBSET (Types \cup Others)]
             /\ thread' \subseteq {"temporary", "answer"} \X Tasks
  <2>1. thread' \subseteq thread \cup {<<"temporary", t>>, <<"answer", t>>}
    BY <1>2 DEF Step, Open, Announce, Clone, Think, GetLabels, PutLabels, Publish,
       Say, Suggest, Push, Review, Clean
  <2>2. labels' = labels \/ Think(t)
    BY <1>2 DEF Step, Open, Announce, Clone, Think, GetLabels, PutLabels, Publish,
       Say, Suggest, Push, Review, Clean
  <2>3. Answers(t) \subseteq SUBSET (Types \cup Others)
    BY DEF Answers
  <2>4. Think(t) => labels' = labels \/ \E ls \in Answers(t) : labels' = [labels EXCEPT ![t] = ls]
    BY DEF Think
  <2>5. labels' \in [Tasks -> SUBSET (Types \cup Others)]
    BY <2>2, <2>3, <2>4 DEF TypeOK
  <2>. QED
    BY <2>1, <2>5 DEF TypeOK
<1>. QED
  BY <1>1, <1>2, NextCases, PeopleConstant DEF vars

DataOK ==
  /\ pr \in PullRequest /\ people \in PullRequest /\ seen \in [Tasks -> PullRequest]
  /\ stale \subseteq Tasks \X {"text", "labels", "changelog"}

LEMMA OutdatedType ==
  ASSUME NEW field \in {"text", "labels", "changelog"}
  PROVE  Outdated(field) \subseteq Tasks \X {"text", "labels", "changelog"}
BY DEF Outdated

\* A pull request of which some fields are changed.
LEMMA Changed ==
  ASSUME NEW p \in PullRequest
  PROVE  /\ \A x \in 0..MaxEdits, y \in Seq(Blocks) :
              [p EXCEPT !.title = x, !.text = y] \in PullRequest
         /\ \A x \in SUBSET (UserLabels \cup Types \cup Others) : [p EXCEPT !.labels = x] \in PullRequest
         /\ \A x \in Seq(Tasks \cup {People}) : [p EXCEPT !.changelog = x] \in PullRequest
BY DEF PullRequest, Blocks

LEMMA PeopleData ==
  ASSUME TypeOK, TitleInv, PeopleStep
  PROVE  DataOK' /\ TitleInv'
<1> DEFINE Good == /\ pr' \in PullRequest /\ people' \in PullRequest
                   /\ pr'.title <= edits' /\ people'.title <= edits'
                   /\ stale' \subseteq Tasks \X {"text", "labels", "changelog"}
<1>0. /\ pr \in PullRequest /\ people \in PullRequest /\ edits \in Nat /\ MaxEdits \in Nat
      /\ edits < MaxEdits /\ edits' = edits + 1 /\ seen' = seen /\ seen \in [Tasks -> PullRequest]
      /\ stale \subseteq Tasks \X {"text", "labels", "changelog"}
      /\ people.title \in 0..MaxEdits /\ people.title <= edits /\ pr.title <= edits
      /\ pr.title \in Nat /\ people.text \in Seq(Blocks)
      /\ pr.labels \subseteq UserLabels \cup Types \cup Others
      /\ people.labels \subseteq UserLabels \cup Types \cup Others
      /\ pr.changelog \in Seq(Tasks \cup {People}) /\ people.changelog \in Seq(Tasks \cup {People})
  BY PeopleConstant, PullRequestFields, ToolSessionsAssumption DEF TypeOK, TitleInv
<1>1. \A t \in Tasks : seen'[t].title <= edits'
  <2>1. ASSUME NEW t \in Tasks PROVE seen[t].title <= edits + 1
    <3>1. seen[t].title <= edits /\ seen[t].title \in 0..MaxEdits
      BY <1>0, PullRequestFields DEF TitleInv
    <3>. QED
      BY <1>0, <3>1
  <2>. QED
    BY <1>0, <2>1
<1>2. ASSUME NEW title \in 0..MaxEdits, title <= edits + 1, NEW text \in Seq(Blocks), Rewrite(title, text)
      PROVE  Good
  <2>1. pr' = [pr EXCEPT !.title = title, !.text = text]
        /\ people' = [people EXCEPT !.title = title, !.text = text]
        /\ stale' = stale \cup Outdated("text")
    BY <1>2 DEF Rewrite
  <2>2. pr' \in PullRequest /\ people' \in PullRequest
    BY <1>0, <2>1, Changed
  <2>3. pr'.title = title /\ people'.title = title
    BY <1>0, <2>1 DEF PullRequest
  <2>. QED
    BY <1>0, <1>2, <2>1, <2>2, <2>3, OutdatedType
<1>3. ASSUME NEW l \in UserLabels, AddLabel(l)
      PROVE  Good
  <2>1. pr' = [pr EXCEPT !.labels = pr.labels \cup {l}]
        /\ people' = [people EXCEPT !.labels = people.labels \cup {l}]
        /\ stale' = stale \cup Outdated("labels")
    BY <1>3 DEF AddLabel
  <2>2. pr' \in PullRequest /\ people' \in PullRequest
    BY <1>0, <2>1, Changed
  <2>3. pr'.title = pr.title /\ people'.title = people.title
    BY <1>0, <2>1 DEF PullRequest
  <2>. QED
    BY <1>0, <2>1, <2>2, <2>3, OutdatedType
<1>4. ASSUME AddEntry
      PROVE  Good
  <2>1. pr' = [pr EXCEPT !.changelog = <<People>> \o pr.changelog]
        /\ people' = [people EXCEPT !.changelog = <<People>> \o people.changelog]
        /\ stale' = stale \cup Outdated("changelog")
    BY <1>4 DEF AddEntry
  <2>2. <<People>> \o pr.changelog \in Seq(Tasks \cup {People})
        /\ <<People>> \o people.changelog \in Seq(Tasks \cup {People})
    BY <1>0
  <2>3. pr' \in PullRequest /\ people' \in PullRequest
    BY <1>0, <2>1, <2>2, Changed
  <2>4. pr'.title = pr.title /\ people'.title = people.title
    BY <1>0, <2>1 DEF PullRequest
  <2>. QED
    BY <1>0, <2>1, <2>3, <2>4, OutdatedType
<1>5. Good
  <2> HIDE DEF Good
  <2>1. ASSUME NEW text \in Texts, Rewrite(people.title, text) PROVE Good
    <3>1. text \in Seq(Blocks) /\ people.title <= edits + 1
      BY <1>0, ToolSessionsAssumption DEF Blocks
    <3>. QED
      BY <1>0, <1>2, <2>1, <3>1
  <2>2. ASSUME Rewrite(people.title + 1, people.text) PROVE Good
    <3>1. people.title + 1 \in 0..MaxEdits /\ people.title + 1 <= edits + 1
      BY <1>0
    <3>. QED
      BY <1>0, <1>2, <2>2, <3>1
  <2>. QED
    BY <1>3, <1>4, <2>1, <2>2 DEF PeopleStep
<1>. QED
  BY <1>0, <1>1, <1>5 DEF DataOK, TitleInv

LEMMA StepData ==
  ASSUME TypeOK, TitleInv, NEW t \in Tasks, Step(t)
  PROVE  DataOK' /\ TitleInv'
<1>0. /\ pr \in PullRequest /\ people \in PullRequest /\ seen \in [Tasks -> PullRequest]
      /\ stale \subseteq Tasks \X {"text", "labels", "changelog"}
      /\ edits' = edits /\ pr.title <= edits /\ people.title <= edits
      /\ \A u \in Tasks : seen[u].title <= edits
  BY StepConstant DEF TypeOK, TitleInv
<1>1. /\ seen[t] \in PullRequest /\ seen[t].title \in 0..MaxEdits /\ seen[t].text \in Seq(Blocks)
      /\ seen[t].labels \subseteq UserLabels \cup Types \cup Others
      /\ seen[t].changelog \in Seq(Tasks \cup {People})
      /\ labels[t] \subseteq Types \cup Others
      /\ people.labels \subseteq UserLabels \cup Types \cup Others
      /\ people.changelog \in Seq(Tasks \cup {People})
      /\ pr.labels \subseteq UserLabels \cup Types \cup Others
  <2>1. seen[t] \in PullRequest
    BY <1>0
  <2>2. labels[t] \subseteq Types \cup Others
    BY DEF TypeOK
  <2>. QED
    BY <1>0, <2>1, <2>2, PullRequestFields
\* What was read is replaced by another reading.
<1>2. ASSUME NEW p \in PullRequest, p.title <= edits, seen' = [seen EXCEPT ![t] = p],
             pr' = pr, people' = people,
             stale' \subseteq stale \cup {<<t, "changelog">>, <<t, "labels">>}
      PROVE  DataOK' /\ TitleInv'
  <2>1. seen' \in [Tasks -> PullRequest] /\ \A u \in Tasks : seen'[u].title <= edits
    BY <1>0, <1>2
  <2>. QED
    BY <1>0, <1>2, <2>1 DEF DataOK, TitleInv
\* The pull request is written.
<1>3. ASSUME seen' = seen, pr' \in PullRequest, people' \in PullRequest,
             pr'.title <= edits, people'.title <= edits,
             NEW field \in {"text", "labels", "changelog"}, stale' \subseteq stale \cup Outdated(field)
      PROVE  DataOK' /\ TitleInv'
  BY <1>0, <1>3, OutdatedType DEF DataOK, TitleInv
<1>4. CASE Quiet
  BY <1>0, <1>4 DEF Quiet, DataOK, TitleInv
<1>5. CASE Open(t)
  <2>1. Snapshot(t) \in PullRequest /\ Unread \in PullRequest
        /\ Snapshot(t).title <= edits /\ Unread.title <= edits
    BY SnapshotType
  <2>2. pr' = pr /\ people' = people
    BY <1>5 DEF Open
  <2>3. \/ seen' = [seen EXCEPT ![t] = Snapshot(t)] /\ stale' = stale
        \/ seen' = [seen EXCEPT ![t] = Unread] /\ stale' = stale \cup {<<t, "changelog">>}
        \/ UNCHANGED <<seen, stale>>
    BY <1>5 DEF Open
  <2>. QED
    BY <1>2, <1>4, <2>1, <2>2, <2>3 DEF Quiet
<1>6. CASE GetLabels(t)
  <2>1. PICK ls \in {pr.labels, {}} : seen' = [seen EXCEPT ![t].labels = ls]
    BY <1>6 DEF GetLabels
  <2> DEFINE p == [seen[t] EXCEPT !.labels = ls]
  <2>2. p \in PullRequest /\ p.title <= edits
    <3>1. ls \in SUBSET (UserLabels \cup Types \cup Others)
      BY <1>1
    <3>2. p \in PullRequest
      BY <1>1, <3>1, Changed
    <3>3. p.title = seen[t].title
      BY <1>1 DEF PullRequest
    <3>. QED
      BY <1>0, <3>2, <3>3
  <2>3. seen' = [seen EXCEPT ![t] = p]
    BY <2>1
  <2>4. pr' = pr /\ people' = people /\ stale' \subseteq stale \cup {<<t, "changelog">>, <<t, "labels">>}
    BY <1>6 DEF GetLabels
  <2> HIDE DEF p
  <2>. QED
    BY <1>2, <2>2, <2>3, <2>4
<1>7. CASE PutLabels(t)
  <2> DEFINE new == labels[t] \cup GetUserLabels(seen[t].labels)
  <2>1. new \in SUBSET (UserLabels \cup Types \cup Others)
    BY <1>1 DEF GetUserLabels
  <2>2. seen' = seen /\ stale' \subseteq stale \cup Outdated("labels")
    BY <1>7 DEF PutLabels
  <2>3. pr' = pr \/ pr' = [pr EXCEPT !.labels = new]
    BY <1>7 DEF PutLabels
  <2>4. people' = people \/ \E ls \in SUBSET people.labels : people' = [people EXCEPT !.labels = ls]
    BY <1>0, <1>7 DEF PutLabels
  <2>5. pr' \in PullRequest /\ pr'.title <= edits
    BY <1>0, <2>1, <2>3, Changed DEF PullRequest
  <2>6. people' \in PullRequest /\ people'.title <= edits
    <3>1. CASE people' = people
      BY <1>0, <3>1
    <3>2. ASSUME NEW ls \in SUBSET people.labels, people' = [people EXCEPT !.labels = ls]
          PROVE  people' \in PullRequest /\ people'.title <= edits
      <4>1. ls \in SUBSET (UserLabels \cup Types \cup Others)
        BY <1>1
      <4>2. people' \in PullRequest
        BY <1>0, <3>2, <4>1, Changed
      <4>3. people'.title = people.title
        BY <1>0, <3>2 DEF PullRequest
      <4>. QED
        BY <1>0, <4>2, <4>3
    <3>. QED
      BY <2>4, <3>1, <3>2
  <2>. QED
    BY <1>3, <2>2, <2>5, <2>6
<1>8. CASE Publish(t)
  <2>1. seen' = seen /\ stale' \subseteq stale \cup Outdated("text")
    BY <1>8 DEF Publish
  <2>2. Description(seen[t].text) \in Seq(Blocks)
    BY <1>1, DescriptionType
  <2>3. pr' = pr \/ pr' = [pr EXCEPT !.title = seen[t].title, !.text = Description(seen[t].text)]
    BY <1>8 DEF Publish
  <2>4. pr' \in PullRequest /\ pr'.title <= edits
    <3>1. CASE pr' = pr
      BY <1>0, <3>1
    <3>2. CASE pr' = [pr EXCEPT !.title = seen[t].title, !.text = Description(seen[t].text)]
      <4>1. pr' \in PullRequest
        BY <1>0, <1>1, <2>2, <3>2, Changed
      <4>2. pr'.title = seen[t].title
        BY <1>0, <3>2 DEF PullRequest
      <4>. QED
        BY <1>0, <4>1, <4>2
    <3>. QED
      BY <2>3, <3>1, <3>2
  <2>5. people' = people \/ people' = [people EXCEPT !.title = pr'.title, !.text = seen[t].text]
    BY <1>8 DEF Publish
  <2>6. people' \in PullRequest /\ people'.title <= edits
    <3>1. CASE people' = people
      BY <1>0, <3>1
    <3>2. CASE people' = [people EXCEPT !.title = pr'.title, !.text = seen[t].text]
      <4>1. pr'.title \in 0..MaxEdits
        BY <2>4, PullRequestFields
      <4>2. people' \in PullRequest
        BY <1>0, <1>1, <3>2, <4>1, Changed
      <4>3. people'.title = pr'.title
        BY <1>0, <3>2 DEF PullRequest
      <4>. QED
        BY <2>4, <4>2, <4>3
    <3>. QED
      BY <2>5, <3>1, <3>2
  <2>. QED
    BY <1>3, <2>1, <2>4, <2>6
<1>9. CASE Push(t)
  <2>1. seen' = seen /\ stale' \subseteq stale \cup Outdated("changelog")
    BY <1>9 DEF Push
  <2>2. NewContent(t) \in Seq(Tasks \cup {People})
    BY <1>1 DEF NewContent
  <2>3. Block(seen[t].changelog, {People}) \in Seq(Tasks \cup {People})
    <3>1. Block(seen[t].changelog, {People}) \in Seq((Tasks \cup {People}) \cap {People})
      BY <1>1, BlockType
    <3>. QED
      BY <3>1
  <2>4. pr' = pr \/ pr' = [pr EXCEPT !.changelog = NewContent(t)]
    BY <1>9 DEF Push
  <2>5. people' = people \/ \E c \in {people.changelog, Block(seen[t].changelog, {People})} :
                              people' = [people EXCEPT !.changelog = c]
    BY <1>9 DEF Push
  <2>6. pr' \in PullRequest /\ pr'.title <= edits
    BY <1>0, <2>2, <2>4, Changed DEF PullRequest
  <2>7. people' \in PullRequest /\ people'.title <= edits
    <3>1. CASE people' = people
      BY <1>0, <3>1
    <3>2. ASSUME NEW c \in {people.changelog, Block(seen[t].changelog, {People})},
                 people' = [people EXCEPT !.changelog = c]
          PROVE  people' \in PullRequest /\ people'.title <= edits
      <4>1. c \in Seq(Tasks \cup {People})
        BY <1>1, <2>3
      <4>2. people' \in PullRequest
        BY <1>0, <3>2, <4>1, Changed
      <4>3. people'.title = people.title
        BY <1>0, <3>2 DEF PullRequest
      <4>. QED
        BY <1>0, <4>2, <4>3
    <3>. QED
      BY <2>5, <3>1, <3>2
  <2>. QED
    BY <1>3, <2>1, <2>6, <2>7
<1>. QED
  BY <1>4, <1>5, <1>6, <1>7, <1>8, <1>9, StepCases

LEMMA TypeStable ==
  ASSUME TypeOK, TodoInv, TitleInv, [Next]_vars
  PROVE  TypeOK' /\ TitleInv'
<1>1. DataOK' /\ TitleInv'
  <2>1. CASE UNCHANGED vars
    BY <2>1 DEF vars, TypeOK, TitleInv, DataOK
  <2>. QED
    BY <2>1, PeopleData, StepData, NextCases
<1>. QED
  BY <1>1, BookkeepingStable, CountersStable, AnswersStable DEF TypeOK, DataOK

-----------------------------------------------------------------------------
(* What other people and commands leave of what a command has read. *)

LEMMA FreshOther ==
  ASSUME TypeOK, TodoInv, NEW t \in Tasks, Step(t), NEW u \in Tasks \ {t}, NEW field
  PROVE  /\ Fresh(u, field)' => Fresh(u, field)
         /\ seen'[u] = seen[u] /\ todo'[u] = todo[u] /\ pc'[u] = pc[u]
<1>1. TodoEffect(t) /\ Fields(u)' = Fields(u)
  BY StepTodo, StepConstant DEF Fields
<1>2. todo'[u] = todo[u] /\ pc'[u] = pc[u]
  BY <1>1 DEF TodoEffect, TypeOK, TodoInv
<1>3. seen'[u] = seen[u] /\ (<<u, field>> \in stale => <<u, field>> \in stale')
  <2>1. CASE Open(t)
    BY <2>1 DEF Open, TypeOK
  <2>2. CASE GetLabels(t)
    BY <2>2 DEF GetLabels, TypeOK
  <2>3. CASE PutLabels(t) \/ Publish(t) \/ Push(t)
    BY <2>3 DEF PutLabels, Publish, Push
  <2>. QED
    BY <2>1, <2>2, <2>3, StepCases DEF Quiet
<1>. QED
  BY <1>1, <1>2, <1>3 DEF Fresh

LEMMA FreshSelf ==
  ASSUME TypeOK, TodoInv, NEW t \in Tasks, Step(t), ~Open(t), ~GetLabels(t), NEW field
  PROVE  /\ Fresh(t, field)' => Fresh(t, field)
         /\ seen'[t] = seen[t] /\ pc[t] = "running"
<1>1. Fields(t)' = Fields(t)
  BY StepConstant DEF Fields
<1>2. pc[t] = "running"
  BY DEF Step, Announce, Clone, Think, PutLabels, Publish, Say, Suggest, Push, Review, Clean, Calls
<1>3. seen' = seen /\ stale \subseteq stale'
  BY StepCases DEF PutLabels, Publish, Push, Quiet
<1>. QED
  BY <1>1, <1>2, <1>3 DEF Fresh

\* A field that is written is no longer what the other commands have read.
LEMMA FreshWritten ==
  ASSUME NEW u \in Tasks, NEW field, <<u, field>> \in Outdated(field) => <<u, field>> \in stale',
         pc'[u] = pc[u], Fields(u)' = Fields(u)
  PROVE  ~Fresh(u, field)'
BY DEF Fresh, Outdated

LEMMA FreshPeople ==
  ASSUME PeopleStep, NEW u \in Tasks, NEW field
  PROVE  /\ Fresh(u, field)' => Fresh(u, field)
         /\ seen' = seen /\ todo' = todo
         /\ (\E l \in UserLabels : AddLabel(l)) => ~Fresh(u, "labels")'
         /\ AddEntry => ~Fresh(u, "changelog")'
         /\ \/ \E text \in Texts : Rewrite(people.title, text)
            \/ Rewrite(people.title + 1, people.text)
            => ~Fresh(u, "text")'
<1>1. seen' = seen /\ todo' = todo /\ pc' = pc /\ Fields(u)' = Fields(u)
  BY PeopleConstant DEF Fields
<1>2. stale \subseteq stale'
  BY DEF PeopleStep, Rewrite, AddLabel, AddEntry
<1>3. Fresh(u, field)' => Fresh(u, field)
  BY <1>1, <1>2 DEF Fresh
<1>4. (\E l \in UserLabels : AddLabel(l)) => ~Fresh(u, "labels")'
  BY <1>1, FreshWritten DEF AddLabel
<1>5. AddEntry => ~Fresh(u, "changelog")'
  BY <1>1, FreshWritten DEF AddEntry
<1>6. \/ \E text \in Texts : Rewrite(people.title, text)
      \/ Rewrite(people.title + 1, people.text)
      => ~Fresh(u, "text")'
  BY <1>1, FreshWritten DEF Rewrite
<1>. QED
  BY <1>1, <1>3, <1>4, <1>5, <1>6

-----------------------------------------------------------------------------
(* The labels. *)

\* The first call of a list is the tool's own, and reads labels or leaves the
\* reading for none later.
LEMMA FirstCall ==
  ASSUME TypeOK, TodoInv, NEW t \in Tasks, NEW call, Calls(t, call)
  PROVE  /\ call \in OwnCalls(t) /\ Contains(todo[t], call)
         /\ call # "get_labels?" => ~Contains(todo[t], "get_labels?")
<1>1. /\ todo[t] \in Seq(OwnCalls(t)) /\ todo[t] # <<>> /\ Head(todo[t]) = call
      /\ ~Contains(Tail(todo[t]), "get_labels?")
  BY DEF TodoInv, Calls
<1>2. Head(todo[t]) \in OwnCalls(t)
  BY <1>1
<1>3. Contains(todo[t], Head(todo[t]))
  <2>1. 1 \in 1..Len(todo[t]) /\ todo[t][1] = Head(todo[t])
    BY <1>1
  <2>. QED
    BY <2>1 DEF Contains
<1>4. Contains(todo[t], "get_labels?") /\ Head(todo[t]) # "get_labels?"
      => Contains(Tail(todo[t]), "get_labels?")
  BY <1>1, TailContains
<1>. QED
  BY <1>1, <1>2, <1>3, <1>4

LEMMA ReadBefore ==
  ASSUME TypeOK, TodoInv, NEW t \in Tasks, Step(t), ~Open(t), ~GetLabels(t), LabelsRead(t)'
  PROVE  LabelsRead(t)
<1>1. TodoEffect(t) /\ Fields(t)' = Fields(t)
  BY StepTodo, StepConstant DEF Fields
<1>2. SUFFICES ASSUME Fields(t) # {"labels"}, Contains(todo'[t], "put_labels?"),
                      ~Contains(todo'[t], "get_labels?")
               PROVE  Contains(todo[t], "put_labels?") /\ ~Contains(todo[t], "get_labels?")
  BY <1>1 DEF LabelsRead
<1>3. PICK call : Calls(t, call) /\ call # "get_labels?"
  BY DEF Step, Announce, Clone, Think, PutLabels, Publish, Say, Suggest, Push, Review, Clean
<1>4. ~Contains(todo[t], "get_labels?")
  BY <1>3, FirstCall
<1>5. Contains(todo[t], "put_labels?")
  <2>1. CASE todo'[t] = <<>>
    BY <1>2, <2>1, NoCalls
  <2>2. CASE todo[t] # <<>> /\ todo'[t] = Tail(todo[t])
    <3>1. todo[t] \in Seq(OwnCalls(t))
      BY DEF TodoInv
    <3>. QED
      BY <1>2, <2>2, <3>1, TailContains
  <2>3. CASE todo'[t] = <<"say">>
    BY <1>2, <2>3, OneCall
  <2>4. CASE /\ Calls(t, "think")
             /\ \E o \in Outcomes(t), ls \in Answers(t) : todo'[t] = Epilogue(t, o, ls)
    <3>1. PICK o \in Outcomes(t), ls \in Answers(t) : todo'[t] = Epilogue(t, o, ls)
      BY <2>4
    <3>2. tool[t] \in AllTools \ {"config"}
      BY <2>4, FirstCall, Tool DEF OwnCalls
    <3>3. o \in {"answer", "nothing", "empty", "unusable"}
      BY OutcomeNames
    <3>4. Contains(todo'[t], "put_labels?") => Contains(todo'[t], "get_labels?") \/ Fields(t) = {"labels"}
      BY <3>1, <3>2, <3>3, EpilogueList
    <3>. QED
      BY <1>2, <3>4
  <2>. QED
    BY <1>1, <2>1, <2>2, <2>3, <2>4 DEF TodoEffect
<1>. QED
  BY <1>4, <1>5

LEMMA LabelsStable ==
  ASSUME TypeOK, TodoInv, LabelsInv, [Next]_vars
  PROVE  LabelsInv'
<1>0. /\ pr \in PullRequest /\ people \in PullRequest /\ seen \in [Tasks -> PullRequest]
      /\ people.labels \subseteq UserLabels /\ people.labels \subseteq pr.labels
  BY DEF TypeOK, LabelsInv
<1>1. CASE UNCHANGED vars
  BY <1>1 DEF vars, LabelsInv, Fresh, LabelsRead, Fields
<1>2. CASE PeopleStep
  <2>1. CASE \E l \in UserLabels : AddLabel(l)
    <3>1. PICK l \in UserLabels : AddLabel(l)
      BY <2>1
    <3>2. people'.labels = people.labels \cup {l} /\ pr'.labels = pr.labels \cup {l}
      BY <1>0, <3>1 DEF AddLabel, PullRequest
    <3>3. \A u \in Tasks : ~Fresh(u, "labels")'
      BY <1>2, <2>1, FreshPeople
    <3>. QED
      BY <1>0, <3>2, <3>3 DEF LabelsInv
  <2>2. CASE ~\E l \in UserLabels : AddLabel(l)
    <3>1. people'.labels = people.labels /\ pr'.labels = pr.labels
      BY <1>0, <1>2, <2>2 DEF PeopleStep, Rewrite, AddEntry, PullRequest
    <3>2. ASSUME NEW u \in Tasks, Fresh(u, "labels")', LabelsRead(u)'
          PROVE  people.labels \subseteq seen'[u].labels
      <4>1. Fresh(u, "labels") /\ seen' = seen /\ todo' = todo
        BY <1>2, <3>2, FreshPeople
      <4>2. LabelsRead(u)
        BY <3>2, <4>1, Constant DEF LabelsRead
      <4>. QED
        BY <4>1, <4>2 DEF LabelsInv
    <3>. QED
      BY <1>0, <3>1, <3>2 DEF LabelsInv
  <2>. QED
    BY <2>1, <2>2
<1>3. ASSUME NEW t \in Tasks, Step(t) PROVE LabelsInv'
  <2>1. ASSUME NEW u \in Tasks \ {t}, Fresh(u, "labels")', LabelsRead(u)'
        PROVE  people.labels \subseteq seen'[u].labels
    <3>1. Fresh(u, "labels") /\ seen'[u] = seen[u] /\ todo'[u] = todo[u]
      BY <1>3, <2>1, FreshOther
    <3>2. LabelsRead(u)
      BY <2>1, <3>1, Constant DEF LabelsRead
    <3>. QED
      BY <3>1, <3>2 DEF LabelsInv
  <2>2. ASSUME Fresh(t, "labels")', LabelsRead(t)'
        PROVE  people.labels \subseteq seen'[t].labels
    <3>1. CASE Open(t)
      <4>1. PICK calls \in Prologue(t) \cup Unasked(t) : Then(t, calls)
        <5>1. GiveUp(t) => pc'[t] # "running"
          BY GiveUpEffect
        <5>. QED
          BY <2>2, <3>1, <5>1 DEF Open, Fresh
      <4>2. todo'[t] = calls /\ ~Contains(calls, "put_labels?")
        BY <4>1, Tool, PrologueList, ThenEffect
      <4>3. Fields(t) = {"labels"}
        BY <2>2, <4>2, Constant DEF LabelsRead
      <4>4. tool[t] # "update_changelog"
        BY <4>3, ToolFields
      <4>5. seen' = [seen EXCEPT ![t] = Snapshot(t)]
        <5>1. GiveUp(t) => pc'[t] # "running"
          BY GiveUpEffect
        <5>. QED
          BY <2>2, <3>1, <4>4, <5>1 DEF Open, Fresh
      <4>6. seen'[t].labels = pr.labels
        BY <1>0, <4>3, <4>5 DEF Snapshot
      <4>. QED
        BY <1>0, <4>6
    <3>2. CASE GetLabels(t)
      <4>1. seen' = [seen EXCEPT ![t].labels = pr.labels] \/ <<t, "labels">> \in stale'
        BY <3>2 DEF GetLabels
      <4>2. seen' = [seen EXCEPT ![t].labels = pr.labels]
        BY <2>2, <4>1 DEF Fresh
      <4>3. seen'[t].labels = pr.labels
        BY <1>0, <4>2 DEF PullRequest
      <4>. QED
        BY <1>0, <4>3
    <3>3. CASE ~Open(t) /\ ~GetLabels(t)
      BY <1>3, <2>2, <3>3, FreshSelf, ReadBefore DEF LabelsInv
    <3>. QED
      BY <3>1, <3>2, <3>3
  <2>3. people'.labels \subseteq people.labels /\ people'.labels \subseteq pr'.labels
    <3>1. CASE people' = people /\ pr' = pr
      BY <1>0, <3>1
    <3>2. CASE Publish(t) \/ Push(t)
      BY <1>0, <3>2 DEF Publish, Push, PullRequest
    <3>3. CASE PutLabels(t)
      <4> DEFINE new == labels[t] \cup GetUserLabels(seen[t].labels)
      <4>1. CASE people' = people /\ pr' = pr
        BY <1>0, <4>1
      <4>2. CASE /\ pr' = [pr EXCEPT !.labels = new]
                 /\ people' = [people EXCEPT !.labels =
                      IF <<t, "labels">> \in stale THEN people.labels \cap new ELSE people.labels]
        <5>1. pr'.labels = new
          BY <1>0, <4>2 DEF PullRequest
        <5>2. CASE <<t, "labels">> \in stale
          <6>1. people'.labels = people.labels \cap new
            BY <1>0, <4>2, <5>2 DEF PullRequest
          <6>. QED
            BY <5>1, <6>1
        <5>3. CASE <<t, "labels">> \notin stale
          <6>1. people'.labels = people.labels
            BY <1>0, <4>2, <5>3 DEF PullRequest
          <6>2. Calls(t, "put_labels?")
            BY <3>3 DEF PutLabels
          <6>3. "labels" \in Fields(t) /\ LabelsRead(t)
            BY <6>2, FirstCall DEF OwnCalls, LabelsRead
          <6>4. Fresh(t, "labels")
            BY <5>3, <6>2, <6>3 DEF Fresh, Calls
          <6>5. people.labels \subseteq seen[t].labels
            BY <6>3, <6>4 DEF LabelsInv
          <6>6. people.labels \cap Types = {}
            BY <1>0, ToolSessionsAssumption
          <6>7. people.labels \subseteq new
            BY <6>5, <6>6 DEF GetUserLabels
          <6>. QED
            BY <5>1, <6>1, <6>7
        <5>. QED
          BY <5>2, <5>3
      <4>. QED
        BY <3>3, <4>1, <4>2 DEF PutLabels
    <3>4. CASE Open(t) \/ GetLabels(t)
      BY <3>1, <3>4 DEF Open, GetLabels
    <3>. QED
      BY <1>3, <3>1, <3>2, <3>3, <3>4, StepCases DEF Quiet
  <2>4. \A u \in Tasks : Fresh(u, "labels")' /\ LabelsRead(u)' => people.labels \subseteq seen'[u].labels
    BY <2>1, <2>2
  <2>. QED
    BY <1>0, <2>3, <2>4 DEF LabelsInv
<1>. QED
  BY <1>1, <1>2, <1>3, NextCases

-----------------------------------------------------------------------------
(* The changelog. *)

\* An entry of a person's is kept above the others of people's, and a
\* command's is passed over.
LEMMA Entries ==
  ASSUME NEW c \in Seq(Tasks \cup {People})
  PROVE  /\ Block(<<People>> \o c, {People}) = <<People>> \o Block(c, {People})
         /\ \A t \in Tasks : Block(<<t>> \o c, {People}) = Block(c, {People})
<1>1. People \in Tasks \cup {People} /\ People \notin Tasks
  BY ToolSessionsAssumption
<1>2. Block(<<People>> \o c, {People}) = <<People>> \o Block(c, {People})
  BY <1>1, BlockPrepend
<1>3. ASSUME NEW t \in Tasks PROVE Block(<<t>> \o c, {People}) = Block(c, {People})
  <2>1. t \in Tasks \cup {People} /\ t \notin {People}
    BY <1>1
  <2>. QED
    BY <2>1, BlockPrepend
<1>. QED
  BY <1>2, <1>3

LEMMA ChangelogStable ==
  ASSUME TypeOK, TodoInv, ChangelogInv, [Next]_vars
  PROVE  ChangelogInv'
<1>0. /\ pr \in PullRequest /\ people \in PullRequest /\ seen \in [Tasks -> PullRequest]
      /\ pr.changelog \in Seq(Tasks \cup {People})
      /\ Block(pr.changelog, {People}) = people.changelog
  BY PullRequestFields DEF TypeOK, ChangelogInv
<1>1. CASE UNCHANGED vars
  BY <1>1 DEF vars, ChangelogInv, Fresh, Fields
<1>2. CASE PeopleStep
  <2>1. CASE AddEntry
    <3>1. /\ people'.changelog = <<People>> \o people.changelog
          /\ pr'.changelog = <<People>> \o pr.changelog
      BY <1>0, <2>1 DEF AddEntry, PullRequest
    <3>2. \A u \in Tasks : ~Fresh(u, "changelog")'
      BY <1>2, <2>1, FreshPeople
    <3>3. Block(<<People>> \o pr.changelog, {People}) = <<People>> \o Block(pr.changelog, {People})
      BY <1>0, Entries
    <3>. QED
      BY <1>0, <3>1, <3>2, <3>3 DEF ChangelogInv
  <2>2. CASE ~AddEntry
    <3>1. people'.changelog = people.changelog /\ pr'.changelog = pr.changelog
      BY <1>0, <1>2, <2>2 DEF PeopleStep, Rewrite, AddLabel, PullRequest
    <3>2. ASSUME NEW u \in Tasks, Fresh(u, "changelog")'
          PROVE  Block(seen'[u].changelog, {People}) = people.changelog
      <4>1. Fresh(u, "changelog") /\ seen' = seen
        BY <1>2, <3>2, FreshPeople
      <4>. QED
        BY <4>1 DEF ChangelogInv
    <3>. QED
      BY <1>0, <3>1, <3>2 DEF ChangelogInv
  <2>. QED
    BY <2>1, <2>2
<1>3. ASSUME NEW t \in Tasks, Step(t), pr' = pr, people' = people PROVE ChangelogInv'
  <2>1. ASSUME NEW u \in Tasks \ {t}, Fresh(u, "changelog")'
        PROVE  Block(seen'[u].changelog, {People}) = people.changelog
    <3>1. Fresh(u, "changelog") /\ seen'[u] = seen[u]
      BY <1>3, <2>1, FreshOther
    <3>. QED
      BY <3>1 DEF ChangelogInv
  <2>2. ASSUME Fresh(t, "changelog")'
        PROVE  Block(seen'[t].changelog, {People}) = people.changelog
    <3>1. CASE Open(t)
      <4>1. "changelog" \in Fields(t) /\ <<t, "changelog">> \notin stale'
        BY <2>2, Constant DEF Fresh
      <4>2. ~GiveUp(t)
        <5>1. GiveUp(t) => pc'[t] # "running"
          BY GiveUpEffect
        <5>. QED
          BY <2>2, <5>1 DEF Fresh
      <4>3. seen' = [seen EXCEPT ![t] = Snapshot(t)]
        BY <3>1, <4>1, <4>2 DEF Open
      <4>4. seen'[t].changelog = pr.changelog
        BY <1>0, <4>1, <4>3 DEF Snapshot
      <4>. QED
        BY <1>0, <4>4
    <3>2. CASE GetLabels(t)
      <4>1. Calls(t, "get_labels?") /\ <<t, "changelog">> \notin stale' /\ "changelog" \in Fields(t)
        BY <2>2, <3>2, Constant DEF GetLabels, Fresh
      <4>2. "labels" \in Fields(t)
        BY <4>1, FirstCall DEF OwnCalls
      <4>. QED
        BY <4>1, <4>2 DEF Fields
    <3>3. CASE ~Open(t) /\ ~GetLabels(t)
      BY <1>3, <2>2, <3>3, FreshSelf DEF ChangelogInv
    <3>. QED
      BY <3>1, <3>2, <3>3
  <2>. QED
    BY <1>0, <1>3, <2>1, <2>2 DEF ChangelogInv
<1>4. ASSUME NEW t \in Tasks, Step(t), PutLabels(t) \/ Publish(t) PROVE ChangelogInv'
  <2>1. people'.changelog = people.changelog /\ pr'.changelog = pr.changelog
    BY <1>0, <1>4 DEF PutLabels, Publish, PullRequest
  <2>2. ASSUME NEW u \in Tasks, Fresh(u, "changelog")'
        PROVE  Block(seen'[u].changelog, {People}) = people.changelog
    <3>1. seen' = seen /\ stale \subseteq stale'
      BY <1>4 DEF PutLabels, Publish
    <3>2. Fresh(u, "changelog")
      <4>1. CASE u # t
        BY <1>4, <2>2, <4>1, FreshOther
      <4>2. CASE u = t
        <5>1. pc[t] = "running"
          BY <1>4 DEF PutLabels, Publish, Calls
        <5>. QED
          BY <2>2, <3>1, <4>2, <5>1, Constant DEF Fresh
      <4>. QED
        BY <4>1, <4>2
    <3>. QED
      BY <3>1, <3>2 DEF ChangelogInv
  <2>. QED
    BY <1>0, <2>1, <2>2 DEF ChangelogInv
<1>5. ASSUME NEW t \in Tasks, Step(t), Push(t), ~(pr' = pr /\ people' = people) PROVE ChangelogInv'
  <2> DEFINE c == seen[t].changelog
  <2>1. /\ Calls(t, "push") /\ seen' = seen
        /\ pr' = [pr EXCEPT !.changelog = <<t>> \o c]
        /\ people' = [people EXCEPT !.changelog =
             IF <<t, "changelog">> \in stale THEN Block(c, {People}) ELSE people.changelog]
        /\ stale' = stale \cup (Outdated("changelog") \ {<<t, "changelog">>})
    BY <1>5 DEF Push, NewContent
  <2>2. c \in Seq(Tasks \cup {People})
    <3>1. seen[t] \in PullRequest
      BY <1>0
    <3>. QED
      BY <3>1, PullRequestFields
  <2>3. "changelog" \in Fields(t) /\ pc[t] = "running"
    BY <2>1, FirstCall DEF OwnCalls, Calls
  <2>4. <<t, "changelog">> \notin stale => Block(c, {People}) = people.changelog
    BY <2>3 DEF ChangelogInv, Fresh
  <2> HIDE DEF c
  <2>5. Block(<<t>> \o c, {People}) = Block(c, {People})
    BY <2>2, Entries
  <2>6. pr'.changelog = <<t>> \o c
    BY <1>0, <2>1 DEF PullRequest
  <2>7. people'.changelog = Block(c, {People})
    <3>1. CASE <<t, "changelog">> \in stale
      BY <1>0, <2>1, <3>1 DEF PullRequest
    <3>2. CASE <<t, "changelog">> \notin stale
      BY <1>0, <2>1, <2>4, <3>2 DEF PullRequest
    <3>. QED
      BY <3>1, <3>2
  <2>8. ASSUME NEW u \in Tasks, u # t PROVE ~Fresh(u, "changelog")'
    <3>1. pc'[u] = pc[u] /\ Fields(u)' = Fields(u)
      BY <1>5, <2>8, FreshOther, Constant
    <3>2. <<u, "changelog">> \in Outdated("changelog") => <<u, "changelog">> \in stale'
      BY <2>1, <2>8
    <3>. QED
      BY <3>1, <3>2, FreshWritten
  <2>9. ASSUME Fresh(t, "changelog")' PROVE Block(seen'[t].changelog, {People}) = people'.changelog
    BY <2>1, <2>7 DEF c
  <2>. QED
    BY <2>5, <2>6, <2>7, <2>8, <2>9 DEF ChangelogInv
<1>6. ASSUME NEW t \in Tasks, Step(t) PROVE ChangelogInv'
  <2>1. CASE pr' = pr /\ people' = people
    BY <1>3, <1>6, <2>1
  <2>2. Open(t) \/ GetLabels(t) \/ Quiet => pr' = pr /\ people' = people
    BY DEF Open, GetLabels, Quiet
  <2>. QED
    BY <1>4, <1>5, <1>6, <2>1, <2>2, StepCases
<1>. QED
  BY <1>1, <1>2, <1>6, NextCases

-----------------------------------------------------------------------------
(* The "Preparing ..." comments. *)

\* The tools that end so without cleaning up when the answer is of no use.
Unclean(end) ==
  IF end = "failed" THEN {"describe", "generate_labels"} ELSE {"generate_labels", "add_docs"}

\* While a command has the model to ask it has said nothing, and a comment that
\* announces it waits for the model or for the call that takes it away.
LitterInv ==
  \A t \in Tasks :
    /\ pc[t] = "idle" => <<"temporary", t>> \notin thread /\ <<"answer", t>> \notin thread
    /\ Contains(todo[t], "think") => <<"answer", t>> \notin thread
    /\ <<"temporary", t>> \in thread /\ failures = 0 =>
         /\ tool[t] \in Announcers
         /\ \/ Contains(todo[t], "clean?")
            \/ todo[t] = <<"think">>
            \/ /\ pc[t] \in Ended /\ tool[t] \in Unclean(pc[t])
               /\ <<"answer", t>> \notin thread

LEMMA AskingLists ==
  ASSUME NEW calls \in ThinkLists
  PROVE  /\ Head(calls) \in Asking /\ ~Contains(calls, "clean?")
         /\ Head(calls) = "announce" => Tail(calls) = <<"think">>
<1>1. CASE calls = <<"announce", "think">>
  <2>1. Len(calls) = 2 /\ calls[1] = "announce" /\ calls[2] = "think"
        /\ Head(calls) = "announce" /\ Tail(calls) = <<"think">>
    BY <1>1
  <2>. QED
    BY <2>1 DEF Contains, Asking
<1>2. CASE calls = <<"think">>
  BY <1>2 DEF Asking, Contains
<1>3. CASE calls = <<"clone", "think">>
  BY <1>3 DEF Asking, Contains
<1>4. CASE calls = <<"clone", "think", "think">>
  BY <1>4 DEF Asking, Contains
<1>5. CASE calls = <<"think", "think">>
  BY <1>5 DEF Asking, Contains
<1>. QED
  BY <1>1, <1>2, <1>3, <1>4, <1>5 DEF ThinkLists

LEMMA ThreadEffect ==
  ASSUME NEW t \in Tasks, Step(t)
  PROVE  /\ \A u \in Tasks \ {t}, kind \in {"temporary", "answer"} :
              <<kind, u>> \in thread' <=> <<kind, u>> \in thread
         /\ <<"temporary", t>> \in thread' => <<"temporary", t>> \in thread \/ Calls(t, "announce")
         /\ <<"answer", t>> \in thread' =>
              \/ <<"answer", t>> \in thread
              \/ Calls(t, "say") \/ Calls(t, "suggest") \/ Calls(t, "review")
<1>1. CASE thread' = thread
  BY <1>1
<1>2. CASE thread' = thread \cup {<<"temporary", t>>} /\ Calls(t, "announce")
  BY <1>2
<1>3. CASE thread' = thread \cup {<<"answer", t>>} /\ (Calls(t, "say") \/ Calls(t, "suggest") \/ Calls(t, "review"))
  BY <1>3
<1>4. CASE thread' = thread \ {<<"temporary", t>>}
  BY <1>4
<1>5. CASE Open(t) \/ Clone(t) \/ Think(t) \/ GetLabels(t) \/ PutLabels(t) \/ Publish(t) \/ Push(t)
  BY <1>1, <1>5 DEF Open, Clone, Think, GetLabels, PutLabels, Publish, Push
<1>6. CASE Announce(t)
  BY <1>1, <1>2, <1>6 DEF Announce
<1>7. CASE Say(t) \/ Suggest(t) \/ Review(t)
  BY <1>1, <1>3, <1>7 DEF Say, Suggest, Review
<1>8. CASE Clean(t)
  BY <1>1, <1>4, <1>8 DEF Clean
<1>. QED
  BY <1>5, <1>6, <1>7, <1>8 DEF Step

\* A command that has the model to ask says nothing.
LEMMA Silent ==
  ASSUME TypeOK, TodoInv, LitterInv, NEW t \in Tasks, Step(t), Contains(todo'[t], "think")
  PROVE  <<"answer", t>> \notin thread'
<1>0. TodoEffect(t) /\ "think" \in Asking
  BY StepTodo DEF Asking
<1>1. CASE todo'[t] = <<>>
  BY <1>1, NoCalls
<1>2. CASE pc[t] = "running" /\ todo[t] # <<>> /\ todo'[t] = Tail(todo[t])
  <2>1. Contains(todo[t], "think")
    <3>1. todo[t] \in Seq(OwnCalls(t))
      BY DEF TodoInv
    <3>. QED
      BY <1>2, <3>1, TailContains
  <2>2. todo[t] \in ThinkLists /\ <<"answer", t>> \notin thread
    BY <1>0, <2>1 DEF TodoInv, LitterInv
  <2>3. Head(todo[t]) \in Asking
    BY <2>2, AskingLists
  <2>. QED
    BY <2>2, <2>3, ThreadEffect DEF Calls, Asking
<1>3. CASE todo'[t] = <<"say">>
  BY <1>3, OneCall
<1>4. CASE Open(t)
  BY <1>4 DEF Open, LitterInv
<1>5. CASE /\ Calls(t, "think") /\ Tail(todo[t]) = <<>>
           /\ \E o \in Outcomes(t), ls \in Answers(t) : todo'[t] = Epilogue(t, o, ls)
  <2>1. PICK o \in Outcomes(t), ls \in Answers(t) : todo'[t] = Epilogue(t, o, ls)
    BY <1>5
  <2>2. tool[t] \in AllTools \ {"config"}
    BY <1>5, FirstCall, Tool DEF OwnCalls
  <2>3. o \in {"answer", "nothing", "empty", "unusable"}
    BY OutcomeNames
  <2>4. ~Contains(todo'[t], "think")
    BY <1>0, <2>1, <2>2, <2>3, EpilogueList
  <2>. QED
    BY <2>4
<1>. QED
  BY <1>0, <1>1, <1>2, <1>3, <1>4, <1>5 DEF TodoEffect

\* A comment that announces a command is not left behind when nothing fails.
LEMMA Announced ==
  ASSUME TypeOK, TodoInv, LitterInv, NEW t \in Tasks, Step(t),
         <<"temporary", t>> \in thread', failures' = 0, failures = 0
  PROVE  /\ tool[t] \in Announcers
         /\ \/ Contains(todo'[t], "clean?")
            \/ todo'[t] = <<"think">>
            \/ /\ pc'[t] \in Ended /\ tool[t] \in Unclean(pc'[t])
               /\ <<"answer", t>> \notin thread'
<1>0. ~Fail /\ todo[t] \in Seq(OwnCalls(t))
  <2>1. 0 + 1 # 0
    OBVIOUS
  <2>. QED
    BY <2>1 DEF Fail, TodoInv
<1>1. CASE Open(t)
  <2>1. thread' = thread /\ pc[t] = "idle"
    BY <1>1 DEF Open
  <2>. QED
    BY <2>1 DEF LitterInv
<1>2. CASE Announce(t)
  <2>1. Calls(t, "announce") /\ Continue(t)
    BY <1>0, <1>2 DEF Announce
  <2>2. "announce" \in OwnCalls(t) /\ Contains(todo[t], "announce")
    BY <2>1, FirstCall
  <2>3. todo[t] \in ThinkLists
    BY <2>2 DEF TodoInv, Asking
  <2>4. todo'[t] = Tail(todo[t])
    BY <2>1, ContinueEffect
  <2>. QED
    BY <2>1, <2>2, <2>3, <2>4, AskingLists DEF Calls, OwnCalls
<1>3. ASSUME ~Open(t), ~Announce(t)
      PROVE  /\ <<"temporary", t>> \in thread /\ tool[t] \in Announcers
             /\ pc[t] = "running" /\ (Contains(todo[t], "clean?") \/ todo[t] = <<"think">>)
  <2>1. pc[t] = "running" /\ ~Calls(t, "announce")
    BY <1>3 DEF Step, Clone, Think, GetLabels, PutLabels, Publish, Say, Suggest, Push, Review, Clean, Calls
  <2>2. <<"temporary", t>> \in thread
    BY <2>1, ThreadEffect
  <2>. QED
    BY <2>1, <2>2 DEF LitterInv, Ended
<1>4. ASSUME NEW call, Calls(t, call), call # "clean?", call # "think", Continue(t), ~Open(t), ~Announce(t)
      PROVE  tool[t] \in Announcers /\ Contains(todo'[t], "clean?")
  <2>1. todo'[t] = Tail(todo[t]) /\ todo[t] # <<>> /\ Head(todo[t]) = call
    BY <1>4, ContinueEffect DEF Calls
  <2>2. todo[t] # <<"think">>
    BY <1>4, <2>1, OneCall
  <2>3. Contains(todo[t], "clean?") /\ tool[t] \in Announcers
    BY <1>3, <1>4, <2>2
  <2>. QED
    BY <1>0, <1>4, <2>1, <2>3, TailContains
<1>5. CASE Clone(t) /\ ~Open(t) /\ ~Announce(t)
  <2>1. Calls(t, "clone")
    BY <1>5 DEF Clone
  <2>2. todo[t] \in ThinkLists
    BY <2>1, FirstCall DEF TodoInv, Asking
  <2>3. todo[t] # <<"think">>
    BY <2>1, OneCall DEF Calls
  <2>. QED
    BY <1>3, <1>5, <2>2, <2>3, AskingLists
<1>6. CASE Think(t) /\ ~Open(t) /\ ~Announce(t)
  <2>1. Calls(t, "think")
    BY <1>6 DEF Think
  <2>2. todo[t] \in ThinkLists /\ Contains(todo[t], "think")
    BY <2>1, FirstCall DEF TodoInv, Asking
  <2>3. todo[t] = <<"think">> /\ tool[t] \in Announcers
    BY <1>3, <1>6, <2>2, AskingLists
  <2>4. Tail(todo[t]) = <<>>
    BY <2>3, OneCall
  <2>5. <<"answer", t>> \notin thread'
    BY <1>6, <2>2 DEF Think, LitterInv
  <2>6. CASE (\E o \in Outcomes(t) : Raises(t, o)) /\ GiveUp(t)
    <3>1. tool[t] \in {"describe", "generate_labels"}
      BY <2>3, <2>6 DEF Raises, Announcers
    <3>. QED
      BY <2>3, <2>5, <2>6, <3>1, GiveUpEffect DEF Unclean, Ended
  <2>7. ASSUME NEW o \in Outcomes(t), NEW ls \in Answers(t), Then(t, Epilogue(t, o, ls))
        PROVE  \/ Contains(todo'[t], "clean?")
               \/ pc'[t] \in Ended /\ tool[t] \in Unclean(pc'[t])
    <3> DEFINE calls == Epilogue(t, o, ls)
    <3>1. todo'[t] = calls /\ pc'[t] = IF calls = <<>> THEN "done" ELSE "running"
      BY <2>7, ThenEffect
    <3>2. tool[t] \in AllTools \ {"config"}
      BY <2>1, FirstCall, Tool DEF OwnCalls
    <3>3. o \in {"answer", "nothing", "empty", "unusable"}
      BY OutcomeNames
    <3>4. Contains(calls, "clean?") \/ (tool[t] \in {"generate_labels", "add_docs"} /\ calls = <<>>)
      BY <2>3, <3>2, <3>3, EpilogueList
    <3> HIDE DEF calls
    <3>. QED
      BY <3>1, <3>4 DEF Unclean, Ended
  <2>. QED
    BY <1>0, <1>6, <2>3, <2>4, <2>5, <2>6, <2>7 DEF Think
<1>7. CASE Clean(t) /\ ~Open(t) /\ ~Announce(t)
  BY <1>0, <1>7 DEF Clean
<1>8. CASE GetLabels(t) \/ PutLabels(t)
  <2>1. Continue(t) /\ pc[t] = "running" /\ \E call : Calls(t, call) /\ call \notin {"clean?", "think", "announce"}
    BY <1>8 DEF GetLabels, PutLabels, Calls
  <2>. QED
    BY <1>4, <2>1 DEF Open, Announce, Calls
<1>9. CASE Publish(t) \/ Say(t) \/ Suggest(t) \/ Push(t) \/ Review(t)
  <2>1. Continue(t) /\ pc[t] = "running" /\ \E call : Calls(t, call) /\ call \notin {"clean?", "think", "announce"}
    BY <1>0, <1>9 DEF Publish, Say, Suggest, Push, Review, Calls
  <2>. QED
    BY <1>4, <2>1 DEF Open, Announce, Calls
<1>. QED
  BY <1>1, <1>2, <1>5, <1>6, <1>7, <1>8, <1>9 DEF Step

LEMMA LitterStable ==
  ASSUME TypeOK, TodoInv, LitterInv, [Next]_vars
  PROVE  LitterInv'
<1>1. CASE UNCHANGED <<tool, todo, pc, thread, failures>>
  BY <1>1 DEF LitterInv
<1>2. ASSUME NEW t \in Tasks, Step(t) PROVE LitterInv'
  <2>1. failures' = 0 => failures = 0
    <3>1. failures \in Nat /\ failures' \in Nat /\ failures <= failures'
      BY <1>2, CountersStable, ToolSessionsAssumption DEF Next, TypeOK
    <3>. QED
      BY <3>1
  <2>2. tool' = tool
    BY <1>2, StepConstant
  <2>3. pc'[t] # "idle"
    BY <1>2, StepTodo DEF TodoEffect, Ended
  <2>4. Contains(todo'[t], "think") => <<"answer", t>> \notin thread'
    BY <1>2, Silent
  <2>5. <<"temporary", t>> \in thread' /\ failures' = 0 =>
          /\ tool[t] \in Announcers
          /\ \/ Contains(todo'[t], "clean?")
             \/ todo'[t] = <<"think">>
             \/ /\ pc'[t] \in Ended /\ tool[t] \in Unclean(pc'[t])
                /\ <<"answer", t>> \notin thread'
    BY <1>2, <2>1, Announced
  <2>6. \A u \in Tasks \ {t} : todo'[u] = todo[u] /\ pc'[u] = pc[u]
    BY <1>2, FreshOther
  <2>7. \A u \in Tasks \ {t} : /\ <<"temporary", u>> \in thread' <=> <<"temporary", u>> \in thread
                               /\ <<"answer", u>> \in thread' <=> <<"answer", u>> \in thread
    BY <1>2, ThreadEffect
  <2>. QED
    BY <2>1, <2>2, <2>3, <2>4, <2>5, <2>6, <2>7 DEF LitterInv
<1>3. CASE UNCHANGED vars
  BY <1>1, <1>3 DEF vars
<1>. QED
  BY <1>1, <1>2, <1>3, NextCases, PeopleConstant

-----------------------------------------------------------------------------
(* The title and the description. *)

Plain(x) == x \in Seq(Words)

\* What the markers leave once the answer has replaced them.
Unmarked(x) == "markers" \in option /\ x \in Seq(Blocks \ {"marker"})

\* A description is the author's or was made of a text of the author's; so is
\* what a command reads of it, which with markers has one if it is published.
PlainInv ==
  /\ Plain(people.text)
  /\ \/ Plain(pr.text) \/ Unmarked(pr.text)
     \/ "markers" \notin option /\ \E v \in Seq(Words) : pr.text = Description(v)
  /\ \A t \in Tasks : Plain(seen[t].text) \/ Unmarked(seen[t].text)
  /\ \A t \in Tasks : Contains(todo[t], "publish") /\ "markers" \in option
                      => Contains(seen[t].text, "marker")

\* What is there, and what a command has read, is what the author last wrote.
KeptInv ==
  ~Contains(people.text, "section") =>
    /\ pr.title = people.title
    /\ pr.text = people.text \/ pr.text = Description(people.text)
    /\ \A t \in Tasks : Fresh(t, "text") =>
         /\ seen[t].title = people.title
         /\ seen[t].text = people.text \/ Unmarked(seen[t].text)

LEMMA SameOption ==
  ASSUME [Next]_vars
  PROVE  \A x : Unmarked(x)' = Unmarked(x) /\ Description(x)' = Description(x)
<1>1. option' = option
  BY Constant
<1>. QED
  BY <1>1 DEF Unmarked, Description

\* Of what is there a command reads the author's text, or one without markers.
LEMMA Reading ==
  ASSUME TypeOK, PlainInv
  PROVE  /\ Plain(UserDescription(pr.text)) \/ Unmarked(UserDescription(pr.text))
         /\ KeptInv /\ ~Contains(people.text, "section") =>
              \/ UserDescription(pr.text) = people.text
              \/ Unmarked(UserDescription(pr.text))
<1>0. Words \subseteq Blocks /\ Blocks \ {"marker"} \subseteq Blocks
  BY DEF Blocks
<1>1. Plain(pr.text) => Plain(UserDescription(pr.text))
  BY <1>0, UserDescriptionType DEF Plain
<1>2. Unmarked(pr.text) => Unmarked(UserDescription(pr.text))
  BY <1>0, UserDescriptionType DEF Unmarked
<1>3. ASSUME "markers" \notin option, NEW v \in Seq(Words), pr.text = Description(v)
      PROVE  Plain(UserDescription(pr.text))
  BY <1>3, UserDescriptionMade DEF Plain
<1>4. Plain(UserDescription(pr.text)) \/ Unmarked(UserDescription(pr.text))
  BY <1>1, <1>2, <1>3 DEF PlainInv
<1>5. ASSUME KeptInv, ~Contains(people.text, "section")
      PROVE  \/ UserDescription(pr.text) = people.text
             \/ Unmarked(UserDescription(pr.text))
  <2>0. people.text \in Seq(Words)
    BY DEF PlainInv, Plain
  <2>1. CASE pr.text = people.text
    BY <1>5, <2>0, <2>1, UserDescriptionPlain
  <2>2. CASE pr.text = Description(people.text) /\ "markers" \notin option
    BY <1>5, <2>0, <2>2, UserDescriptionMade
  <2>3. CASE pr.text = Description(people.text) /\ "markers" \in option
    <3>1. people.text \in Seq(Blocks)
      BY <1>0, <2>0
    <3>2. Unmarked(pr.text)
      BY <2>3, <3>1, MadeOfMarkers DEF Unmarked
    <3>. QED
      BY <1>2, <3>2
  <2>. QED
    BY <1>5, <2>1, <2>2, <2>3 DEF KeptInv
<1>. QED
  BY <1>4, <1>5

\* What is published is the author's text.
LEMMA Published ==
  ASSUME TypeOK, TodoInv, PlainInv, NEW t \in Tasks, Calls(t, "publish")
  PROVE  /\ seen[t].text \in Seq(Words) /\ ~Unmarked(seen[t].text)
         /\ "text" \in Fields(t) /\ pc[t] = "running"
<1>1. "publish" \in OwnCalls(t) /\ Contains(todo[t], "publish")
  BY FirstCall
<1>2. "markers" \in option => Contains(seen[t].text, "marker")
  BY <1>1 DEF PlainInv
<1>3. ~Unmarked(seen[t].text)
  <2>1. SUFFICES ASSUME Unmarked(seen[t].text) PROVE FALSE
    OBVIOUS
  <2>2. Contains(seen[t].text, "marker") /\ seen[t].text \in Seq(Blocks \ {"marker"})
    BY <1>2, <2>1 DEF Unmarked
  <2>. QED
    BY <2>2, SeqContains
<1>. QED
  BY <1>1, <1>3 DEF PlainInv, Plain, OwnCalls, Calls

\* The list of calls gets to publish once the model has answered.
LEMMA ToPublish ==
  ASSUME TypeOK, TodoInv, NEW t \in Tasks, Step(t), Contains(todo'[t], "publish"), "markers" \in option
  PROVE  Contains(todo[t], "publish") \/ Contains(seen[t].text, "marker")
<1>0. TodoEffect(t)
  BY StepTodo
<1>1. CASE todo'[t] = <<>>
  BY <1>1, NoCalls
<1>2. CASE todo[t] # <<>> /\ todo'[t] = Tail(todo[t])
  <2>1. todo[t] \in Seq(OwnCalls(t))
    BY DEF TodoInv
  <2>. QED
    BY <1>2, <2>1, TailContains
<1>3. CASE todo'[t] = <<"say">>
  BY <1>3, OneCall
<1>4. CASE todo'[t] \in Prologue(t) \cup Unasked(t)
  BY <1>4, Tool, PrologueList
<1>5. CASE /\ Calls(t, "think") /\ Tail(todo[t]) = <<>>
           /\ \E o \in Outcomes(t), ls \in Answers(t) : todo'[t] = Epilogue(t, o, ls)
  <2>1. PICK o \in Outcomes(t), ls \in Answers(t) : todo'[t] = Epilogue(t, o, ls)
    BY <1>5
  <2>2. tool[t] \in AllTools \ {"config"}
    BY <1>5, FirstCall, Tool DEF OwnCalls
  <2>3. o \in {"answer", "nothing", "empty", "unusable"}
    BY OutcomeNames
  <2>4. o # "empty" /\ "text" \in Fields(t)
    BY <2>1, <2>2, <2>3, EpilogueList
  <2>5. tool[t] \in {"describe", "auto_describe"}
    BY <2>4 DEF Fields
  <2>. QED
    BY <2>1, <2>4, <2>5 DEF Outcomes
<1>. QED
  BY <1>0, <1>1, <1>2, <1>3, <1>4, <1>5 DEF TodoEffect

LEMMA PlainStable ==
  ASSUME TypeOK, TodoInv, PlainInv, [Next]_vars
  PROVE  PlainInv'
<1>0. /\ pr \in PullRequest /\ people \in PullRequest /\ seen \in [Tasks -> PullRequest]
      /\ option' = option /\ Plain(people.text)
      /\ \A x : Description(x)' = Description(x) /\ Unmarked(x)' = Unmarked(x)
  BY Constant, SameOption DEF TypeOK, PlainInv
<1> DEFINE Whole(x) == \/ Plain(x) \/ Unmarked(x)
                       \/ "markers" \notin option /\ \E v \in Seq(Words) : x = Description(v)
           Read(t, x) == Plain(x) \/ Unmarked(x)
<1>1. ASSUME Plain(people'.text), Whole(pr'.text),
             \A t \in Tasks : Plain(seen'[t].text) \/ Unmarked(seen'[t].text),
             \A t \in Tasks : Contains(todo'[t], "publish") /\ "markers" \in option
                              => Contains(seen'[t].text, "marker")
      PROVE  PlainInv'
  <2>1. Unmarked(pr.text)' <=> Unmarked(pr'.text)
    BY <1>0 DEF Unmarked
  <2>2. \A t \in Tasks : Unmarked(seen[t].text)' <=> Unmarked(seen'[t].text)
    BY <1>0 DEF Unmarked
  <2>3. (\E v \in Seq(Words) : pr.text = Description(v))' <=> \E v \in Seq(Words) : pr'.text = Description(v)
    BY <1>0
  <2>. QED
    BY <1>0, <1>1, <2>1, <2>2, <2>3 DEF PlainInv, Plain
<1>2. CASE UNCHANGED <<pr, people, seen, todo>>
  BY <1>0, <1>1, <1>2 DEF PlainInv
<1>3. CASE PeopleStep
  <2>1. seen' = seen /\ todo' = todo
    BY <1>3, PeopleConstant
  <2>2. Plain(people'.text) /\ Whole(pr'.text)
    <3>1. ASSUME NEW title, NEW text, Rewrite(title, text), Plain(text)
          PROVE  Plain(people'.text) /\ Whole(pr'.text)
      <4>1. people'.text = text /\ pr'.text = text
        BY <1>0, <3>1 DEF Rewrite, PullRequest
      <4>. QED
        BY <3>1, <4>1
    <3>2. \A text \in Texts : Plain(text)
      BY ToolSessionsAssumption DEF Plain
    <3>3. ASSUME (\E l \in UserLabels : AddLabel(l)) \/ AddEntry
          PROVE  people'.text = people.text /\ pr'.text = pr.text
      BY <1>0, <3>3 DEF AddLabel, AddEntry, PullRequest
    <3>. QED
      BY <1>0, <1>3, <3>1, <3>2, <3>3 DEF PeopleStep, PlainInv
  <2> HIDE DEF Whole
  <2>. QED
    BY <1>1, <2>1, <2>2 DEF PlainInv
<1>4. ASSUME NEW t \in Tasks, Step(t) PROVE PlainInv'
  <2>1. \A u \in Tasks \ {t} : seen'[u] = seen[u] /\ todo'[u] = todo[u]
    BY <1>4, FreshOther
  <2>2. Plain(seen[t].text) \/ Unmarked(seen[t].text)
    BY DEF PlainInv
  <2>3. CASE Open(t)
    <3>1. pr' = pr /\ people' = people
      BY <2>3 DEF Open
    <3>2. Plain(seen'[t].text) \/ Unmarked(seen'[t].text)
      <4>1. CASE seen' = [seen EXCEPT ![t] = Snapshot(t)]
        <5>1. seen'[t].text = IF "text" \in Fields(t) THEN UserDescription(pr.text) ELSE <<>>
          BY <1>0, <4>1 DEF Snapshot
        <5>2. Plain(<<>>)
          BY DEF Plain
        <5>. QED
          BY <5>1, <5>2, Reading
      <4>2. CASE seen' = [seen EXCEPT ![t] = Unread]
        BY <1>0, <4>2 DEF Unread, Plain
      <4>3. CASE seen' = seen
        BY <2>2, <4>3
      <4>. QED
        BY <2>3, <4>1, <4>2, <4>3 DEF Open
    <3>3. ~Contains(todo'[t], "publish")
      <4>1. TodoEffect(t) /\ pc[t] = "idle"
        BY <1>4, <2>3, StepTodo DEF Open
      <4>2. CASE todo'[t] = <<>>
        BY <4>2, NoCalls
      <4>3. CASE todo'[t] \in Prologue(t) \cup Unasked(t)
        BY <4>3, Tool, PrologueList
      <4>. QED
        BY <4>1, <4>2, <4>3 DEF TodoEffect, Calls
    <3>. QED
      BY <1>1, <2>1, <3>1, <3>2, <3>3 DEF PlainInv
  <2>4. ASSUME ~Open(t) PROVE seen'[t].text = seen[t].text
    <3>1. CASE GetLabels(t)
      <4>1. \E ls : seen' = [seen EXCEPT ![t].labels = ls]
        BY <3>1 DEF GetLabels
      <4>. QED
        BY <1>0, <4>1 DEF PullRequest
    <3>2. CASE ~GetLabels(t)
      BY <1>4, <2>4, <3>2, FreshSelf
    <3>. QED
      BY <3>1, <3>2
  <2>5. ASSUME ~Open(t), Plain(people'.text), Whole(pr'.text) PROVE PlainInv'
    <3>1. Contains(todo'[t], "publish") /\ "markers" \in option => Contains(seen'[t].text, "marker")
      BY <1>4, <2>4, <2>5, ToPublish DEF PlainInv
    <3> HIDE DEF Whole
    <3>. QED
      BY <1>1, <2>1, <2>2, <2>4, <2>5, <3>1 DEF PlainInv
  <2>6. CASE Publish(t) /\ ~Open(t) /\ ~(pr' = pr /\ people' = people)
    <3>1. seen[t].text \in Seq(Words)
      BY <2>6, Published DEF Publish
    <3>2. pr'.text = Description(seen[t].text)
      BY <1>0, <2>6 DEF Publish, PullRequest
    <3>3. people'.text = people.text \/ people'.text = seen[t].text
      BY <1>0, <2>6 DEF Publish, PullRequest
    <3>4. Whole(pr'.text)
      <4>1. CASE "markers" \in option
        <5>1. seen[t].text \in Seq(Blocks)
          BY <3>1 DEF Blocks
        <5>2. Unmarked(pr'.text)
          BY <3>2, <4>1, <5>1, MadeOfMarkers DEF Unmarked
        <5>. QED
          BY <5>2
      <4>2. CASE "markers" \notin option
        BY <3>1, <3>2, <4>2
      <4>. QED
        BY <4>1, <4>2
    <3> HIDE DEF Whole
    <3>. QED
      BY <1>0, <2>5, <2>6, <3>1, <3>3, <3>4 DEF Plain
  <2>7. CASE ~Open(t) /\ (~Publish(t) \/ (pr' = pr /\ people' = people))
    <3>1. people'.text = people.text /\ pr'.text = pr.text
      BY <1>0, <1>4, <2>7, StepCases DEF Quiet, GetLabels, PutLabels, Push, PullRequest
    <3>. QED
      BY <2>5, <2>7, <3>1 DEF PlainInv
  <2>. QED
    BY <2>3, <2>6, <2>7
<1>. QED
  BY <1>2, <1>3, <1>4, NextCases DEF vars

LEMMA KeptStable ==
  ASSUME TypeOK, TodoInv, PlainInv, KeptInv, [Next]_vars
  PROVE  KeptInv'
<1>0. /\ pr \in PullRequest /\ people \in PullRequest /\ seen \in [Tasks -> PullRequest]
      /\ option' = option
      /\ \A x : Description(x)' = Description(x) /\ Unmarked(x)' = Unmarked(x)
  BY Constant, SameOption DEF TypeOK
<1>1. ASSUME ~Contains(people'.text, "section") =>
               /\ pr'.title = people'.title
               /\ pr'.text = people'.text \/ pr'.text = Description(people'.text)
               /\ \A t \in Tasks : Fresh(t, "text")' =>
                    /\ seen'[t].title = people'.title
                    /\ seen'[t].text = people'.text \/ Unmarked(seen'[t].text)
      PROVE  KeptInv'
  <2>1. \A t \in Tasks : Unmarked(seen[t].text)' <=> Unmarked(seen'[t].text)
    BY <1>0 DEF Unmarked
  <2>2. Description(people.text)' = Description(people'.text)
    BY <1>0 DEF Description
  <2>. QED
    BY <1>1, <2>1, <2>2 DEF KeptInv
<1>2. ASSUME pr'.title = pr.title, pr'.text = pr.text, people'.title = people.title, people'.text = people.text,
             \A t \in Tasks : ~Contains(people.text, "section") /\ KeptInv /\ Fresh(t, "text")' =>
                    /\ seen'[t].title = people.title
                    /\ seen'[t].text = people.text \/ Unmarked(seen'[t].text)
      PROVE  KeptInv'
  BY <1>1, <1>2 DEF KeptInv
<1>3. CASE UNCHANGED vars
  <2>1. \A t \in Tasks : Fresh(t, "text")' <=> Fresh(t, "text")
    BY <1>3 DEF vars, Fresh, Fields
  <2>2. pr' = pr /\ people' = people /\ seen' = seen
    BY <1>3 DEF vars
  <2>. QED
    BY <1>2, <2>1, <2>2 DEF KeptInv
<1>4. CASE PeopleStep
  <2>1. ASSUME NEW title, NEW text, Rewrite(title, text), \A u \in Tasks : ~Fresh(u, "text")'
        PROVE  KeptInv'
    <3>1. people'.text = text /\ pr'.text = text /\ people'.title = title /\ pr'.title = title
      BY <1>0, <2>1 DEF Rewrite, PullRequest
    <3>. QED
      BY <1>1, <2>1, <3>1
  <2>2. CASE \E text \in Texts : Rewrite(people.title, text)
    BY <1>4, <2>1, <2>2, FreshPeople
  <2>3. CASE Rewrite(people.title + 1, people.text)
    BY <1>4, <2>1, <2>3, FreshPeople
  <2>4. CASE (\E l \in UserLabels : AddLabel(l)) \/ AddEntry
    <3>1. /\ pr'.title = pr.title /\ pr'.text = pr.text
          /\ people'.title = people.title /\ people'.text = people.text
      BY <1>0, <2>4 DEF AddLabel, AddEntry, PullRequest
    <3>2. seen' = seen /\ \A u \in Tasks : Fresh(u, "text")' => Fresh(u, "text")
      BY <1>4, FreshPeople, PeopleConstant
    <3>. QED
      BY <1>2, <3>1, <3>2 DEF KeptInv
  <2>. QED
    BY <1>4, <2>2, <2>3, <2>4 DEF PeopleStep
<1>5. ASSUME NEW t \in Tasks, Step(t),
             pr'.title = pr.title, pr'.text = pr.text, people'.title = people.title, people'.text = people.text
      PROVE  KeptInv'
  <2>1. ASSUME NEW u \in Tasks \ {t}, ~Contains(people.text, "section"), Fresh(u, "text")'
        PROVE  /\ seen'[u].title = people.title
               /\ seen'[u].text = people.text \/ Unmarked(seen'[u].text)
    <3>1. Fresh(u, "text") /\ seen'[u] = seen[u]
      BY <1>5, <2>1, FreshOther
    <3>. QED
      BY <2>1, <3>1 DEF KeptInv
  <2>2. ASSUME ~Contains(people.text, "section"), Fresh(t, "text")'
        PROVE  /\ seen'[t].title = people.title
               /\ seen'[t].text = people.text \/ Unmarked(seen'[t].text)
    <3>1. CASE Open(t)
      <4>1. "text" \in Fields(t) /\ ~GiveUp(t)
        <5>1. GiveUp(t) => pc'[t] # "running"
          BY GiveUpEffect
        <5>. QED
          BY <2>2, <5>1, Constant DEF Fresh
      <4>2. tool[t] # "update_changelog"
        BY <4>1, ToolFields
      <4>3. seen' = [seen EXCEPT ![t] = Snapshot(t)]
        BY <3>1, <4>1, <4>2 DEF Open
      <4>4. seen'[t].title = pr.title /\ seen'[t].text = UserDescription(pr.text)
        BY <1>0, <4>1, <4>3 DEF Snapshot
      <4>. QED
        BY <2>2, <4>4, Reading DEF KeptInv
    <3>2. CASE GetLabels(t)
      <4>1. /\ Calls(t, "get_labels?") /\ \E ls : seen' = [seen EXCEPT ![t].labels = ls]
            /\ stale \ {<<t, "labels">>} \subseteq stale'
        BY <3>2 DEF GetLabels
      <4>2. seen'[t].title = seen[t].title /\ seen'[t].text = seen[t].text
        BY <1>0, <4>1 DEF PullRequest
      <4>3. Fresh(t, "text")
        BY <2>2, <4>1, Constant DEF Fresh, Calls
      <4>. QED
        BY <2>2, <4>2, <4>3 DEF KeptInv
    <3>3. CASE ~Open(t) /\ ~GetLabels(t)
      <4>1. Fresh(t, "text") /\ seen'[t] = seen[t]
        BY <1>5, <2>2, <3>3, FreshSelf
      <4>. QED
        BY <2>2, <4>1 DEF KeptInv
    <3>. QED
      BY <3>1, <3>2, <3>3
  <2>3. \A u \in Tasks : ~Contains(people.text, "section") /\ KeptInv /\ Fresh(u, "text")' =>
                    /\ seen'[u].title = people.title
                    /\ seen'[u].text = people.text \/ Unmarked(seen'[u].text)
    BY <2>1, <2>2
  <2>. QED
    BY <1>2, <1>5, <2>3
<1>6. ASSUME NEW t \in Tasks, Step(t), Publish(t), ~(pr' = pr /\ people' = people)
      PROVE  KeptInv'
  <2> DEFINE text == seen[t].text
  <2>1. /\ Calls(t, "publish") /\ seen' = seen
        /\ pr' = [pr EXCEPT !.title = seen[t].title, !.text = Description(text)]
        /\ people' = IF <<t, "text">> \in stale
                     THEN [people EXCEPT !.title = pr'.title, !.text = text] ELSE people
        /\ stale' = stale \cup (Outdated("text") \ {<<t, "text">>})
    BY <1>6 DEF Publish
  <2>2. ~Unmarked(text) /\ "text" \in Fields(t) /\ pc[t] = "running"
    BY <2>1, Published
  <2>3. \A u \in Tasks \ {t} : ~Fresh(u, "text")'
    <3>1. SUFFICES ASSUME NEW u \in Tasks \ {t} PROVE ~Fresh(u, "text")'
      OBVIOUS
    <3>2. pc'[u] = pc[u] /\ Fields(u)' = Fields(u)
      BY <1>6, FreshOther, Constant
    <3>3. <<u, "text">> \in Outdated("text") => <<u, "text">> \in stale'
      BY <2>1
    <3>. QED
      BY <3>2, <3>3, FreshWritten
  <2> HIDE DEF text
  <2>4. pr'.title = seen[t].title /\ pr'.text = Description(text)
    BY <1>0, <2>1 DEF PullRequest
  <2>5. CASE <<t, "text">> \in stale
    <3>1. people'.title = pr'.title /\ people'.text = text
      BY <1>0, <2>1, <2>5 DEF PullRequest
    <3>2. ~Fresh(t, "text")'
      BY <2>1, <2>5 DEF Fresh
    <3>. QED
      BY <1>1, <2>3, <2>4, <3>1, <3>2
  <2>6. CASE <<t, "text">> \notin stale
    <3>1. people' = people
      BY <2>1, <2>6
    <3>2. Fresh(t, "text")
      BY <2>2, <2>6 DEF Fresh
    <3>3. ~Contains(people.text, "section") => seen[t].title = people.title /\ text = people.text
      BY <2>2, <3>2 DEF KeptInv, text
    <3>4. ~Contains(people'.text, "section") =>
               /\ pr'.title = people'.title
               /\ pr'.text = people'.text \/ pr'.text = Description(people'.text)
               /\ seen'[t].title = people'.title
               /\ seen'[t].text = people'.text
      BY <2>1, <2>4, <3>1, <3>3 DEF text
    <3>. QED
      BY <1>1, <2>3, <3>4
  <2>. QED
    BY <2>5, <2>6
<1>7. ASSUME NEW t \in Tasks, Step(t) PROVE KeptInv'
  <2>1. CASE Publish(t) /\ ~(pr' = pr /\ people' = people)
    BY <1>6, <1>7, <2>1
  <2>2. CASE ~Publish(t) \/ (pr' = pr /\ people' = people)
    <3>1. /\ pr'.title = pr.title /\ pr'.text = pr.text
          /\ people'.title = people.title /\ people'.text = people.text
      BY <1>0, <1>7, <2>2, StepCases DEF Quiet, Open, GetLabels, PutLabels, Push, PullRequest
    <3>. QED
      BY <1>5, <1>7, <3>1
  <2>. QED
    BY <2>1, <2>2
<1>. QED
  BY <1>3, <1>4, <1>7, NextCases

-----------------------------------------------------------------------------
(* The theorems. *)

IInv ==
  TypeOK /\ TitleInv /\ TodoInv /\ LabelsInv /\ ChangelogInv /\ LitterInv /\ PlainInv /\ KeptInv

LEMMA InitIInv == Init => IInv
<1>. SUFFICES ASSUME Init PROVE IInv
  OBVIOUS
<1>0. /\ MaxEdits \in Nat /\ MaxFailures \in Nat /\ People \notin Tasks
      /\ Texts \subseteq Seq(Words)
  BY ToolSessionsAssumption
<1>1. PICK text \in Texts :
        pr = [title |-> 0, text |-> text, labels |-> {}, changelog |-> <<People>>]
  BY DEF Init
<1>2. /\ people = pr /\ pr.title = 0 /\ pr.text = text /\ pr.labels = {}
      /\ pr.changelog = <<People>> /\ text \in Seq(Words)
  BY <1>0, <1>1 DEF Init
<1>3. pr \in PullRequest /\ Unread \in PullRequest
  <2>1. text \in Seq(Words \cup Headings) /\ <<People>> \in Seq(Tasks \cup {People}) /\ 0 \in 0..MaxEdits
    BY <1>0, <1>2
  <2>. QED
    BY <1>1, <2>1 DEF PullRequest, Unread
<1>4. \A t \in Tasks : todo[t] = <<>> /\ pc[t] = "idle" /\ seen[t] = Unread
  BY DEF Init
<1>5. TypeOK
  BY <1>0, <1>2, <1>3 DEF Init, TypeOK, Ended
<1>6. TitleInv
  BY <1>2, <1>4 DEF Init, TitleInv, Unread
<1>7. TodoInv
  <2>1. todo \in [Tasks -> Seq(AllCalls)]
    BY DEF Init
  <2>. QED
    BY <1>4, <2>1, NoCalls DEF TodoInv
<1>8. \A t \in Tasks : \A field : ~Fresh(t, field)
  BY <1>4 DEF Fresh
<1>9. LabelsInv
  BY <1>2, <1>8 DEF LabelsInv
<1>10. ChangelogInv
  <2>1. <<People>> = <<People>> \o <<>> /\ <<>> \in Seq(Tasks \cup {People})
    OBVIOUS
  <2>2. Block(<<People>> \o <<>>, {People}) = <<People>> \o Block(<<>>, {People})
    BY <2>1, Entries
  <2>3. Block(<<People>>, {People}) = <<People>>
    BY <2>1, <2>2, BlockEmpty
  <2>. QED
    BY <1>2, <1>8, <2>3 DEF ChangelogInv
<1>11. LitterInv
  BY <1>4, NoCalls DEF LitterInv, Init
<1>12. PlainInv
  <2>1. Plain(people.text) /\ Plain(pr.text)
    BY <1>2 DEF Plain
  <2>2. \A t \in Tasks : Plain(seen[t].text)
    <3>1. Plain(<<>>) /\ Unread.text = <<>>
      BY DEF Unread, Plain
    <3>. QED
      BY <1>4, <3>1
  <2>3. \A t \in Tasks : ~Contains(todo[t], "publish")
    BY <1>4, NoCalls
  <2>. QED
    BY <2>1, <2>2, <2>3 DEF PlainInv
<1>13. KeptInv
  BY <1>2, <1>8 DEF KeptInv
<1>. QED
  BY <1>5, <1>6, <1>7, <1>9, <1>10, <1>11, <1>12, <1>13 DEF IInv

LEMMA IInvNext == IInv /\ [Next]_vars => IInv'
BY TypeStable, TodoStable, LabelsStable, ChangelogStable, LitterStable, PlainStable, KeptStable DEF IInv

LEMMA IInvAlways == Spec => []IInv
BY InitIInv, IInvNext, PTL DEF Spec

\* Every field keeps to its values, and a command that has ended has no calls
\* left to make: the lists of calls of the nine tools, whatever is asked and
\* answered and whichever call fails (pr_insight/tools).
THEOREM TypesHold == Spec => []TypeOK
<1>1. IInv => TypeOK
  BY DEF IInv
<1>. QED
  BY <1>1, IInvAlways, PTL

\* No command takes off a label that people put or an entry of the changelog
\* that they wrote, but for what was put there after it read them or could not
\* be read, for any number of commands and of changes: what is replaced as a
\* whole is what was read (pr_description.py:160-167, pr_update_changelog.py:146-152).
THEOREM OthersWorkHolds == Spec => []OthersWork
<1>1. IInv => OthersWork
  BY DEF IInv, OthersWork, LabelsInv, ChangelogInv
<1>. QED
  BY <1>1, IInvAlways, PTL

\* A command that has ended without a failed call leaves no "Preparing ..."
\* comment behind, unless the model's answer brought it to no result and the tool
\* is one of those that return then without cleaning up (pr_generate_labels.py:81,
\* pr_add_docs.py:61) or whose handling of an unusable answer raises
\* (pr_description.py:450 and 565, caught at 197; pr_generate_labels.py:163-167,
\* caught at 99).
THEOREM NoLitterHolds == Spec => []NoLitter
<1>1. ASSUME IInv PROVE NoLitter
  <2>1. SUFFICES ASSUME NEW t \in Tasks, pc[t] \in Ended, <<"temporary", t>> \in thread, failures = 0
                 PROVE  <<"answer", t>> \notin thread /\ tool[t] \in Unclean(pc[t])
    BY DEF NoLitter, Unclean
  <2>2. todo[t] = <<>>
    BY <1>1, <2>1 DEF IInv, TypeOK, Ended
  <2>3. ~Contains(todo[t], "clean?") /\ todo[t] # <<"think">>
    BY <2>2, NoCalls, OneCall
  <2>. QED
    BY <1>1, <2>1, <2>3 DEF IInv, LitterInv
<1>2. IInv => NoLitter
  BY <1>1
<1>. QED
  BY <1>2, IInvAlways, PTL

\* However often, and by however many commands at once, a pull request is
\* described, its title and what the author wrote of its description stay as the
\* author last wrote them and there is one generated part at most, unless the
\* author wrote while a description was being made, or under a heading of the
\* tool's (git_provider.py:219-263, pr_description.py:107-197).
THEOREM AuthorsTextHolds == Spec => []AuthorsText
<1>1. ASSUME IInv PROVE AuthorsText
  <2>1. SUFFICES ASSUME ~Contains(people.text, "section")
                 PROVE  /\ pr.title = people.title
                        /\ Block(pr.text, Words \ {"marker"}) = Block(people.text, Words \ {"marker"})
                        /\ "markers" \notin option => Len(Block(pr.text, {"answer"})) <= 1
    BY DEF AuthorsText
  <2>2. /\ pr.title = people.title /\ people.text \in Seq(Words)
        /\ pr.text = people.text \/ pr.text = Description(people.text)
    BY <1>1, <2>1 DEF IInv, KeptInv, PlainInv, Plain
  <2>3. CASE pr.text = people.text
    <3>1. Words \cap {"answer"} = {}
      BY DEF Words
    <3>2. Block(people.text, {"answer"}) = <<>>
      BY <2>2, <3>1, BlockNone
    <3>3. Len(<<>>) <= 1
      OBVIOUS
    <3>. QED
      BY <2>2, <2>3, <3>2, <3>3
  <2>4. CASE pr.text = Description(people.text)
    <3>1. /\ Block(pr.text, Words \ {"marker"}) = Block(people.text, Words \ {"marker"})
          /\ "markers" \notin option => Len(Block(pr.text, {"answer"})) = 1
      BY <2>2, <2>4, MadeBlocks
    <3>2. ASSUME "markers" \notin option PROVE Len(Block(pr.text, {"answer"})) <= 1
      <4> DEFINE n == Len(Block(pr.text, {"answer"}))
      <4>1. n = 1
        BY <3>1, <3>2
      <4> HIDE DEF n
      <4>2. n <= 1
        BY <4>1
      <4>. QED
        BY <4>2 DEF n
    <3>. QED
      BY <2>2, <3>1, <3>2
  <2>. QED
    BY <2>2, <2>3, <2>4
<1>2. IInv => AuthorsText
  BY <1>1
<1>. QED
  BY <1>2, IInvAlways, PTL
=============================================================================
