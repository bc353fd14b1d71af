--------------------------- MODULE ProvidersProofs ---------------------------
(***************************************************************************)
(* Proofs about Providers, for any commands, services, suggestions, labels *)
(* and changes of the diff, any number of fallback models, and any number  *)
(* of people's changes and failed calls.                                   *)
(***************************************************************************)
EXTENDS Providers, FiniteSetTheorems, FunctionTheorems, SequenceTheorems,
        WellFoundedInduction, TLAPS

\* Calls that are about no suggestion, and the calls that publish suggestions:
\* one of them, or, on Gerrit, all.
Plain ==
  {"start", "diff", "think", "temporary", "progress", "edit_progress", "say", "say_failed",
   "clean", "remove_progress", "delete", "list", "edit", "update", "review",
   "get_labels", "put_labels", "describe", "title", "body", "upload"}
Posting == {"post", "single", "note", "patches"}
AllCalls ==
  (Plain \X (Suggested \cup {None} \cup Nat))
  \cup ((Posting \ {"patches"}) \X Suggested) \cup {Op("patches")}
Kinds == {"temporary", "progress", "said", "review", "update"}
Revisions == [title : Nat, body : Nat, version : Nat]
Labels == UserLabels \cup Sessions

\* The variables but for what was read of the diff, of which DiffInv speaks.
TypeOK ==
  /\ service \in AllServices
  /\ tool \in [Sessions -> {"review", "describe", "improve"}]
  /\ answer \in [Sessions -> {"none", "answer", "empty", "error"}]
  /\ todo \in [Sessions -> Seq(AllCalls)]
  /\ read \in [Sessions -> [labels : SUBSET Labels, text : Revisions, note : Nat]]
  /\ thread \subseteq [id : 1..ids, kind : Kinds, by : Sessions]
  /\ posted \in [Sessions -> [Suggested -> Nat]]
  /\ labels \subseteq Labels
  /\ text \in Revisions
  /\ people \in [labels : SUBSET UserLabels, revision : Nat]
  /\ late \subseteq UserLabels \cup {"text", "together"}
  /\ ids \in Nat /\ edits \in Nat /\ failures \in Nat

\* What is to be done, and what of it after the next call.
Within(q) == {q[i] : i \in DOMAIN q}
Names(q) == {c[1] : c \in Within(q)}
Later(q) == IF q = <<>> THEN {} ELSE Names(Tail(q))

-----------------------------------------------------------------------------
\* Only /describe writes the description, and only CodeCommit's in two calls.
CourseInv ==
  \A s \in Sessions :
    /\ {"describe", "title", "body"} \cap Names(todo[s]) # {} => tool[s] = "describe"
    /\ {"title", "body"} \cap Names(todo[s]) # {} => On({"codecommit"})

-----------------------------------------------------------------------------
\* What a command read of people's labels and text is theirs, but for what they
\* did since; Bitbucket Server's version tells whether they did.
WorkInv ==
  \A s \in Sessions : Underway(s) =>
    /\ On({"gitlab"}) => people.labels \subseteq read[s].labels \cup late
    /\ \/ read[s].text.title = people.revision /\ read[s].text.body = people.revision
       \/ "text" \in late
    /\ On({"bitbucket_server"}) =>
         /\ read[s].text.version <= text.version
         /\ read[s].text.version = text.version =>
              /\ read[s].text.title = text.title
              /\ read[s].text.body = text.body

-----------------------------------------------------------------------------
\* Where a review replaces the previous one, it is published only after the list
\* had none, or a call failed.
ReviewInv ==
  /\ "together" \notin late =>
       \A s, t \in Sessions : Underway(s) /\ Underway(t) => s = t
  /\ On(Persisting) =>
       /\ IsFiniteSet(Reviews)
       /\ \A s \in Sessions : "review" \notin Later(todo[s])
       /\ "together" \notin late =>
            /\ Cardinality(Reviews) <= 1 + failures
            /\ \A s \in Sessions : Calls(s, "review") => Cardinality(Reviews) <= failures

-----------------------------------------------------------------------------
Preparing == {"temporary", "progress"}

\* A "Preparing ..." comment comes before all but the start, and of the two kinds
\* each command has one.
PrepareInv ==
  \A s \in Sessions :
    /\ Later(todo[s]) \cap (Preparing \cup {"start"}) = {}
    /\ Names(todo[s]) \cap Preparing # {} => "think" \in Later(todo[s])
    /\ "temporary" \in Names(todo[s]) => ~(tool[s] = "improve" /\ On(Markdown))
    /\ "progress" \in Names(todo[s]) => tool[s] = "improve" /\ On(Markdown)

\* The calls by which a command gets rid of its comment, or that lead to them.
Rids(kind) ==
  IF kind = "temporary" THEN {"think", "clean"}
  ELSE {"think", "remove_progress", "delete", "edit_progress"}

\* Where the code forgets it.
Forgotten(s) ==
  \/ answer[s] = "error" /\ (tool[s] # "improve" \/ On({"gitea", "azure"}))
  \/ answer[s] = "empty" /\ tool[s] = "improve" /\ ~On(Markdown)
  \/ On({"local"})

\* A comment of the command's that is on the pull request: its only one, of
\* which it will get rid.
Held(s, kind) ==
  /\ Names(todo[s]) \cap (Preparing \cup {"start"}) = {}
  /\ IF tool[s] = "improve" /\ On(Markdown) THEN kind = "progress" ELSE kind = "temporary"
  /\ ~On({"bitbucket_server", "codecommit", "gerrit"})
  /\ Names(todo[s]) \cap Rids(kind) # {} \/ Forgotten(s)

\* While no call fails, a command knows its comment.
LitterInv ==
  failures = 0 =>
    \A c \in thread : c.kind \in Preparing => c.id = read[c.by].note /\ Held(c.by, c.kind)

-----------------------------------------------------------------------------
\* How the suggestion x is to be published yet.
Way(n, x) == IF n = "patches" THEN Op(n) ELSE <<n, x>>
Ways(q, x) == {n \in Posting : Way(n, x) \in Within(q)}

\* No two calls that publish are the same.
Single(q) ==
  \A i, j \in DOMAIN q : q[i][1] \in Posting /\ q[i] = q[j] => i = j

\* Gerrit's comment comes after all uploads.
Ordered(q) == "upload" \in Names(q) => q # <<>> /\ q[Len(q)] = Op("patches")

\* Gerrit's batch has ended with none of the suggestions published.
Abandoned(q, p) ==
  /\ On({"gerrit"}) /\ Odd # {}
  /\ \A y \in Suggested : p[y] = 0 /\ Ways(q, y) = {}

Early == {"start", "diff", "think"}
Twice == IF On({"gitea"}) THEN 2 ELSE 1

\* The command s, with the calls q to make, the answer a and f failed calls so
\* far, has published every suggestion x p[x] times: every attempt that is still
\* to be made leaves room for itself in the bound.
Room(s, q, p, a, f) ==
  /\ Single(q) /\ Ordered(q)
  /\ Early \cap Names(q) # {} =>
       /\ a = "none"
       /\ Names(q) \cap Posting = {}
       /\ \A x \in Suggested : p[x] = 0
  /\ \A x \in Suggested :
       LET ways == Ways(q, x) IN
       /\ p[x] <= f + Twice
       /\ ways # {} => p[x] < f + Twice
       /\ IF On({"gitea"})
          THEN /\ ways \subseteq {"post", "single"}
               /\ ways = {"post", "single"} => p[x] <= f
          ELSE \A m, n \in ways : m = n
       /\ tool[s] = "improve" /\ a = "answer" /\ f = 0 /\ x \notin Odd /\ ~On({"local"})
          => p[x] >= 1 \/ ways # {} \/ Abandoned(q, p)

PostInv == \A s \in Sessions : Room(s, todo[s], posted[s], answer[s], failures)

-----------------------------------------------------------------------------
(* Lists of calls.  What matters of a list is what it holds, whether it      *)
(* holds a publication twice, and what is left of it after the next call.    *)

LEMMA WithinNil ==
  /\ Within(<<>>) = {} /\ Names(<<>>) = {} /\ Later(<<>>) = {} /\ Single(<<>>)
BY DEF Within, Names, Later, Single

LEMMA WithinTail ==
  ASSUME NEW q \in Seq(AllCalls), q # <<>>
  PROVE  /\ Head(q) \in AllCalls /\ Tail(q) \in Seq(AllCalls)
         /\ Within(q) = {Head(q)} \cup Within(Tail(q))
         /\ Single(q) => Single(Tail(q))
         /\ Single(q) /\ Head(q)[1] \in Posting => Head(q) \notin Within(Tail(q))
<1>1. /\ Head(q) = q[1] /\ Len(q) \in Nat /\ Len(q) >= 1 /\ DOMAIN q = 1..Len(q)
      /\ Len(Tail(q)) = Len(q) - 1 /\ Tail(q) \in Seq(AllCalls)
      /\ DOMAIN Tail(q) = 1..(Len(q) - 1)
      /\ \A i \in 1..(Len(q) - 1) : Tail(q)[i] = q[i + 1]
  OBVIOUS
<1>2. Within(q) = {Head(q)} \cup Within(Tail(q))
  <2>1. ASSUME NEW i \in DOMAIN q PROVE q[i] \in {Head(q)} \cup Within(Tail(q))
    <3>1. i = 1 \/ (i - 1 \in 1..(Len(q) - 1) /\ Tail(q)[i - 1] = q[i])
      BY <1>1
    <3>. QED
      BY <1>1, <3>1 DEF Within
  <2>2. ASSUME NEW i \in DOMAIN Tail(q) PROVE Tail(q)[i] \in Within(q)
    BY <1>1 DEF Within
  <2>3. Head(q) \in Within(q)
    BY <1>1 DEF Within
  <2>. QED
    BY <2>1, <2>2, <2>3 DEF Within
<1>3. Single(q) => Single(Tail(q))
  <2>1. ASSUME Single(q), NEW i \in DOMAIN Tail(q), NEW j \in DOMAIN Tail(q),
               Tail(q)[i][1] \in Posting, Tail(q)[i] = Tail(q)[j]
        PROVE  i = j
    <3>1. q[i + 1] = q[j + 1] /\ q[i + 1][1] \in Posting /\ i + 1 \in DOMAIN q /\ j + 1 \in DOMAIN q
      BY <1>1, <2>1
    <3>2. i + 1 = j + 1
      BY <2>1, <3>1 DEF Single
    <3>. QED
      BY <1>1, <3>2
  <2>. QED
    BY <2>1 DEF Single
<1>4. ASSUME Single(q), Head(q)[1] \in Posting, Head(q) \in Within(Tail(q)) PROVE FALSE
  <2>1. PICK i \in DOMAIN Tail(q) : Tail(q)[i] = Head(q)
    BY <1>4 DEF Within
  <2>2. q[i + 1] = q[1] /\ q[1][1] \in Posting /\ i + 1 \in DOMAIN q /\ 1 \in DOMAIN q
    BY <1>1, <1>4, <2>1
  <2>3. i + 1 = 1
    BY <1>4, <2>2 DEF Single
  <2>. QED
    BY <1>1, <2>3
<1>. QED
  BY <1>1, <1>2, <1>3, <1>4

LEMMA WithinConcat ==
  ASSUME NEW p \in Seq(AllCalls), NEW q \in Seq(AllCalls)
  PROVE  /\ p \o q \in Seq(AllCalls)
         /\ Within(p \o q) = Within(p) \cup Within(q)
         /\ /\ Single(p) /\ Single(q)
            /\ \A c \in Within(p) : c[1] \in Posting => c \notin Within(q)
            => Single(p \o q)
<1> DEFINE r == p \o q
<1>1. /\ Len(p) \in Nat /\ Len(q) \in Nat /\ DOMAIN p = 1..Len(p) /\ DOMAIN q = 1..Len(q)
      /\ r \in Seq(AllCalls) /\ DOMAIN r = 1..(Len(p) + Len(q))
      /\ \A i \in 1..(Len(p) + Len(q)) :
           r[i] = IF i <= Len(p) THEN p[i] ELSE q[i - Len(p)]
  OBVIOUS
<1> HIDE DEF r
<1>2. ASSUME NEW i \in DOMAIN r
      PROVE  \/ i \in DOMAIN p /\ r[i] = p[i]
             \/ i - Len(p) \in DOMAIN q /\ r[i] = q[i - Len(p)]
  BY <1>1
<1>3. Within(r) = Within(p) \cup Within(q)
  <2>1. ASSUME NEW i \in DOMAIN r PROVE r[i] \in Within(p) \cup Within(q)
    BY <1>2 DEF Within
  <2>2. ASSUME NEW i \in DOMAIN p PROVE p[i] \in Within(r)
    <3>1. i \in DOMAIN r /\ r[i] = p[i]
      BY <1>1
    <3>. QED
      BY <3>1 DEF Within
  <2>3. ASSUME NEW i \in DOMAIN q PROVE q[i] \in Within(r)
    <3>1. i + Len(p) \in DOMAIN r /\ r[i + Len(p)] = q[i]
      BY <1>1
    <3>. QED
      BY <3>1 DEF Within
  <2>. QED
    BY <2>1, <2>2, <2>3 DEF Within
<1>4. ASSUME Single(p), Single(q),
             \A c \in Within(p) : c[1] \in Posting => c \notin Within(q)
      PROVE  Single(r)
  <2>1. SUFFICES ASSUME NEW i \in DOMAIN r, NEW j \in DOMAIN r, r[i][1] \in Posting, r[i] = r[j]
                 PROVE  i = j
    BY DEF Single
  <2>2. CASE i \in DOMAIN p /\ r[i] = p[i] /\ j \in DOMAIN p /\ r[j] = p[j]
    BY <1>4, <2>1, <2>2 DEF Single
  <2>3. CASE /\ i - Len(p) \in DOMAIN q /\ r[i] = q[i - Len(p)]
             /\ j - Len(p) \in DOMAIN q /\ r[j] = q[j - Len(p)]
    <3>1. i - Len(p) = j - Len(p)
      BY <1>4, <2>1, <2>3 DEF Single
    <3>. QED
      BY <1>1, <3>1
  <2>4. CASE i \in DOMAIN p /\ r[i] = p[i] /\ j - Len(p) \in DOMAIN q /\ r[j] = q[j - Len(p)]
    BY <1>4, <2>1, <2>4 DEF Within
  <2>5. CASE i - Len(p) \in DOMAIN q /\ r[i] = q[i - Len(p)] /\ j \in DOMAIN p /\ r[j] = p[j]
    BY <1>4, <2>1, <2>5 DEF Within
  <2>. QED
    BY <1>2, <2>2, <2>3, <2>4, <2>5
<1>. QED
  BY <1>1, <1>3, <1>4 DEF r

LEMMA WithinOne ==
  ASSUME NEW c \in AllCalls
  PROVE  /\ <<c>> \in Seq(AllCalls) /\ <<c>> # <<>>
         /\ Within(<<c>>) = {c} /\ Single(<<c>>)
BY DEF Within, Single

LEMMA WithinCons ==
  ASSUME NEW c \in AllCalls, NEW q \in Seq(AllCalls)
  PROVE  /\ <<c>> \o q \in Seq(AllCalls) /\ <<c>> \o q # <<>>
         /\ Head(<<c>> \o q) = c /\ Tail(<<c>> \o q) = q
         /\ Within(<<c>> \o q) = {c} \cup Within(q)
         /\ Single(q) /\ (c[1] \in Posting => c \notin Within(q)) => Single(<<c>> \o q)
<1>1. Head(<<c>> \o q) = c /\ Tail(<<c>> \o q) = q /\ <<c>> \o q # <<>>
  BY HeadTailProperties
<1>2. /\ <<c>> \o q \in Seq(AllCalls)
      /\ Within(<<c>> \o q) = {c} \cup Within(q)
  BY WithinOne, WithinConcat
<1>3. ASSUME Single(q), c[1] \in Posting => c \notin Within(q)
      PROVE  Single(<<c>> \o q)
  <2>1. \A d \in Within(<<c>>) : d[1] \in Posting => d \notin Within(q)
    BY <1>3, WithinOne
  <2>. QED
    BY <1>3, <2>1, WithinOne, WithinConcat
<1>. QED
  BY <1>1, <1>2, <1>3

LEMMA OpIn ==
  ASSUME NEW n \in Plain \cup {"patches"}
  PROVE  Op(n) \in AllCalls /\ Op(n)[1] = n
BY DEF Op, AllCalls

LEMMA WithinTwo ==
  ASSUME NEW a \in AllCalls, NEW b \in AllCalls
  PROVE  /\ <<a, b>> \in Seq(AllCalls)
         /\ Within(<<a, b>>) = {a, b}
         /\ (a # b \/ a[1] \notin Posting) => Single(<<a, b>>)
BY DEF Within, Single

LEMMA WithinThree ==
  ASSUME NEW a \in AllCalls, NEW b \in AllCalls, NEW c \in AllCalls
  PROVE  /\ <<a, b, c>> \in Seq(AllCalls)
         /\ Within(<<a, b, c>>) = {a, b, c}
         /\ a[1] \notin Posting /\ b[1] \notin Posting => Single(<<a, b, c>>)
<1>1. /\ <<a, b, c>> \in Seq(AllCalls)
      /\ Within(<<a, b, c>>) = {a, b, c}
  BY DEF Within
<1>2. ASSUME a[1] \notin Posting, b[1] \notin Posting PROVE Single(<<a, b, c>>)
  BY <1>2 DEF Single
<1>. QED
  BY <1>1, <1>2

LEMMA WithinOps ==
  ASSUME NEW n \in {"post", "single", "upload"}, ProvidersAssumption
  PROVE  /\ Ops(n, Suggestions) \in Seq(AllCalls)
         /\ Within(Ops(n, Suggestions)) = {n} \X Suggested
         /\ Single(Ops(n, Suggestions))
<1> DEFINE q == Ops(n, Suggestions)
<1>1. /\ Suggestions \in Seq(Suggested)
      /\ \A i, j \in DOMAIN Suggestions : Suggestions[i] = Suggestions[j] => i = j
      /\ Suggested = {Suggestions[i] : i \in DOMAIN Suggestions}
  BY DEF ProvidersAssumption, IsInjective, Suggested, ToSet
<1>2. /\ DOMAIN q = DOMAIN Suggestions
      /\ \A i \in DOMAIN q : q[i] = <<n, Suggestions[i]>>
  BY DEF Ops
<1>3. Len(Suggestions) \in Nat /\ DOMAIN Suggestions = 1..Len(Suggestions)
  BY <1>1
<1>4. ASSUME NEW i \in DOMAIN q PROVE q[i] \in AllCalls
  <2>1. Suggestions[i] \in Suggested /\ q[i] = <<n, Suggestions[i]>>
    BY <1>1, <1>2
  <2> HIDE DEF q
  <2>. QED
    BY <2>1 DEF AllCalls, Plain, Posting
<1>5. q = [i \in 1..Len(Suggestions) |-> q[i]]
  BY <1>3 DEF Ops
<1> HIDE DEF q
<1>6. q \in Seq(AllCalls)
  <2>1. q \in [1..Len(Suggestions) -> AllCalls]
    BY <1>2, <1>3, <1>4, <1>5
  <2>. QED
    BY <1>3, <2>1, SeqDef
<1>7. Within(q) = {n} \X Suggested
  <2>1. Within(q) = {<<n, Suggestions[i]>> : i \in DOMAIN Suggestions}
    BY <1>2 DEF Within
  <2>2. {<<n, Suggestions[i]>> : i \in DOMAIN Suggestions} = {n} \X Suggested
    BY <1>1
  <2>. QED
    BY <2>1, <2>2
<1>8. Single(q)
  BY <1>1, <1>2 DEF Single
<1>. QED
  BY <1>6, <1>7, <1>8 DEF q

LEMMA NamesNil == Names(<<>>) = {}
BY WithinNil

LEMMA NamesTail ==
  ASSUME NEW q \in Seq(AllCalls), q # <<>>
  PROVE  /\ Names(q) = {Head(q)[1]} \cup Names(Tail(q))
         /\ Head(q)[1] \in Names(q)
         /\ Later(q) = Names(Tail(q))
<1>1. Within(q) = {Head(q)} \cup Within(Tail(q))
  BY WithinTail
<1>. QED
  BY <1>1 DEF Names, Later

LEMMA NamesConcat ==
  ASSUME NEW p \in Seq(AllCalls), NEW q \in Seq(AllCalls)
  PROVE  /\ p \o q \in Seq(AllCalls)
         /\ Names(p \o q) = Names(p) \cup Names(q)
<1>1. p \o q \in Seq(AllCalls) /\ Within(p \o q) = Within(p) \cup Within(q)
  BY WithinConcat
<1>. QED
  BY <1>1 DEF Names

LEMMA NamesCons ==
  ASSUME NEW c \in AllCalls, NEW q \in Seq(AllCalls)
  PROVE  /\ <<c>> \o q \in Seq(AllCalls)
         /\ Names(<<c>> \o q) = {c[1]} \cup Names(q)
         /\ Later(<<c>> \o q) = Names(q)
<1>1. /\ <<c>> \o q \in Seq(AllCalls) /\ <<c>> \o q # <<>> /\ Tail(<<c>> \o q) = q
      /\ Within(<<c>> \o q) = {c} \cup Within(q)
  BY WithinCons
<1>. QED
  BY <1>1 DEF Names, Later

LEMMA NamesOne ==
  ASSUME NEW n \in Plain \cup {"patches"}
  PROVE  <<Op(n)>> \in Seq(AllCalls) /\ Names(<<Op(n)>>) = {n}
<1>1. Within(<<Op(n)>>) = {Op(n)} /\ <<Op(n)>> \in Seq(AllCalls)
  BY OpIn, WithinOne
<1>. QED
  BY <1>1, OpIn DEF Names

LEMMA NamesTwo ==
  ASSUME NEW n \in Plain \cup {"patches"}, NEW m \in Plain \cup {"patches"}
  PROVE  <<Op(n), Op(m)>> \in Seq(AllCalls) /\ Names(<<Op(n), Op(m)>>) = {n, m}
<1>1. Within(<<Op(n), Op(m)>>) = {Op(n), Op(m)} /\ <<Op(n), Op(m)>> \in Seq(AllCalls)
  BY OpIn, WithinTwo
<1>. QED
  BY <1>1, OpIn DEF Names

LEMMA NamesThree ==
  ASSUME NEW n \in Plain \cup {"patches"}, NEW m \in Plain \cup {"patches"}, NEW l \in Plain \cup {"patches"}
  PROVE  /\ <<Op(n), Op(m), Op(l)>> \in Seq(AllCalls)
         /\ Names(<<Op(n), Op(m), Op(l)>>) = {n, m, l}
         /\ Later(<<Op(n), Op(m), Op(l)>>) = {m, l}
<1>1. /\ Within(<<Op(n), Op(m), Op(l)>>) = {Op(n), Op(m), Op(l)}
      /\ <<Op(n), Op(m), Op(l)>> \in Seq(AllCalls)
  BY OpIn, WithinThree
<1>2. Tail(<<Op(n), Op(m), Op(l)>>) = <<Op(m), Op(l)>> /\ <<Op(n), Op(m), Op(l)>> # <<>>
  OBVIOUS
<1>3. Later(<<Op(n), Op(m), Op(l)>>) = {m, l}
  BY <1>2, NamesTwo DEF Later
<1>. QED
  BY <1>1, <1>3, OpIn DEF Names

\* A list without publications of suggestions.
LEMMA NoPosting ==
  ASSUME NEW q, Names(q) \cap Posting = {}
  PROVE  Single(q) /\ \A x : Ways(q, x) = {}
<1>1. \A c \in Within(q) : c[1] \notin Posting
  BY DEF Names
<1>2. \A x, n : Way(n, x) \in Within(q) => n \notin Posting
  BY <1>1 DEF Way, Op
<1>3. Single(q)
  BY <1>1 DEF Single, Within
<1>. QED
  BY <1>2, <1>3 DEF Ways

\* The next call is one way less for its suggestion, or for all.
LEMMA WaysTail ==
  ASSUME NEW q \in Seq(AllCalls), q # <<>>, Single(q), NEW x \in Suggested
  PROVE  LET n == Head(q)[1] IN
         /\ n \notin Posting => Ways(Tail(q), x) = Ways(q, x)
         /\ n \in Posting /\ (n = "patches" \/ Head(q)[2] = x)
            => n \in Ways(q, x) /\ Ways(Tail(q), x) = Ways(q, x) \ {n}
         /\ n \in Posting \ {"patches"} /\ Head(q)[2] # x
            => Ways(Tail(q), x) = Ways(q, x)
<1> DEFINE c == Head(q)
           n == Head(q)[1]
<1>1. /\ c \in AllCalls /\ Within(q) = {c} \cup Within(Tail(q))
      /\ n \in Posting => c \notin Within(Tail(q))
  BY WithinTail
<1>2. \A m \in Posting : Way(m, x)[1] = m
  BY DEF Way, Op
<1>3. CASE n \notin Posting
  <2>1. \A m \in Posting : Way(m, x) # c
    BY <1>2, <1>3
  <2>. QED
    BY <1>1, <1>3, <2>1 DEF Ways
<1>4. CASE n \in Posting /\ (n = "patches" \/ c[2] = x)
  <2>1. c = Way(n, x)
    BY <1>1, <1>4 DEF AllCalls, Way, Op, Plain, Posting
  <2>2. \A m \in Posting : Way(m, x) = c => m = n
    BY <1>2
  <2>. QED
    BY <1>1, <1>4, <2>1, <2>2 DEF Ways
<1>5. CASE n \in Posting \ {"patches"} /\ c[2] # x
  <2>1. \A m \in Posting : Way(m, x) # c
    BY <1>2, <1>5 DEF Way
  <2>. QED
    BY <1>1, <1>5, <2>1 DEF Ways
<1>. QED
  BY <1>3, <1>4, <1>5

LEMMA OrderedTail ==
  ASSUME NEW q \in Seq(AllCalls), q # <<>>, Ordered(q)
  PROVE  Ordered(Tail(q))
<1>1. Names(Tail(q)) \subseteq Names(q)
  BY NamesTail
<1>2. Tail(q) # <<>> => Tail(q)[Len(Tail(q))] = q[Len(q)]
  OBVIOUS
<1>3. "upload" \in Names(Tail(q)) => Tail(q) # <<>>
  BY NamesNil
<1>. QED
  BY <1>1, <1>2, <1>3 DEF Ordered

LEMMA OrderedCons ==
  ASSUME NEW c \in AllCalls, NEW q \in Seq(AllCalls), c[1] # "upload", Ordered(q)
  PROVE  Ordered(<<c>> \o q)
<1>1. /\ <<c>> \o q # <<>>
      /\ q # <<>> => (<<c>> \o q)[Len(<<c>> \o q)] = q[Len(q)]
  OBVIOUS
<1>2. Names(<<c>> \o q) = {c[1]} \cup Names(q)
  BY NamesCons
<1>. QED
  BY <1>1, <1>2 DEF Ordered

\* What is to come after an upload.
LEMMA OrderedWays ==
  ASSUME NEW q \in Seq(AllCalls), Ordered(q), "upload" \in Names(q), NEW x
  PROVE  Ways(q, x) # {}
<1>1. Len(q) \in DOMAIN q /\ q[Len(q)] = Op("patches")
  BY DEF Ordered
<1>2. Way("patches", x) \in Within(q) /\ "patches" \in Posting
  BY <1>1 DEF Way, Within, Posting
<1>. QED
  BY <1>2 DEF Ways

-----------------------------------------------------------------------------
(* What the tools do once the model has answered.                            *)

LabelCalls == IF On(Labelling) THEN <<Op("get_labels"), Op("put_labels")>> ELSE <<>>

LEMMA LabelNames ==
  LabelCalls \in Seq(AllCalls) /\ Names(LabelCalls) \subseteq {"get_labels", "put_labels"}
<1>1. <<Op("get_labels"), Op("put_labels")>> \in Seq(AllCalls)
      /\ Names(<<Op("get_labels"), Op("put_labels")>>) = {"get_labels", "put_labels"}
  BY NamesTwo DEF Plain
<1>2. <<>> \in Seq(AllCalls)
  OBVIOUS
<1>. QED
  BY <1>1, <1>2, NamesNil DEF LabelCalls

LEMMA PublishReviewNames ==
  /\ PublishReview \in Seq(AllCalls)
  /\ Names(PublishReview) = {IF On(Persisting) THEN "list" ELSE "review", "clean"}
<1>1. CASE On(Persisting)
  BY <1>1, NamesOne, NamesTwo DEF Plain, PublishReview
<1>2. CASE ~On(Persisting)
  BY <1>2, NamesOne, NamesTwo DEF Plain, PublishReview
<1>. QED
  BY <1>1, <1>2

LEMMA ReviewNames ==
  /\ Review \in Seq(AllCalls)
  /\ Names(Review) \subseteq {"get_labels", "put_labels", "clean"}
                     \cup {IF On(Persisting) THEN "list" ELSE "review"}
  /\ "clean" \in Names(Review)
<1>1. Review = LabelCalls \o PublishReview
  BY DEF Review, LabelCalls
<1>. QED
  BY <1>1, LabelNames, PublishReviewNames, NamesConcat

LEMMA DescribeNames ==
  /\ Describe \in Seq(AllCalls)
  /\ Names(Describe) \subseteq
       {"get_labels", "put_labels", "title", "body", "describe", "say", "clean"}
  /\ "clean" \in Names(Describe)
  /\ {"title", "body"} \cap Names(Describe) # {} => On({"codecommit"})
<1> DEFINE write == IF On({"codecommit"}) THEN <<Op("title"), Op("body")>> ELSE <<Op("describe")>>
           say == IF On(Persisting) THEN <<Op("say")>> ELSE <<>>
<1>1. /\ write \in Seq(AllCalls) /\ Names(write) \subseteq {"title", "body", "describe"}
      /\ ~On({"codecommit"}) => Names(write) = {"describe"}
  <2>1. <<Op("title"), Op("body")>> \in Seq(AllCalls)
        /\ Names(<<Op("title"), Op("body")>>) = {"title", "body"}
    BY NamesTwo DEF Plain
  <2>2. <<Op("describe")>> \in Seq(AllCalls) /\ Names(<<Op("describe")>>) = {"describe"}
    BY NamesOne DEF Plain
  <2>. QED
    BY <2>1, <2>2
<1>2. say \in Seq(AllCalls) /\ Names(say) \subseteq {"say"}
  BY NamesOne, NamesNil DEF Plain
<1>3. Describe = ((LabelCalls \o write) \o say) \o <<Op("clean")>>
  BY DEF Describe, LabelCalls
<1> HIDE DEF write, say
<1>4. /\ LabelCalls \o write \in Seq(AllCalls)
      /\ Names(LabelCalls \o write) = Names(LabelCalls) \cup Names(write)
  BY <1>1, LabelNames, NamesConcat
<1>5. /\ (LabelCalls \o write) \o say \in Seq(AllCalls)
      /\ Names((LabelCalls \o write) \o say) = Names(LabelCalls \o write) \cup Names(say)
  BY <1>2, <1>4, NamesConcat
<1>6. <<Op("clean")>> \in Seq(AllCalls) /\ Names(<<Op("clean")>>) = {"clean"}
  BY NamesOne, NamesTwo DEF Plain
<1>7. /\ Describe \in Seq(AllCalls)
      /\ Names(Describe) = Names((LabelCalls \o write) \o say) \cup {"clean"}
  BY <1>3, <1>5, <1>6, NamesConcat
<1>. QED
  BY <1>1, <1>2, <1>4, <1>5, <1>7, LabelNames

LEMMA NoSuggestionsNames ==
  ASSUME NEW s
  PROVE  /\ NoSuggestions(s) \in Seq(AllCalls)
         /\ Names(NoSuggestions(s)) =
              {IF read[s].note # 0 /\ On(Markdown) THEN "edit_progress" ELSE "say"}
<1>1. CASE read[s].note # 0 /\ On(Markdown)
  BY <1>1, NamesOne, NamesTwo DEF Plain, NoSuggestions
<1>2. CASE ~(read[s].note # 0 /\ On(Markdown))
  BY <1>2, NamesOne, NamesTwo DEF Plain, NoSuggestions
<1>. QED
  BY <1>1, <1>2

LEMMA ExceptNames ==
  ASSUME NEW s
  PROVE  /\ Except(s) \in Seq(AllCalls)
         /\ Names(Except(s)) \subseteq {"clean", "say_failed", "delete"}
         /\ tool[s] = "improve" /\ ~On(Markdown) => "clean" \in Names(Except(s))
         /\ tool[s] = "improve" /\ On({"gitlab"}) /\ read[s].note # 0
            => "delete" \in Names(Except(s))
<1>g. On({"gitlab"}) => On(Markdown)
  BY DEF On, Markdown
<1>e. Except(s) = IF tool[s] # "improve" THEN <<>>
                  ELSE IF ~On(Markdown) \/ read[s].note = 0
                  THEN <<Op("clean"), Op("say_failed")>>
                  ELSE IF On({"gitlab"}) THEN <<Op("delete")>>
                  ELSE <<>>
  BY DEF Except
<1>1. CASE tool[s] # "improve"
  BY <1>1, <1>e, NamesNil
<1>2. CASE tool[s] = "improve" /\ (~On(Markdown) \/ read[s].note = 0)
  <2>1. Except(s) = <<Op("clean"), Op("say_failed")>>
    BY <1>2, <1>e
  <2>2. /\ <<Op("clean"), Op("say_failed")>> \in Seq(AllCalls)
        /\ Names(<<Op("clean"), Op("say_failed")>>) = {"clean", "say_failed"}
    BY NamesTwo DEF Plain
  <2>. QED
    BY <1>2, <1>g, <2>1, <2>2
<1>3. CASE tool[s] = "improve" /\ On(Markdown) /\ read[s].note # 0 /\ On({"gitlab"})
  <2>1. Except(s) = <<Op("delete")>>
    BY <1>3, <1>e
  <2>2. <<Op("delete")>> \in Seq(AllCalls) /\ Names(<<Op("delete")>>) = {"delete"}
    BY NamesOne DEF Plain
  <2>. QED
    BY <1>3, <2>1, <2>2
<1>4. CASE tool[s] = "improve" /\ On(Markdown) /\ read[s].note # 0 /\ ~On({"gitlab"})
  BY <1>4, <1>e, NamesNil
<1>. QED
  BY <1>1, <1>2, <1>3, <1>4

LEMMA ImproveCalls ==
  ASSUME ProvidersAssumption
  PROVE  /\ Improve \in Seq(AllCalls) /\ Single(Improve)
         /\ Names(Improve) \subseteq
              {"clean", "upload", "patches", "post", "single", "remove_progress"}
         /\ "clean" \in Names(Improve)
         /\ On(Markdown) => "remove_progress" \in Names(Improve)
         /\ \A x \in Suggested :
              Ways(Improve, x) = IF On({"gerrit"}) THEN {"patches"}
                                 ELSE IF On({"gitea"}) THEN {"post", "single"}
                                 ELSE {"post"}
         /\ Ordered(Improve)
<1> DEFINE ups == Ops("upload", Suggestions)
           posts == Ops("post", Suggestions)
           singles == Ops("single", Suggestions)
           core == IF On({"gerrit"}) THEN ups \o <<Op("patches")>>
                   ELSE IF On({"gitea"}) THEN posts \o singles ELSE posts
           last == IF On(Markdown) THEN <<Op("remove_progress")>> ELSE <<>>
           held == IF On({"gerrit"}) THEN ({"upload"} \X Suggested) \cup {Op("patches")}
                   ELSE IF On({"gitea"}) THEN ({"post"} \X Suggested) \cup ({"single"} \X Suggested)
                   ELSE {"post"} \X Suggested
           tip == IF On(Markdown) THEN {Op("remove_progress")} ELSE {}
<1>1. /\ ups \in Seq(AllCalls) /\ Within(ups) = {"upload"} \X Suggested /\ Single(ups)
      /\ posts \in Seq(AllCalls) /\ Within(posts) = {"post"} \X Suggested /\ Single(posts)
      /\ singles \in Seq(AllCalls) /\ Within(singles) = {"single"} \X Suggested /\ Single(singles)
  BY WithinOps
<1>2. Improve = (<<Op("clean")>> \o core) \o last
  BY DEF Improve
<1> HIDE DEF ups, posts, singles
<1>3. core \in Seq(AllCalls) /\ Within(core) = held /\ Single(core)
  <2>1. CASE On({"gerrit"})
    <3>1. Op("patches") \in AllCalls /\ Op("patches")[1] = "patches"
      BY OpIn
    <3>2. /\ <<Op("patches")>> \in Seq(AllCalls) /\ Single(<<Op("patches")>>)
          /\ Within(<<Op("patches")>>) = {Op("patches")}
      BY <3>1, WithinOne
    <3>3. \A c \in Within(ups) : c[1] \notin Posting
      BY <1>1 DEF Posting
    <3>4. /\ ups \o <<Op("patches")>> \in Seq(AllCalls) /\ Single(ups \o <<Op("patches")>>)
          /\ Within(ups \o <<Op("patches")>>) = ({"upload"} \X Suggested) \cup {Op("patches")}
      BY <1>1, <3>2, <3>3, WithinConcat
    <3>. QED
      BY <2>1, <3>4
  <2>2. CASE On({"gitea"}) /\ ~On({"gerrit"})
    <3>1. \A c \in Within(posts) : c \notin Within(singles)
      BY <1>1
    <3>2. /\ posts \o singles \in Seq(AllCalls) /\ Single(posts \o singles)
          /\ Within(posts \o singles) = ({"post"} \X Suggested) \cup ({"single"} \X Suggested)
      BY <1>1, <3>1, WithinConcat
    <3>. QED
      BY <2>2, <3>2
  <2>3. CASE ~On({"gitea"}) /\ ~On({"gerrit"})
    BY <1>1, <2>3
  <2>. QED
    BY <2>1, <2>2, <2>3
<1>4. last \in Seq(AllCalls) /\ Within(last) = tip /\ Single(last)
  <2>1. Op("remove_progress") \in AllCalls
    BY OpIn DEF Plain
  <2>2. <<>> \in Seq(AllCalls)
    OBVIOUS
  <2>. QED
    BY <2>1, <2>2, WithinOne, WithinNil
<1>5. \A c \in held \cup tip \cup {Op("clean")} :
        c[1] \in {"clean", "upload", "patches", "post", "single", "remove_progress"}
  BY DEF Op
<1>6. \A c \in tip : c[1] = "remove_progress"
  BY DEF Op
<1>7. /\ Op("clean") \in AllCalls /\ Op("clean")[1] = "clean"
      /\ Op("remove_progress")[1] = "remove_progress"
  BY OpIn DEF Plain
<1>8. \A x \in Suggested, n \in Posting :
        Way(n, x) \in {Op("clean")} \cup held \cup tip
        <=> n \in IF On({"gerrit"}) THEN {"patches"}
                  ELSE IF On({"gitea"}) THEN {"post", "single"} ELSE {"post"}
  <2>1. SUFFICES ASSUME NEW x \in Suggested, NEW n \in Posting
                 PROVE  Way(n, x) \in {Op("clean")} \cup held \cup tip
                        <=> n \in IF On({"gerrit"}) THEN {"patches"}
                                  ELSE IF On({"gitea"}) THEN {"post", "single"} ELSE {"post"}
    OBVIOUS
  <2>2. Way(n, x)[1] = n /\ n \notin {"clean", "remove_progress", "upload"}
    BY DEF Way, Op, Posting
  <2>3. Way(n, x) \notin {Op("clean")} \cup tip
    BY <1>6, <1>7, <2>2
  <2>4. CASE On({"gerrit"})
    BY <2>2, <2>3, <2>4 DEF Way, Op
  <2>5. CASE ~On({"gerrit"})
    <3>1. CASE n = "patches"
      BY <2>2, <2>3, <2>5, <3>1
    <3>2. CASE n # "patches"
      <4>1. Way(n, x) = <<n, x>>
        BY <3>2 DEF Way
      <4>. QED
        BY <2>3, <2>5, <3>2, <4>1
    <3>. QED
      BY <3>1, <3>2
  <2>. QED
    BY <2>4, <2>5
<1> HIDE DEF core, last, held, tip
<1>9. /\ <<Op("clean")>> \o core \in Seq(AllCalls) /\ Single(<<Op("clean")>> \o core)
      /\ Within(<<Op("clean")>> \o core) = {Op("clean")} \cup held
  <2>1. Op("clean")[1] \notin Posting
    BY <1>7 DEF Posting
  <2>. QED
    BY <1>3, <1>7, <2>1, WithinCons
<1>10. /\ Improve \in Seq(AllCalls) /\ Single(Improve)
       /\ Within(Improve) = {Op("clean")} \cup held \cup tip
  <2>1. \A c \in Within(<<Op("clean")>> \o core) : c[1] \in Posting => c \notin Within(last)
    BY <1>4, <1>6 DEF Posting
  <2>. QED
    BY <1>2, <1>4, <1>9, <2>1, WithinConcat
<1>11. /\ Names(Improve) \subseteq
            {"clean", "upload", "patches", "post", "single", "remove_progress"}
       /\ "clean" \in Names(Improve)
  BY <1>5, <1>7, <1>10 DEF Names
<1>12. On(Markdown) => "remove_progress" \in Names(Improve)
  BY <1>7, <1>10 DEF Names, tip
<1>13. \A x \in Suggested :
         Ways(Improve, x) = IF On({"gerrit"}) THEN {"patches"}
                            ELSE IF On({"gitea"}) THEN {"post", "single"} ELSE {"post"}
  BY <1>8, <1>10 DEF Ways, Posting
<1>14. Ordered(Improve)
  <2>1. CASE On({"gerrit"})
    <3>1. ~On(Markdown)
      BY <2>1 DEF On, Markdown
    <3>2. Improve = <<Op("clean")>> \o (ups \o <<Op("patches")>>)
      BY <2>1, <3>1 DEF Improve, ups
    <3>3. Op("clean") \in AllCalls /\ Op("patches") \in AllCalls
      BY OpIn DEF Plain
    <3>4. Improve # <<>> /\ Improve[Len(Improve)] = Op("patches")
      BY <1>1, <3>2, <3>3
    <3>. QED
      BY <3>4 DEF Ordered
  <2>2. CASE ~On({"gerrit"})
    <3>1. \A c \in {Op("clean")} \cup held \cup tip : c[1] # "upload"
      BY <1>6, <1>7, <2>2 DEF held
    <3>2. "upload" \notin Names(Improve)
      BY <1>10, <3>1 DEF Names
    <3>. QED
      BY <3>2 DEF Ordered
  <2>. QED
    BY <2>1, <2>2
<1>. QED
  BY <1>10, <1>11, <1>12, <1>13, <1>14

-----------------------------------------------------------------------------
(* What a call does: its answer, its comment, and what is left to do.        *)

LEMMA CallCases ==
  ASSUME TypeOK, NEW o, Call(o)
  PROVE  /\ failures' \in Nat /\ failures' >= failures
         /\ \/ o = "ok" /\ failures' = failures /\ Carried(o) /\ ~Raises(o)
            \/ o \in {"refused", "lost"} /\ failures' = failures + 1 /\ Raises(o)
         /\ Carried(o) <=> o # "refused"
BY DEF Call, TypeOK, Carried, Raises

LEMMA ThenCases ==
  ASSUME TypeOK, NEW s \in Sessions, NEW q \in Seq(AllCalls), Then(s, q)
  PROVE  /\ todo' \in [Sessions -> Seq(AllCalls)]
         /\ todo'[s] = q
         /\ \A t \in Sessions : t # s => todo'[t] = todo[t]
BY DEF TypeOK, Then

LEMMA NextCall ==
  ASSUME TypeOK, NEW s \in Sessions, NEW n, Calls(s, n)
  PROVE  /\ todo[s] \in Seq(AllCalls) /\ todo[s] # <<>> /\ Head(todo[s])[1] = n
         /\ Tail(todo[s]) \in Seq(AllCalls)
         /\ Names(todo[s]) = {n} \cup Names(Tail(todo[s]))
         /\ n # "start" => Underway(s)
<1>1. todo[s] \in Seq(AllCalls) /\ todo[s] # <<>> /\ Head(todo[s])[1] = n
  BY DEF TypeOK, Calls
<1>2. n # "start" => Underway(s)
  BY <1>1 DEF Underway, Ended, Calls
<1>. QED
  BY <1>1, <1>2, WithinTail, NamesTail

LEMMA PublishCases ==
  ASSUME TypeOK, NEW s \in Sessions, NEW kind \in Kinds, NEW o, Publish(s, kind, o)
  PROVE  LET c == [id |-> ids + 1, kind |-> kind, by |-> s] IN
         /\ ids' \in Nat
         /\ thread' \subseteq [id : 1..ids', kind : Kinds, by : Sessions]
         /\ thread' \subseteq thread \cup {c}
         /\ ~Carried(o) => thread' = thread
<1> DEFINE c == [id |-> ids + 1, kind |-> kind, by |-> s]
<1>1. ids \in Nat /\ thread \subseteq [id : 1..ids, kind : Kinds, by : Sessions]
  BY DEF TypeOK
<1>2. CASE Carried(o)
  <2>1. ids' = ids + 1 /\ thread' \subseteq thread \cup {c}
    BY <1>2 DEF Publish
  <2>2. \A d \in thread : d \in [id : 1..(ids + 1), kind : Kinds, by : Sessions]
    BY <1>1
  <2>3. c \in [id : 1..(ids + 1), kind : Kinds, by : Sessions]
    BY <1>1
  <2>. QED
    BY <1>1, <1>2, <2>1, <2>2, <2>3
<1>3. CASE ~Carried(o)
  BY <1>1, <1>3 DEF Publish
<1>. QED
  BY <1>2, <1>3

LEMMA DeleteCases ==
  ASSUME TypeOK, NEW id, Delete(id)
  PROVE  /\ thread' \subseteq thread
         /\ \A c \in thread' : c.id # id
BY DEF Delete

\* The calls after one that may raise.
LEMMA ContinueCases ==
  ASSUME TypeOK, NEW s \in Sessions, todo[s] # <<>>, NEW raised \in BOOLEAN,
         ContinueUnless(s, raised)
  PROVE  /\ todo' \in [Sessions -> Seq(AllCalls)]
         /\ todo'[s] = IF raised THEN Except(s) ELSE Tail(todo[s])
         /\ \A t \in Sessions : t # s => todo'[t] = todo[t]
<1> DEFINE q == IF raised THEN Except(s) ELSE Tail(todo[s])
<1>1. q \in Seq(AllCalls)
  BY ExceptNames, WithinTail DEF TypeOK
<1>2. Then(s, q)
  BY DEF ContinueUnless
<1>. QED
  BY <1>1, <1>2, ThenCases

LEMMA ContinueOnly ==
  ASSUME TypeOK, NEW s \in Sessions, todo[s] # <<>>, Continue(s)
  PROVE  /\ todo' \in [Sessions -> Seq(AllCalls)]
         /\ todo'[s] = Tail(todo[s])
         /\ \A t \in Sessions : t # s => todo'[t] = todo[t]
<1>1. Tail(todo[s]) \in Seq(AllCalls)
  BY WithinTail DEF TypeOK
<1>. QED
  BY <1>1, ThenCases DEF Continue

\* Nobody else's calls change.
Alone(s) ==
  /\ todo' \in [Sessions -> Seq(AllCalls)]
  /\ \A t \in Sessions : t # s => todo'[t] = todo[t]
  /\ failures' \in Nat /\ failures' >= failures

New(s, kind) == [id |-> ids + 1, kind |-> kind, by |-> s]

\* A comment may have been published.
Commented(s, kind) ==
  /\ ids' \in Nat
  /\ thread' \subseteq [id : 1..ids', kind : Kinds, by : Sessions]
  /\ thread' \subseteq thread \cup {New(s, kind)}

-----------------------------------------------------------------------------
(* What each step changes.                                                   *)

LEMMA StartEffect ==
  ASSUME TypeOK, NEW s \in Sessions, Start(s)
  PROVE  /\ Alone(s)
         /\ UNCHANGED <<service, tool, answer, thread, diff, posted, labels, text, ids, people, edits>>
         /\ "start" \in Names(todo[s])
         /\ \/ /\ failures' = failures
               /\ read' = [read EXCEPT ![s] = [labels |-> labels, text |-> text, note |-> 0]]
               /\ Names(todo'[s]) = {IF tool[s] = "improve" /\ On(Markdown)
                                     THEN "progress" ELSE "temporary", "diff", "think"}
               /\ Later(todo'[s]) = {"diff", "think"}
               /\ late' = IF \E t \in Sessions \ {s} : Underway(t) THEN late \cup {"together"}
                          ELSE late
            \/ failures' = failures + 1 /\ todo'[s] = <<>> /\ UNCHANGED <<read, late>>
<1>1. Calls(s, "start") /\ "start" \in Names(todo[s])
  BY NextCall DEF Start
<1>2. UNCHANGED <<service, tool, answer, thread, diff, posted, labels, text, ids, people, edits>>
  BY DEF Start
<1> DEFINE first == IF tool[s] = "improve" /\ On(Markdown)
                    THEN <<Op("progress"), Op("diff"), Op("think")>>
                    ELSE <<Op("temporary"), Op("diff"), Op("think")>>
<1>3. /\ first \in Seq(AllCalls)
      /\ Names(first) = {IF tool[s] = "improve" /\ On(Markdown)
                         THEN "progress" ELSE "temporary", "diff", "think"}
      /\ Later(first) = {"diff", "think"}
  <2>0. "progress" \in Plain /\ "temporary" \in Plain /\ "diff" \in Plain /\ "think" \in Plain
    BY DEF Plain
  <2>1. /\ <<Op("progress"), Op("diff"), Op("think")>> \in Seq(AllCalls)
        /\ Names(<<Op("progress"), Op("diff"), Op("think")>>) = {"progress", "diff", "think"}
        /\ Later(<<Op("progress"), Op("diff"), Op("think")>>) = {"diff", "think"}
    BY <2>0, NamesThree
  <2>2. /\ <<Op("temporary"), Op("diff"), Op("think")>> \in Seq(AllCalls)
        /\ Names(<<Op("temporary"), Op("diff"), Op("think")>>) = {"temporary", "diff", "think"}
        /\ Later(<<Op("temporary"), Op("diff"), Op("think")>>) = {"diff", "think"}
    BY <2>0, NamesThree
  <2>. QED
    BY <2>1, <2>2
<1>4. CASE /\ Call("ok")
           /\ read' = [read EXCEPT ![s] = [labels |-> labels, text |-> text, note |-> 0]]
           /\ Then(s, first)
           /\ late' = IF \E t \in Sessions \ {s} : Underway(t) THEN late \cup {"together"}
                      ELSE late
  <2>1. failures' = failures /\ failures' \in Nat /\ failures' >= failures
    BY <1>4, CallCases
  <2>2. /\ todo' \in [Sessions -> Seq(AllCalls)] /\ todo'[s] = first
        /\ \A t \in Sessions : t # s => todo'[t] = todo[t]
    <3> HIDE DEF first
    <3>. QED
      BY <1>3, <1>4, ThenCases
  <2>3. Names(todo'[s]) = Names(first) /\ Later(todo'[s]) = Later(first)
    BY <2>2
  <2> HIDE DEF first
  <2>. QED
    BY <1>1, <1>2, <1>3, <1>4, <2>1, <2>2, <2>3 DEF Alone
<1>5. CASE Call("refused") /\ Then(s, <<>>) /\ UNCHANGED <<read, late>>
  <2>1. failures' = failures + 1 /\ failures' \in Nat /\ failures' >= failures
    BY <1>5, CallCases
  <2>2. <<>> \in Seq(AllCalls)
    OBVIOUS
  <2>3. /\ todo' \in [Sessions -> Seq(AllCalls)] /\ todo'[s] = <<>>
        /\ \A t \in Sessions : t # s => todo'[t] = todo[t]
    BY <1>5, <2>2, ThenCases
  <2>. QED
    BY <1>1, <1>2, <1>5, <2>1, <2>3 DEF Alone
<1>. QED
  BY <1>4, <1>5 DEF Start

\* The diff is read anew.
Anew(s) ==
  /\ todo'[s] = <<Op("diff"), Op("think")>>
  /\ Names(todo'[s]) = {"diff", "think"}

LEMMA GiveUpEffect ==
  ASSUME TypeOK, NEW s \in Sessions, GiveUp(s)
  PROVE  /\ todo' \in [Sessions -> Seq(AllCalls)]
         /\ \A t \in Sessions : t # s => todo'[t] = todo[t]
         /\ todo'[s] = Except(s) /\ answer' = [answer EXCEPT ![s] = "error"]
BY ExceptNames, ThenCases DEF GiveUp

\* Another model is tried, or none is left.
LEMMA NextModelEffect ==
  ASSUME TypeOK, NEW s \in Sessions, NEW d, NextModel(s, d)
  PROVE  /\ todo' \in [Sessions -> Seq(AllCalls)]
         /\ \A t \in Sessions : t # s => todo'[t] = todo[t]
         /\ \/ Anew(s) /\ answer' = answer
            \/ todo'[s] = Except(s) /\ answer' = [answer EXCEPT ![s] = "error"]
<1>1. /\ <<Op("diff"), Op("think")>> \in Seq(AllCalls)
      /\ Names(<<Op("diff"), Op("think")>>) = {"diff", "think"}
  BY NamesTwo DEF Plain
<1>2. CASE d.models < Fallbacks
  BY <1>1, <1>2, ThenCases DEF NextModel, Anew
<1>3. CASE ~(d.models < Fallbacks)
  BY <1>3, GiveUpEffect DEF NextModel
<1>. QED
  BY <1>2, <1>3

LEMMA ReadDiffEffect ==
  ASSUME TypeOK, ProvidersAssumption, NEW s \in Sessions, ReadDiff(s)
  PROVE  /\ Alone(s)
         /\ UNCHANGED <<service, tool, read, thread, posted, labels, text, ids, people, late, edits>>
         /\ Calls(s, "diff")
         /\ \/ todo'[s] = Tail(todo[s]) /\ answer' = answer
            \/ Anew(s) /\ answer' = answer
            \/ todo'[s] = Except(s) /\ answer' = [answer EXCEPT ![s] = "error"]
<1>1. Calls(s, "diff") /\ todo[s] # <<>>
  BY NextCall DEF ReadDiff
<1>2. UNCHANGED <<service, tool, read, thread, posted, labels, text, ids, people, late, edits>>
  BY DEF ReadDiff
<1>3. PICK failed \in IF diff[s].kept = {} THEN ReadFailures(service) ELSE {{}},
           o \in {"refused", "lost"} :
        LET r == Reading(service, diff[s].kept, failed, o) IN
        /\ failures' = failures + Cardinality(failed)
        /\ IF r.raised
           THEN NextModel(s, [diff[s] EXCEPT !.kept = r.kept])
           ELSE Continue(s) /\ UNCHANGED answer
  BY DEF ReadDiff
<1>4. Cardinality(failed) \in Nat
  <2>1. IsFiniteSet({}) /\ \A x : IsFiniteSet({x})
    BY FS_EmptySet, FS_Singleton
  <2>2. \A x, y : IsFiniteSet({x, y})
    <3>1. ASSUME NEW x, NEW y PROVE IsFiniteSet({x, y})
      <4>1. IsFiniteSet({x} \cup {y})
        BY <2>1, FS_AddElement
      <4>2. {x, y} = {x} \cup {y}
        OBVIOUS
      <4>. QED
        BY <4>1, <4>2
    <3>. QED
      BY <3>1
  <2>3. IsFiniteSet(failed)
    <3>1. CASE failed = {}
      BY <2>1, <3>1
    <3>2. CASE failed \in {{call} : call \in ReadCalls(service)}
      BY <2>1, <3>2
    <3>3. CASE failed = {Overall("diff"), Overall("again")}
      BY <2>2, <3>3
    <3>. QED
      BY <3>1, <3>2, <3>3 DEF ReadFailures
  <2>. QED
    BY <2>3, FS_CardinalityType
<1>5. failures' \in Nat /\ failures' >= failures
  BY <1>3, <1>4 DEF TypeOK
<1> DEFINE r == Reading(service, diff[s].kept, failed, o)
           d == [diff[s] EXCEPT !.kept = r.kept]
<1>6. CASE r.raised
  <2>1. NextModel(s, d)
    BY <1>3, <1>6
  <2> HIDE DEF d
  <2>2. /\ todo' \in [Sessions -> Seq(AllCalls)]
        /\ \A t \in Sessions : t # s => todo'[t] = todo[t]
        /\ \/ Anew(s) /\ answer' = answer
           \/ todo'[s] = Except(s) /\ answer' = [answer EXCEPT ![s] = "error"]
    BY <2>1, NextModelEffect
  <2>. QED
    BY <1>1, <1>2, <1>5, <2>2 DEF Alone
<1>7. CASE ~r.raised
  <2>1. Continue(s) /\ UNCHANGED answer
    BY <1>3, <1>7
  <2>. QED
    BY <1>1, <1>2, <1>5, <2>1, ContinueOnly DEF Alone
<1>. QED
  BY <1>6, <1>7

\* What the model's answer leads to.
Course(s, a) ==
  IF a = "empty"
  THEN IF tool[s] = "improve" THEN NoSuggestions(s) ELSE <<Op("clean")>>
  ELSE IF tool[s] = "review" THEN Review
  ELSE IF tool[s] = "describe" THEN Describe ELSE Improve

LEMMA ThinkEffect ==
  ASSUME TypeOK, ProvidersAssumption, NEW s \in Sessions, Think(s)
  PROVE  /\ Alone(s)
         /\ UNCHANGED <<service, tool, read, thread, posted, labels, text, ids, people, late,
                        edits, failures>>
         /\ Calls(s, "think")
         /\ \/ Anew(s) /\ answer' = answer
            \/ todo'[s] = Except(s) /\ answer' = [answer EXCEPT ![s] = "error"]
            \/ \E a \in {"answer", "empty"} :
                 todo'[s] = Course(s, a) /\ answer' = [answer EXCEPT ![s] = a]
<1>1. /\ Calls(s, "think")
      /\ UNCHANGED <<service, tool, read, thread, posted, labels, text, ids, people, late,
                     edits, failures>>
  BY DEF Think
<1>2. failures' \in Nat /\ failures' >= failures
  BY <1>1 DEF TypeOK
<1>3. CASE NextModel(s, diff[s]) \/ GiveUp(s)
  BY <1>1, <1>2, <1>3, NextModelEffect, GiveUpEffect DEF Alone
<1>4. ASSUME NEW a \in {"answer", "empty"}, answer' = [answer EXCEPT ![s] = a],
             Then(s, Course(s, a))
      PROVE  /\ Alone(s)
             /\ todo'[s] = Course(s, a)
  <2>1. /\ <<Op("clean")>> \in Seq(AllCalls) /\ NoSuggestions(s) \in Seq(AllCalls)
        /\ Review \in Seq(AllCalls) /\ Describe \in Seq(AllCalls) /\ Improve \in Seq(AllCalls)
    BY NamesOne, NoSuggestionsNames, ReviewNames, DescribeNames, ImproveCalls DEF Plain
  <2>2. Course(s, a) \in Seq(AllCalls)
    BY <2>1 DEF Course
  <2>. QED
    BY <1>2, <1>4, <2>2, ThenCases DEF Alone
<1>5. tool[s] \in {"review", "describe", "improve"}
  BY DEF TypeOK
<1>6. \/ NextModel(s, diff[s]) \/ GiveUp(s)
      \/ \E a \in {"answer", "empty"} :
           answer' = [answer EXCEPT ![s] = a] /\ Then(s, Course(s, a))
  <2>1. \A a : Course(s, a) =
            IF a = "empty"
            THEN IF tool[s] = "improve" THEN NoSuggestions(s) ELSE <<Op("clean")>>
            ELSE CASE tool[s] = "review" -> Review
                   [] tool[s] = "describe" -> Describe
                   [] tool[s] = "improve" -> Improve
    <3>1. CASE tool[s] = "review"
      BY <3>1 DEF Course
    <3>2. CASE tool[s] = "describe"
      BY <3>2 DEF Course
    <3>3. CASE tool[s] = "improve"
      BY <3>3 DEF Course
    <3>. QED
      BY <1>5, <3>1, <3>2, <3>3
  <2>. QED
    BY <2>1 DEF Think
<1>. QED
  BY <1>1, <1>3, <1>4, <1>6

\* Either the next call follows, or this one failed and raised.
Continues(s) ==
  \/ todo'[s] = Tail(todo[s])
  \/ failures' = failures + 1 /\ todo'[s] = Except(s)

LEMMA BareIn == \A o : Raises(o) \in BOOLEAN
BY DEF Raises

LEMMA TemporaryEffect ==
  ASSUME TypeOK, NEW s \in Sessions, Temporary(s)
  PROVE  /\ Alone(s)
         /\ UNCHANGED <<service, tool, diff, answer, posted, labels, text, people, late, edits>>
         /\ Calls(s, "temporary") /\ Commented(s, "temporary") /\ Continues(s)
         /\ \/ /\ On({"bitbucket_server", "codecommit", "gerrit"})
               /\ UNCHANGED <<read, thread, ids, failures>>
            \/ /\ ~On({"bitbucket_server", "codecommit", "gerrit"})
               /\ \E n \in {0, ids + 1} :
                    /\ read' = [read EXCEPT ![s].note = n]
                    /\ n = 0 => failures' > failures
<1>1. /\ Calls(s, "temporary") /\ todo[s] # <<>>
      /\ UNCHANGED <<service, tool, diff, answer, posted, labels, text, people, late, edits>>
  BY NextCall DEF Temporary
<1>2. CASE On({"bitbucket_server", "codecommit", "gerrit"})
  <2>1. Continue(s) /\ UNCHANGED <<read, thread, ids, failures>>
    BY <1>2 DEF Temporary
  <2>2. Commented(s, "temporary")
    BY <2>1 DEF Commented, TypeOK
  <2>. QED
    BY <1>1, <1>2, <2>1, <2>2, ContinueOnly DEF Alone, TypeOK, Continues
<1>3. CASE ~On({"bitbucket_server", "codecommit", "gerrit"})
  <2>1. PICK o \in Outcomes :
          /\ Call(o) /\ Publish(s, "temporary", o)
          /\ read' = [read EXCEPT ![s].note = IF Raises(o) THEN 0 ELSE ids + 1]
          /\ ContinueUnless(s, Raises(o))
    BY <1>3 DEF Temporary
  <2>2. Commented(s, "temporary")
    BY <2>1, PublishCases DEF Commented, New, Kinds
  <2>3. Alone(s) /\ Continues(s)
    BY <1>1, <2>1, CallCases, ContinueCases, BareIn DEF Alone, Continues
  <2> DEFINE n == IF Raises(o) THEN 0 ELSE ids + 1
  <2>4. n \in {0, ids + 1} /\ (n = 0 => failures' > failures)
    BY <2>1, CallCases DEF TypeOK
  <2>5. read' = [read EXCEPT ![s].note = n]
    BY <2>1
  <2> HIDE DEF n
  <2>. QED
    BY <1>1, <1>3, <2>2, <2>3, <2>4, <2>5
<1>. QED
  BY <1>2, <1>3

LEMMA ProgressEffect ==
  ASSUME TypeOK, NEW s \in Sessions, Progress(s)
  PROVE  /\ Alone(s)
         /\ UNCHANGED <<service, tool, diff, answer, posted, labels, text, people, late, edits>>
         /\ Calls(s, "progress") /\ Commented(s, "progress") /\ Continues(s)
         /\ \E n \in {0, ids + 1} :
              /\ read' = [read EXCEPT ![s].note = n]
              /\ n = 0 => failures' > failures
<1>1. /\ Calls(s, "progress") /\ todo[s] # <<>>
      /\ UNCHANGED <<service, tool, diff, answer, posted, labels, text, people, late, edits>>
  BY NextCall DEF Progress
<1>2. PICK o \in Outcomes :
        /\ Call(o) /\ Publish(s, "progress", o)
        /\ read' = [read EXCEPT ![s].note = IF Raises(o) THEN 0 ELSE ids + 1]
        /\ ContinueUnless(s, Raises(o))
  BY DEF Progress
<1>3. Commented(s, "progress")
  BY <1>2, PublishCases DEF Commented, New, Kinds
<1>4. Alone(s) /\ Continues(s)
  BY <1>1, <1>2, CallCases, ContinueCases, BareIn DEF Alone, Continues
<1> DEFINE n == IF Raises(o) THEN 0 ELSE ids + 1
<1>5. n \in {0, ids + 1} /\ (n = 0 => failures' > failures)
  BY <1>2, CallCases DEF TypeOK
<1>6. read' = [read EXCEPT ![s].note = n]
  BY <1>2
<1> HIDE DEF n
<1>. QED
  BY <1>1, <1>3, <1>4, <1>5, <1>6

LEMMA EditProgressEffect ==
  ASSUME TypeOK, NEW s \in Sessions, EditProgress(s)
  PROVE  /\ Alone(s)
         /\ UNCHANGED <<service, tool, answer, read, diff, posted, labels, text, ids, people, late, edits>>
         /\ Calls(s, "edit_progress") /\ Continues(s)
         /\ thread' \subseteq [id : 1..ids, kind : Kinds, by : Sessions]
         /\ \A c \in thread' : c \in thread \/ c.kind = "said"
         /\ failures' = failures =>
              \A c \in thread' : c.id = read[s].note => c.kind = "said"
<1>1. /\ Calls(s, "edit_progress") /\ todo[s] # <<>>
      /\ UNCHANGED <<service, tool, answer, read, diff, posted, labels, text, ids, people, late, edits>>
  BY NextCall DEF EditProgress
<1>2. PICK o \in Outcomes :
        /\ Call(o)
        /\ thread' = {IF Carried(o) /\ c.id = read[s].note
                      THEN [c EXCEPT !.kind = "said"] ELSE c : c \in thread}
        /\ ContinueUnless(s, Raises(o) /\ On({"gitlab"}))
  BY DEF EditProgress
<1>3. (Raises(o) /\ On({"gitlab"})) \in BOOLEAN
  BY DEF Raises, On
<1>4. Alone(s) /\ Continues(s)
  BY <1>1, <1>2, <1>3, CallCases, ContinueCases DEF Alone, Continues
<1>5. ASSUME NEW c \in thread
      PROVE  /\ c \in [id : 1..ids, kind : Kinds, by : Sessions]
             /\ [c EXCEPT !.kind = "said"] \in [id : 1..ids, kind : Kinds, by : Sessions]
             /\ [c EXCEPT !.kind = "said"].kind = "said"
  BY DEF TypeOK, Kinds
<1>6. /\ thread' \subseteq [id : 1..ids, kind : Kinds, by : Sessions]
      /\ \A c \in thread' : c \in thread \/ c.kind = "said"
  BY <1>2, <1>5
<1>7. ASSUME failures' = failures, NEW c \in thread', c.id = read[s].note
      PROVE  c.kind = "said"
  <2>1. Carried(o)
    BY <1>2, <1>7, CallCases DEF TypeOK
  <2>2. PICK d \in thread : c = IF d.id = read[s].note THEN [d EXCEPT !.kind = "said"] ELSE d
    BY <1>2, <1>7, <2>1
  <2>. QED
    BY <1>5, <1>7, <2>2
<1>. QED
  BY <1>1, <1>4, <1>6, <1>7

LEMMA SayEffect ==
  ASSUME TypeOK, NEW s \in Sessions, Say(s)
  PROVE  /\ Alone(s)
         /\ UNCHANGED <<service, tool, answer, read, diff, posted, labels, text, people, late, edits>>
         /\ Calls(s, "say") /\ Commented(s, "said") /\ Continues(s)
<1>1. /\ Calls(s, "say") /\ todo[s] # <<>>
      /\ UNCHANGED <<service, tool, answer, read, diff, posted, labels, text, people, late, edits>>
  BY NextCall DEF Say
<1>2. PICK o \in Outcomes : Call(o) /\ Publish(s, "said", o) /\ ContinueUnless(s, Raises(o))
  BY DEF Say
<1>3. Commented(s, "said")
  BY <1>2, PublishCases DEF Commented, New, Kinds
<1>4. Alone(s) /\ Continues(s)
  BY <1>1, <1>2, CallCases, ContinueCases, BareIn DEF Alone, Continues
<1>. QED
  BY <1>1, <1>3, <1>4

LEMMA SayFailedEffect ==
  ASSUME TypeOK, NEW s \in Sessions, SayFailed(s)
  PROVE  /\ Alone(s)
         /\ UNCHANGED <<service, tool, answer, read, diff, posted, labels, text, people, late, edits>>
         /\ Calls(s, "say_failed") /\ Commented(s, "said") /\ Continues(s)
<1>1. /\ Calls(s, "say_failed") /\ todo[s] # <<>> /\ Continue(s)
      /\ UNCHANGED <<service, tool, answer, read, diff, posted, labels, text, people, late, edits>>
  BY NextCall DEF SayFailed
<1>2. PICK o \in Outcomes : Call(o) /\ Publish(s, "said", o)
  BY DEF SayFailed
<1>3. Commented(s, "said")
  BY <1>2, PublishCases DEF Commented, New, Kinds
<1>. QED
  BY <1>1, <1>2, <1>3, CallCases, ContinueOnly DEF Alone, Continues

LEMMA CleanEffect ==
  ASSUME TypeOK, NEW s \in Sessions, Clean(s)
  PROVE  /\ Alone(s)
         /\ UNCHANGED <<service, tool, answer, read, diff, posted, labels, text, ids, people, late, edits>>
         /\ Calls(s, "clean") /\ Continues(s)
         /\ thread' \subseteq thread
         /\ failures' = failures /\ On(Cleans) =>
              \A c \in thread' : ~(c.id = read[s].note /\ c.kind = "temporary")
<1>1. /\ Calls(s, "clean") /\ todo[s] # <<>> /\ Continue(s)
      /\ UNCHANGED <<service, tool, answer, read, diff, posted, labels, text, ids, people, late, edits>>
  BY NextCall DEF Clean
<1>2. CASE On(Cleans) /\ \E c \in thread : c.id = read[s].note /\ c.kind = "temporary"
  <2>1. PICK o \in Outcomes :
          Call(o) /\ IF Carried(o) THEN Delete(read[s].note) ELSE UNCHANGED thread
    BY <1>2 DEF Clean
  <2>2. failures' = failures => Carried(o)
    BY <2>1, CallCases DEF TypeOK
  <2>3. /\ thread' \subseteq thread
        /\ Carried(o) => \A c \in thread' : c.id # read[s].note
    BY <2>1, DeleteCases
  <2>. QED
    BY <1>1, <2>1, <2>2, <2>3, CallCases, ContinueOnly DEF Alone, Continues
<1>3. CASE ~(On(Cleans) /\ \E c \in thread : c.id = read[s].note /\ c.kind = "temporary")
  <2>1. UNCHANGED <<thread, failures>>
    BY <1>3 DEF Clean
  <2>2. failures \in Nat
    BY DEF TypeOK
  <2>. QED
    BY <1>1, <1>3, <2>1, <2>2, ContinueOnly DEF Alone, Continues
<1>. QED
  BY <1>2, <1>3

LEMMA RemoveProgressEffect ==
  ASSUME TypeOK, NEW s \in Sessions, RemoveProgress(s)
  PROVE  /\ Alone(s)
         /\ UNCHANGED <<service, tool, answer, read, diff, posted, labels, text, ids, people, late, edits>>
         /\ Calls(s, "remove_progress") \/ Calls(s, "delete")
         /\ Continues(s)
         /\ thread' \subseteq thread
         /\ failures' = failures => \A c \in thread' : c.id # read[s].note
<1>1. /\ Calls(s, "remove_progress") \/ Calls(s, "delete")
      /\ todo[s] # <<>>
      /\ UNCHANGED <<service, tool, answer, read, diff, posted, labels, text, ids, people, late, edits>>
  BY NextCall DEF RemoveProgress
<1>2. PICK o \in Outcomes :
        /\ Call(o)
        /\ IF Carried(o) THEN Delete(read[s].note) ELSE UNCHANGED thread
        /\ Then(s, IF Raises(o) /\ On({"gitea"}) THEN Except(s) ELSE Tail(todo[s]))
  BY DEF RemoveProgress
<1>3. ContinueUnless(s, Raises(o) /\ On({"gitea"})) /\ (Raises(o) /\ On({"gitea"})) \in BOOLEAN
  BY <1>2 DEF ContinueUnless, Raises, On
<1>4. Alone(s) /\ Continues(s)
  BY <1>1, <1>2, <1>3, CallCases, ContinueCases DEF Alone, Continues
<1>5. failures' = failures => Carried(o)
  BY <1>2, CallCases DEF TypeOK
<1>6. /\ thread' \subseteq thread
      /\ Carried(o) => \A c \in thread' : c.id # read[s].note
  BY <1>2, DeleteCases
<1>. QED
  BY <1>1, <1>4, <1>5, <1>6

\* In the place of the next call comes another.
Instead(s, c) == todo'[s] = <<c>> \o Tail(todo[s])

LEMMA InsteadCases ==
  ASSUME TypeOK, NEW s \in Sessions, todo[s] # <<>>, NEW c \in AllCalls,
         Then(s, <<c>> \o Tail(todo[s]))
  PROVE  /\ todo' \in [Sessions -> Seq(AllCalls)]
         /\ Instead(s, c)
         /\ \A t \in Sessions : t # s => todo'[t] = todo[t]
<1>1. <<c>> \o Tail(todo[s]) \in Seq(AllCalls)
  BY WithinTail, WithinCons DEF TypeOK
<1>. QED
  BY <1>1, ThenCases DEF Instead

LEMMA ReviewNowCases ==
  ASSUME TypeOK, NEW s \in Sessions, todo[s] # <<>>, ReviewNow(s)
  PROVE  /\ todo' \in [Sessions -> Seq(AllCalls)]
         /\ Instead(s, Op("review"))
         /\ \A t \in Sessions : t # s => todo'[t] = todo[t]
<1>1. Op("review") \in AllCalls
  BY OpIn DEF Plain
<1>. QED
  BY <1>1, InsteadCases DEF ReviewNow

LEMMA ListEffect ==
  ASSUME TypeOK, NEW s \in Sessions, List(s)
  PROVE  /\ Alone(s)
         /\ UNCHANGED <<service, tool, answer, read, diff, thread, posted, labels, text, ids, people, late, edits>>
         /\ Calls(s, "list")
         /\ \/ Instead(s, Op("review")) /\ (Previous = {} \/ failures' = failures + 1)
            \/ \E id \in Nat : Instead(s, <<"edit", id>>)
<1>1. /\ Calls(s, "list") /\ todo[s] # <<>>
      /\ UNCHANGED <<service, tool, answer, read, diff, thread, posted, labels, text, ids, people, late, edits>>
  BY NextCall DEF List
<1>2. CASE Call("refused") /\ ReviewNow(s)
  BY <1>1, <1>2, CallCases, ReviewNowCases DEF Alone
<1>3. CASE Call("ok") /\ Previous = {} /\ ReviewNow(s)
  BY <1>1, <1>3, CallCases, ReviewNowCases DEF Alone
<1>4. CASE Call("ok") /\ \E id \in Previous : Then(s, <<<<"edit", id>>>> \o Tail(todo[s]))
  <2>1. PICK id \in Previous : Then(s, <<<<"edit", id>>>> \o Tail(todo[s]))
    BY <1>4
  <2>2. id \in Nat
    BY <2>1 DEF Previous, Reviews, TypeOK
  <2>3. <<"edit", id>> \in AllCalls
    BY <2>2 DEF AllCalls, Plain
  <2>4. Instead(s, <<"edit", id>>) /\ Alone(s)
    BY <1>1, <1>4, <2>1, <2>3, CallCases, InsteadCases DEF Alone
  <2>. QED
    BY <1>1, <2>2, <2>4
<1>. QED
  BY <1>2, <1>3, <1>4 DEF List

LEMMA EditEffect ==
  ASSUME TypeOK, NEW s \in Sessions, Edit(s)
  PROVE  /\ Alone(s)
         /\ UNCHANGED <<service, tool, answer, read, diff, thread, posted, labels, text, ids, people, late, edits>>
         /\ Calls(s, "edit")
         /\ \/ Instead(s, Op("review")) /\ failures' = failures + 1
            \/ Instead(s, Op("update"))
<1>1. /\ Calls(s, "edit") /\ todo[s] # <<>>
      /\ UNCHANGED <<service, tool, answer, read, diff, thread, posted, labels, text, ids, people, late, edits>>
  BY NextCall DEF Edit
<1>2. PICK o \in Outcomes :
        /\ Call(o)
        /\ IF Raises(o) /\ On({"gitlab", "bitbucket"}) THEN ReviewNow(s)
           ELSE Then(s, <<Op("update")>> \o Tail(todo[s]))
  BY DEF Edit
<1>3. Op("update") \in AllCalls
  BY OpIn DEF Plain
<1>4. CASE Raises(o) /\ On({"gitlab", "bitbucket"})
  BY <1>1, <1>2, <1>4, CallCases, ReviewNowCases DEF Alone
<1>5. CASE ~(Raises(o) /\ On({"gitlab", "bitbucket"}))
  BY <1>1, <1>2, <1>3, <1>5, CallCases, InsteadCases DEF Alone
<1>. QED
  BY <1>4, <1>5

LEMMA UpdateEffect ==
  ASSUME TypeOK, NEW s \in Sessions, Update(s)
  PROVE  /\ Alone(s)
         /\ UNCHANGED <<service, tool, answer, read, diff, posted, labels, text, people, late, edits>>
         /\ Calls(s, "update") /\ Commented(s, "update")
         /\ \/ Instead(s, Op("review")) /\ failures' = failures + 1
            \/ todo'[s] = Tail(todo[s])
<1>1. /\ Calls(s, "update") /\ todo[s] # <<>>
      /\ UNCHANGED <<service, tool, answer, read, diff, posted, labels, text, people, late, edits>>
  BY NextCall DEF Update
<1>2. PICK o \in Outcomes :
        /\ Call(o) /\ Publish(s, "update", o)
        /\ IF Raises(o) THEN ReviewNow(s) ELSE Continue(s)
  BY DEF Update
<1>3. Commented(s, "update")
  BY <1>2, PublishCases DEF Commented, New, Kinds
<1>4. CASE Raises(o)
  BY <1>1, <1>2, <1>3, <1>4, CallCases, ReviewNowCases DEF Alone
<1>5. CASE ~Raises(o)
  BY <1>1, <1>2, <1>3, <1>5, CallCases, ContinueOnly DEF Alone
<1>. QED
  BY <1>4, <1>5

LEMMA NewReviewEffect ==
  ASSUME TypeOK, NEW s \in Sessions, NewReview(s)
  PROVE  /\ Alone(s)
         /\ UNCHANGED <<service, tool, answer, read, diff, posted, labels, text, people, late, edits>>
         /\ Calls(s, "review") /\ Commented(s, "review") /\ Continues(s)
<1>1. /\ Calls(s, "review") /\ todo[s] # <<>>
      /\ UNCHANGED <<service, tool, answer, read, diff, posted, labels, text, people, late, edits>>
  BY NextCall DEF NewReview
<1>2. PICK o \in Outcomes : Call(o) /\ Publish(s, "review", o) /\ ContinueUnless(s, Raises(o))
  BY DEF NewReview
<1>3. Commented(s, "review")
  BY <1>2, PublishCases DEF Commented, New, Kinds
<1>4. Alone(s) /\ Continues(s)
  BY <1>1, <1>2, CallCases, ContinueCases, BareIn DEF Alone, Continues
<1>. QED
  BY <1>1, <1>3, <1>4

\* An exception of the labels' calls.
Unlabelled(s) ==
  failures' = failures + 1 /\ todo'[s] = IF tool[s] = "review" THEN PublishReview ELSE Except(s)

LEMMA LabelsRaiseCases ==
  ASSUME TypeOK, NEW s \in Sessions, LabelsRaise(s)
  PROVE  /\ todo' \in [Sessions -> Seq(AllCalls)]
         /\ todo'[s] = IF tool[s] = "review" THEN PublishReview ELSE Except(s)
         /\ \A t \in Sessions : t # s => todo'[t] = todo[t]
<1> DEFINE q == IF tool[s] = "review" THEN PublishReview ELSE Except(s)
<1>1. q \in Seq(AllCalls)
  BY PublishReviewNames, ExceptNames
<1>2. Then(s, q)
  BY DEF LabelsRaise
<1> HIDE DEF q
<1>3. /\ todo' \in [Sessions -> Seq(AllCalls)] /\ todo'[s] = q
      /\ \A t \in Sessions : t # s => todo'[t] = todo[t]
  BY <1>1, <1>2, ThenCases
<1>. QED
  BY <1>3 DEF q

LEMMA GetLabelsEffect ==
  ASSUME TypeOK, NEW s \in Sessions, GetLabels(s)
  PROVE  /\ Alone(s)
         /\ UNCHANGED <<service, tool, answer, thread, diff, posted, labels, text, ids, people, late, edits>>
         /\ Calls(s, "get_labels")
         /\ todo'[s] = Tail(todo[s]) \/ Unlabelled(s)
         /\ \/ read' = read
            \/ /\ ~On({"gitlab"})
               /\ \E ls \in {labels, {}} : read' = [read EXCEPT ![s].labels = ls]
<1>1. /\ Calls(s, "get_labels") /\ todo[s] # <<>>
      /\ UNCHANGED <<service, tool, answer, thread, diff, posted, labels, text, ids, people, late, edits>>
  BY NextCall DEF GetLabels
<1>2. CASE On({"gitlab"}) /\ GetLabelsGitlab(s)
  BY <1>1, <1>2, ContinueOnly DEF GetLabelsGitlab, Alone, TypeOK
<1>3. CASE On({"gitea"}) /\ GetLabelsGitea(s)
  <2>1. CASE Call("ok") /\ Continue(s) /\ read' = [read EXCEPT ![s].labels = labels]
    <3>1. ~On({"gitlab"})
      BY <1>3 DEF On
    <3>2. \E ls \in {labels, {}} : read' = [read EXCEPT ![s].labels = ls]
      BY <2>1
    <3>. QED
      BY <1>1, <2>1, <3>1, <3>2, CallCases, ContinueOnly DEF Alone
  <2>2. CASE Call("refused") /\ LabelsRaise(s) /\ UNCHANGED read
    BY <1>1, <2>2, CallCases, LabelsRaiseCases DEF Alone, Unlabelled
  <2>. QED
    BY <1>3, <2>1, <2>2 DEF GetLabelsGitea
<1>4. CASE On({"azure"}) /\ GetLabelsAzure(s)
  <2>1. ~On({"gitlab"})
    BY <1>4 DEF On
  <2>2. Continue(s) /\ (Call("ok") \/ Call("refused"))
        /\ \E ls \in {labels, {}} : read' = [read EXCEPT ![s].labels = ls]
    BY <1>4 DEF GetLabelsAzure
  <2>3. failures' \in Nat /\ failures' >= failures
    BY <2>2, CallCases
  <2>. QED
    BY <1>1, <2>1, <2>2, <2>3, ContinueOnly DEF Alone
<1>. QED
  BY <1>2, <1>3, <1>4 DEF GetLabels

LEMMA PutLabelsEffect ==
  ASSUME TypeOK, NEW s \in Sessions, PutLabels(s)
  PROVE  /\ Alone(s)
         /\ UNCHANGED <<service, tool, answer, read, diff, thread, posted, text, ids, people, late, edits>>
         /\ Calls(s, "put_labels")
         /\ todo'[s] = Tail(todo[s]) \/ Unlabelled(s)
         /\ \/ labels' = labels
            \/ On({"gitlab"}) /\ labels' = NewLabels(s)
            \/ \E ls \in {NewLabels(s), {s}} : labels' = labels \cup ls
<1>1. /\ Calls(s, "put_labels") /\ todo[s] # <<>>
      /\ UNCHANGED <<service, tool, answer, read, diff, thread, posted, text, ids, people, late, edits>>
  BY NextCall DEF PutLabels
<1>2. CASE Continue(s) /\ UNCHANGED <<labels, failures>>
  BY <1>1, <1>2, ContinueOnly DEF Alone, TypeOK
<1>3. CASE On({"gitlab"}) /\ PutLabelsGitlab(s)
  <2>1. PICK o \in Outcomes :
          Call(o) /\ Continue(s) /\ labels' = IF Carried(o) THEN NewLabels(s) ELSE labels
    BY <1>3 DEF PutLabelsGitlab
  <2>. QED
    BY <1>1, <1>3, <2>1, CallCases, ContinueOnly DEF Alone
<1>4. CASE On({"gitea"}) /\ PutLabelsGitea(s)
  <2>1. PICK o \in Outcomes :
          /\ Call(o) /\ IF Raises(o) THEN LabelsRaise(s) ELSE Continue(s)
          /\ labels' = IF Carried(o) THEN labels \cup NewLabels(s) ELSE labels
    BY <1>4 DEF PutLabelsGitea
  <2>2. labels' = labels \/ \E ls \in {NewLabels(s), {s}} : labels' = labels \cup ls
    BY <2>1
  <2>3. CASE Raises(o)
    BY <1>1, <2>1, <2>2, <2>3, CallCases, LabelsRaiseCases DEF Alone, Unlabelled
  <2>4. CASE ~Raises(o)
    BY <1>1, <2>1, <2>2, <2>4, CallCases, ContinueOnly DEF Alone
  <2>. QED
    BY <2>3, <2>4
<1>5. CASE On({"azure"}) /\ PutLabelsAzure(s)
  <2>1. PICK o \in Outcomes :
          /\ Call(o) /\ Continue(s)
          /\ labels' \in IF o = "ok" THEN {labels \cup NewLabels(s)} ELSE {labels, labels \cup {s}}
    BY <1>5 DEF PutLabelsAzure
  <2>2. labels' = labels \/ \E ls \in {NewLabels(s), {s}} : labels' = labels \cup ls
    BY <2>1
  <2>. QED
    BY <1>1, <2>1, <2>2, CallCases, ContinueOnly DEF Alone
<1>. QED
  BY <1>2, <1>3, <1>4, <1>5 DEF PutLabels

\* The text is as it was, or written anew.
Texted(s) ==
  \/ text' = text
  \/ /\ text' = Written(s)
     /\ On({"bitbucket_server"}) => read[s].text.version = text.version

LEMMA TextCases ==
  ASSUME TypeOK, NEW s \in Sessions, NEW o, Call(o), TextAfter(s, o),
         ~On({"bitbucket_server"}) \/ read[s].text.version = text.version
  PROVE  Texted(s)
BY DEF TextAfter, Texted

LEMMA PublishDescriptionEffect ==
  ASSUME TypeOK, NEW s \in Sessions, PublishDescription(s)
  PROVE  /\ Alone(s)
         /\ UNCHANGED <<service, tool, answer, read, diff, posted, labels, people, late, edits>>
         /\ Calls(s, "describe") /\ Texted(s)
         /\ Commented(s, "said")
         /\ Continues(s) \/ (On({"bitbucket_server"}) /\ todo'[s] = Except(s))
<1>1. /\ Calls(s, "describe") /\ todo[s] # <<>>
      /\ UNCHANGED <<service, tool, answer, read, diff, posted, labels, people, late, edits>>
  BY NextCall DEF PublishDescription
<1>2. UNCHANGED <<thread, ids>> => Commented(s, "said")
  BY DEF Commented, TypeOK
<1>3. ASSUME NEW o \in Outcomes, Call(o), TextAfter(s, o), UNCHANGED <<thread, ids>>,
             ~On({"bitbucket_server"}) \/ read[s].text.version = text.version,
             \/ Continue(s)
             \/ ContinueUnless(s, Raises(o))
             \/ ContinueUnless(s, o = "lost")
      PROVE  Alone(s) /\ Texted(s) /\ Commented(s, "said") /\ Continues(s)
  <2>1. Texted(s)
    BY <1>3, TextCases
  <2>2. failures' \in Nat /\ failures' >= failures /\ (Raises(o) => failures' = failures + 1)
    BY <1>3, CallCases
  <2>3. CASE Continue(s)
    BY <1>1, <1>2, <1>3, <2>1, <2>2, <2>3, ContinueOnly DEF Alone, Continues
  <2>4. CASE ContinueUnless(s, Raises(o))
    <3>1. Alone(s) /\ todo'[s] = IF Raises(o) THEN Except(s) ELSE Tail(todo[s])
      BY <1>1, <2>2, <2>4, BareIn, ContinueCases DEF Alone
    <3>. QED
      BY <1>2, <1>3, <2>1, <2>2, <3>1 DEF Continues
  <2>5. CASE ContinueUnless(s, o = "lost")
    <3> DEFINE raised == o = "lost"
    <3>1. raised \in BOOLEAN /\ (raised => Raises(o))
      BY DEF Raises
    <3>2. ContinueUnless(s, raised)
      BY <2>5
    <3> HIDE DEF raised
    <3>3. Alone(s) /\ todo'[s] = IF raised THEN Except(s) ELSE Tail(todo[s])
      BY <1>1, <2>2, <3>1, <3>2, ContinueCases DEF Alone
    <3>. QED
      BY <1>2, <1>3, <2>1, <2>2, <3>1, <3>3 DEF Continues
  <2>. QED
    BY <1>3, <2>3, <2>4, <2>5
<1> SUFFICES /\ Alone(s) /\ Texted(s) /\ Commented(s, "said")
             /\ Continues(s) \/ (On({"bitbucket_server"}) /\ todo'[s] = Except(s))
  BY <1>1
<1>h. \A k \in {"gitlab", "gitea", "azure", "bitbucket"} : On({k}) => ~On({"bitbucket_server"})
  BY DEF On
<1>4. CASE On({"gitlab"}) /\ DescribeGitlab(s)
  BY <1>3, <1>4, <1>h DEF DescribeGitlab
<1>5. CASE On({"azure"}) /\ DescribeAzure(s)
  BY <1>3, <1>5, <1>h DEF DescribeAzure
<1>6. CASE On({"gitea"}) /\ DescribeGitea(s)
  BY <1>3, <1>6, <1>h DEF DescribeGitea
<1>7. CASE On({"bitbucket"}) /\ DescribeBitbucket(s)
  BY <1>3, <1>7, <1>h DEF DescribeBitbucket
<1>8. CASE On({"bitbucket_server"}) /\ DescribeBitbucketServer(s)
  <2>1. UNCHANGED <<thread, ids>>
    BY <1>8 DEF DescribeBitbucketServer
  <2>2. CASE read[s].text.version # text.version
    <3>1. Then(s, Except(s)) /\ UNCHANGED <<text, failures>>
      BY <1>8, <2>2 DEF DescribeBitbucketServer
    <3>2. Alone(s) /\ todo'[s] = Except(s)
      BY <3>1, ExceptNames, ThenCases DEF Alone, TypeOK
    <3>. QED
      BY <1>2, <1>8, <2>1, <3>1, <3>2 DEF Texted
  <2>3. CASE read[s].text.version = text.version
    BY <1>3, <1>8, <2>1, <2>3 DEF DescribeBitbucketServer
  <2>. QED
    BY <2>2, <2>3
<1>9. CASE On({"gerrit"}) /\ DescribeGerrit(s)
  <2>1. PICK o \in Outcomes : /\ Call(o) /\ Publish(s, "said", o) /\ ContinueUnless(s, Raises(o))
                              /\ UNCHANGED text
    BY <1>9 DEF DescribeGerrit
  <2>2. Commented(s, "said")
    BY <2>1, PublishCases DEF Commented, New, Kinds
  <2>3. Alone(s) /\ Continues(s)
    BY <1>1, <2>1, CallCases, ContinueCases, BareIn DEF Alone, Continues
  <2>. QED
    BY <2>1, <2>2, <2>3 DEF Texted
<1>10. CASE On({"local"}) /\ DescribeLocal(s)
  <2>1. Continue(s) /\ UNCHANGED <<text, thread, ids, failures>>
    BY <1>10 DEF DescribeLocal
  <2>2. Alone(s) /\ Continues(s)
    BY <1>1, <2>1, ContinueOnly DEF Alone, Continues, TypeOK
  <2>. QED
    BY <1>2, <2>1, <2>2 DEF Texted
<1>. QED
  BY <1>1, <1>4, <1>5, <1>6, <1>7, <1>8, <1>9, <1>10 DEF PublishDescription

LEMMA DescribeCodecommitEffect ==
  ASSUME TypeOK, NEW s \in Sessions, DescribeCodecommit(s)
  PROVE  /\ Alone(s)
         /\ UNCHANGED <<service, tool, answer, read, diff, thread, posted, labels, ids, people, late, edits>>
         /\ Calls(s, "title") \/ Calls(s, "body")
         /\ Continues(s)
         /\ \/ text' = text
            \/ text' = [text EXCEPT !.title = read[s].text.title, !.version = @ + 1]
            \/ text' = [text EXCEPT !.body = read[s].text.body, !.version = @ + 1]
<1>1. /\ Calls(s, "title") \/ Calls(s, "body")
      /\ todo[s] # <<>>
      /\ UNCHANGED <<service, tool, answer, read, diff, thread, posted, labels, ids, people, late, edits>>
  BY NextCall DEF DescribeCodecommit
<1>2. PICK o \in Outcomes :
        /\ Call(o) /\ ContinueUnless(s, Raises(o))
        /\ \/ text' = text
           \/ text' = [text EXCEPT !.title = read[s].text.title, !.version = @ + 1]
           \/ text' = [text EXCEPT !.body = read[s].text.body, !.version = @ + 1]
  BY DEF DescribeCodecommit
<1>3. Alone(s) /\ Continues(s)
  BY <1>1, <1>2, CallCases, ContinueCases, BareIn DEF Alone, Continues
<1>. QED
  BY <1>1, <1>2, <1>3

-----------------------------------------------------------------------------
\* The suggestion x may have been published by s; if the call failed, or was.
Attempt(s, x) ==
  /\ \/ posted' = posted
     \/ posted' = [posted EXCEPT ![s][x] = @ + 1]
  /\ failures' = failures => posted' = [posted EXCEPT ![s][x] = @ + 1]

LEMMA AttemptCases ==
  ASSUME TypeOK, NEW s \in Sessions, NEW x, NEW o, Call(o), PostedAfter(s, x, o)
  PROVE  Attempt(s, x)
<1>1. failures' = failures => Carried(o)
  BY CallCases DEF TypeOK
<1>. QED
  BY <1>1 DEF PostedAfter, Attempt

SuggestChange(s, x) ==
  \/ posted' = posted /\ failures' = failures /\ x \in Odd /\ todo'[s] = Tail(todo[s])
  \/ posted' = posted /\ On({"local"}) /\ todo'[s] = Except(s)
  \/ Attempt(s, x) /\ todo'[s] = Tail(todo[s])
  \/ Attempt(s, x) /\ failures' = failures + 1 /\ todo'[s] = Except(s)
  \/ Attempt(s, x) /\ failures' = failures + 1 /\ On({"gitlab"}) /\ Instead(s, <<"note", x>>)
  \/ /\ Attempt(s, x) /\ failures' = failures + 1 /\ Calls(s, "post") /\ ~On({"gitea"})
     /\ todo'[s] = Ops("single", Suggestions)

LEMMA OneByOneCases ==
  ASSUME TypeOK, ProvidersAssumption, NEW s \in Sessions, OneByOne(s)
  PROVE  /\ todo' \in [Sessions -> Seq(AllCalls)]
         /\ todo'[s] = Ops("single", Suggestions)
         /\ \A t \in Sessions : t # s => todo'[t] = todo[t]
<1>1. Ops("single", Suggestions) \in Seq(AllCalls)
  BY WithinOps
<1>. QED
  BY <1>1, ThenCases DEF OneByOne

LEMMA SuggestEffect ==
  ASSUME TypeOK, ProvidersAssumption, NEW s \in Sessions, Suggest(s)
  PROVE  /\ Alone(s)
         /\ UNCHANGED <<service, tool, answer, read, diff, thread, labels, text, ids, people, late, edits>>
         /\ Calls(s, "post") \/ Calls(s, "single")
         /\ Subject(s) \in Suggested
         /\ SuggestChange(s, Subject(s))
<1> DEFINE x == Subject(s)
<1>1. /\ Calls(s, "post") \/ Calls(s, "single")
      /\ todo[s] # <<>>
      /\ UNCHANGED <<service, tool, answer, read, diff, thread, labels, text, ids, people, late, edits>>
  BY NextCall DEF Suggest
<1>2. x \in Suggested
  <2>1. Head(todo[s]) \in AllCalls /\ Head(todo[s])[1] \in {"post", "single"}
    BY <1>1, NextCall, WithinTail DEF TypeOK
  <2>. QED
    BY <2>1 DEF AllCalls, Plain, Posting, Op, Subject
<1> SUFFICES Alone(s) /\ SuggestChange(s, x)
  BY <1>1, <1>2
<1>3. failures \in Nat
  BY DEF TypeOK
<1>4. CASE On({"gitlab"}) /\ SuggestGitlab(s)
  <2>1. CASE Call("refused") /\ Continue(s) /\ UNCHANGED posted
    <3>1. failures' = failures + 1 /\ failures' # failures
      BY <1>3, <2>1, CallCases
    <3>. QED
      BY <1>1, <2>1, <3>1, CallCases, ContinueOnly DEF Alone, SuggestChange, Attempt
  <2>2. ASSUME NEW o \in Outcomes, Call(o), PostedAfter(s, x, o),
               Then(s, (IF Raises(o) THEN <<<<"note", x>>>> ELSE <<>>) \o Tail(todo[s]))
        PROVE  Alone(s) /\ SuggestChange(s, x)
    <3>1. Attempt(s, x)
      BY <2>2, AttemptCases
    <3>2. CASE Raises(o)
      <4>1. <<"note", x>> \in AllCalls
        BY <1>2 DEF AllCalls, Posting
      <4>2. Then(s, <<<<"note", x>>>> \o Tail(todo[s]))
        BY <2>2, <3>2
      <4>3. Alone(s) /\ Instead(s, <<"note", x>>)
        BY <1>1, <2>2, <4>1, <4>2, CallCases, InsteadCases DEF Alone
      <4>4. failures' = failures + 1
        BY <2>2, <3>2, CallCases
      <4>. QED
        BY <1>4, <3>1, <4>3, <4>4 DEF SuggestChange
    <3>3. CASE ~Raises(o)
      <4>1. Tail(todo[s]) \in Seq(AllCalls)
        BY <1>1, NextCall
      <4>2. <<>> \o Tail(todo[s]) = Tail(todo[s])
        BY <4>1
      <4>3. Continue(s)
        BY <2>2, <3>3, <4>2 DEF Continue
      <4>4. Alone(s) /\ todo'[s] = Tail(todo[s])
        BY <1>1, <2>2, <4>3, CallCases, ContinueOnly DEF Alone
      <4>. QED
        BY <3>1, <4>4 DEF SuggestChange
    <3>. QED
      BY <3>2, <3>3
  <2>. QED
    BY <1>4, <2>1, <2>2 DEF SuggestGitlab
<1>5. CASE On({"gitea"}) /\ SuggestGitea(s)
  <2>1. PICK o \in Outcomes :
          Call(o) /\ PostedAfter(s, x, o) /\ ContinueUnless(s, Raises(o))
    BY <1>5 DEF SuggestGitea
  <2>2. Attempt(s, x)
    BY <2>1, AttemptCases
  <2>3. Alone(s) /\ Continues(s)
    BY <1>1, <2>1, CallCases, ContinueCases, BareIn DEF Alone, Continues
  <2>. QED
    BY <2>2, <2>3 DEF Continues, SuggestChange
<1>6. CASE On({"codecommit"}) /\ SuggestCodecommit(s)
  <2>1. PICK o \in Outcomes :
          Call(o) /\ PostedAfter(s, x, o) /\ ContinueUnless(s, Raises(o))
    BY <1>6 DEF SuggestCodecommit
  <2>2. Attempt(s, x)
    BY <2>1, AttemptCases
  <2>3. Alone(s) /\ Continues(s)
    BY <1>1, <2>1, CallCases, ContinueCases, BareIn DEF Alone, Continues
  <2>. QED
    BY <2>2, <2>3 DEF Continues, SuggestChange
<1>7. CASE On({"azure"}) /\ SuggestAzure(s)
  <2>1. CASE x \in Odd
    BY <1>1, <1>3, <1>7, <2>1, ContinueOnly DEF SuggestAzure, Alone, SuggestChange
  <2>2. CASE x \notin Odd
    <3>1. PICK o \in Outcomes : Continue(s) /\ Call(o) /\ PostedAfter(s, x, o)
      BY <1>7, <2>2 DEF SuggestAzure
    <3>2. Attempt(s, x)
      BY <3>1, AttemptCases
    <3>3. Alone(s) /\ todo'[s] = Tail(todo[s])
      BY <1>1, <3>1, CallCases, ContinueOnly DEF Alone
    <3>. QED
      BY <3>2, <3>3 DEF SuggestChange
  <2>. QED
    BY <2>1, <2>2
<1>8. CASE On({"bitbucket"}) /\ SuggestBitbucket(s)
  <2>g. ~On({"gitea"})
    BY <1>8 DEF On
  <2>1. CASE x \in Odd
    BY <1>1, <1>3, <1>8, <2>1, ContinueOnly DEF SuggestBitbucket, Alone, SuggestChange
  <2>2. CASE x \notin Odd
    <3>1. PICK o \in Outcomes :
            /\ Call(o) /\ PostedAfter(s, x, o)
            /\ IF o = "lost" /\ Calls(s, "post") THEN OneByOne(s) ELSE Continue(s)
      BY <1>8, <2>2 DEF SuggestBitbucket
    <3>2. Attempt(s, x)
      BY <3>1, AttemptCases
    <3>3. CASE o = "lost" /\ Calls(s, "post")
      <4>1. failures' = failures + 1
        BY <3>1, <3>3, CallCases
      <4>2. Alone(s) /\ todo'[s] = Ops("single", Suggestions)
        BY <3>1, <3>3, CallCases, OneByOneCases DEF Alone
      <4>. QED
        BY <2>g, <3>2, <3>3, <4>1, <4>2 DEF SuggestChange
    <3>4. CASE ~(o = "lost" /\ Calls(s, "post"))
      <4>1. Alone(s) /\ todo'[s] = Tail(todo[s])
        BY <1>1, <3>1, <3>4, CallCases, ContinueOnly DEF Alone
      <4>. QED
        BY <3>2, <4>1 DEF SuggestChange
    <3>. QED
      BY <3>3, <3>4
  <2>. QED
    BY <2>1, <2>2
<1>9. CASE On({"bitbucket_server"}) /\ SuggestBitbucketServer(s)
  <2>g. ~On({"gitea"})
    BY <1>9 DEF On
  <2>1. CASE x \in Odd
    BY <1>1, <1>3, <1>9, <2>1, ContinueOnly DEF SuggestBitbucketServer, Alone, SuggestChange
  <2>2. CASE x \notin Odd
    <3>1. PICK o \in Outcomes :
            /\ Call(o) /\ PostedAfter(s, x, o)
            /\ IF Raises(o) /\ Calls(s, "post") THEN OneByOne(s) ELSE Continue(s)
      BY <1>9, <2>2 DEF SuggestBitbucketServer
    <3>2. Attempt(s, x)
      BY <3>1, AttemptCases
    <3>3. CASE Raises(o) /\ Calls(s, "post")
      <4>1. failures' = failures + 1
        BY <3>1, <3>3, CallCases
      <4>2. Alone(s) /\ todo'[s] = Ops("single", Suggestions)
        BY <3>1, <3>3, CallCases, OneByOneCases DEF Alone
      <4>. QED
        BY <2>g, <3>2, <3>3, <4>1, <4>2 DEF SuggestChange
    <3>4. CASE ~(Raises(o) /\ Calls(s, "post"))
      <4>1. Alone(s) /\ todo'[s] = Tail(todo[s])
        BY <1>1, <3>1, <3>4, CallCases, ContinueOnly DEF Alone
      <4>. QED
        BY <3>2, <4>1 DEF SuggestChange
    <3>. QED
      BY <3>3, <3>4
  <2>. QED
    BY <2>1, <2>2
<1>10. CASE On({"local"}) /\ SuggestLocal(s)
  BY <1>3, <1>10, ExceptNames, ThenCases DEF SuggestLocal, Alone, SuggestChange
<1>. QED
  BY <1>4, <1>5, <1>6, <1>7, <1>8, <1>9, <1>10 DEF Suggest

LEMMA NoteEffect ==
  ASSUME TypeOK, NEW s \in Sessions, NoteGitlab(s)
  PROVE  /\ Alone(s)
         /\ UNCHANGED <<service, tool, answer, read, diff, thread, labels, text, ids, people, late, edits>>
         /\ Calls(s, "note") /\ Subject(s) \in Suggested
         /\ Attempt(s, Subject(s)) /\ todo'[s] = Tail(todo[s])
<1>1. /\ Calls(s, "note") /\ todo[s] # <<>> /\ Continue(s)
      /\ UNCHANGED <<service, tool, answer, read, diff, thread, labels, text, ids, people, late, edits>>
  BY NextCall DEF NoteGitlab
<1>2. Subject(s) \in Suggested
  <2>1. Head(todo[s]) \in AllCalls /\ Head(todo[s])[1] = "note"
    BY <1>1, NextCall, WithinTail DEF TypeOK
  <2>. QED
    BY <2>1 DEF AllCalls, Plain, Posting, Op, Subject
<1>3. PICK o \in Outcomes : Call(o) /\ PostedAfter(s, Subject(s), o)
  BY DEF NoteGitlab
<1>. QED
  BY <1>1, <1>2, <1>3, AttemptCases, CallCases, ContinueOnly DEF Alone

\* A suggestion for a file that does not exist: nothing of the batch is published.
Aborted(s) ==
  /\ On({"gerrit"}) /\ Odd # {}
  /\ todo'[s] = Except(s) /\ failures' = failures

LEMMA UploadEffect ==
  ASSUME TypeOK, NEW s \in Sessions, UploadGerrit(s)
  PROVE  /\ Alone(s)
         /\ UNCHANGED <<service, tool, answer, read, diff, thread, posted, labels, text, ids, people, late, edits>>
         /\ On({"gerrit"}) /\ Calls(s, "upload") /\ (Continues(s) \/ Aborted(s))
<1>1. /\ On({"gerrit"}) /\ Calls(s, "upload") /\ todo[s] # <<>>
      /\ UNCHANGED <<service, tool, answer, read, diff, thread, posted, labels, text, ids, people, late, edits>>
  BY NextCall DEF UploadGerrit
<1>2. CASE \E o \in Outcomes : Call(o) /\ ContinueUnless(s, Raises(o))
  <2>1. PICK o \in Outcomes : Call(o) /\ ContinueUnless(s, Raises(o))
    BY <1>2
  <2>2. Alone(s) /\ Continues(s)
    BY <1>1, <2>1, CallCases, ContinueCases, BareIn DEF Alone, Continues
  <2>. QED
    BY <1>1, <2>2
<1>3. CASE Subject(s) \in Odd /\ Then(s, Except(s)) /\ UNCHANGED failures
  <2>1. Alone(s) /\ Aborted(s)
    BY <1>1, <1>3, ExceptNames, ThenCases DEF Alone, Aborted, TypeOK
  <2>. QED
    BY <1>1, <2>1
<1>. QED
  BY <1>2, <1>3 DEF UploadGerrit

LEMMA SuggestGerritEffect ==
  ASSUME TypeOK, NEW s \in Sessions, SuggestGerrit(s)
  PROVE  /\ Alone(s)
         /\ UNCHANGED <<service, tool, answer, read, diff, thread, labels, text, ids, people, late, edits>>
         /\ Calls(s, "patches") /\ Continues(s)
         /\ \/ posted' = posted
            \/ posted' = [posted EXCEPT ![s] = [x \in Suggested |-> @[x] + 1]]
         /\ failures' = failures =>
              posted' = [posted EXCEPT ![s] = [x \in Suggested |-> @[x] + 1]]
<1>1. /\ Calls(s, "patches") /\ todo[s] # <<>>
      /\ UNCHANGED <<service, tool, answer, read, diff, thread, labels, text, ids, people, late, edits>>
  BY NextCall DEF SuggestGerrit
<1>2. PICK o \in Outcomes :
        /\ Call(o) /\ ContinueUnless(s, Raises(o))
        /\ posted' = IF Carried(o)
                     THEN [posted EXCEPT ![s] = [x \in Suggested |-> @[x] + 1]] ELSE posted
  BY DEF SuggestGerrit
<1>3. Alone(s) /\ Continues(s)
  BY <1>1, <1>2, CallCases, ContinueCases, BareIn DEF Alone, Continues
<1>4. failures' = failures => Carried(o)
  BY <1>2, CallCases DEF TypeOK
<1>. QED
  BY <1>1, <1>2, <1>3, <1>4

-----------------------------------------------------------------------------
(* Types.                                                                    *)

LEMMA ReadType ==
  ASSUME TypeOK, NEW s \in Sessions
  PROVE  /\ read[s] \in [labels : SUBSET Labels, text : Revisions, note : Nat]
         /\ read[s].labels \subseteq Labels /\ read[s].text \in Revisions
         /\ read[s].text.title \in Nat /\ read[s].text.body \in Nat
         /\ read[s].text.version \in Nat /\ read[s].note \in Nat
<1>1. read[s] \in [labels : SUBSET Labels, text : Revisions, note : Nat]
  BY DEF TypeOK
<1>. QED
  BY <1>1 DEF Revisions

\* The steps that leave what is read and published of labels and text alone.
LEMMA QuietTypes ==
  ASSUME TypeOK, NEW s \in Sessions, Alone(s), UNCHANGED <<service, tool, people, late, edits>>,
         answer' \in [Sessions -> {"none", "answer", "empty", "error"}],
         read' \in [Sessions -> [labels : SUBSET Labels, text : Revisions, note : Nat]],
         posted' \in [Sessions -> [Suggested -> Nat]],
         labels' \subseteq Labels, text' \in Revisions,
         ids' \in Nat, thread' \subseteq [id : 1..ids', kind : Kinds, by : Sessions]
  PROVE  TypeOK'
BY DEF TypeOK, Alone

LEMMA AttemptTypes ==
  ASSUME TypeOK, NEW s \in Sessions, NEW x \in Suggested, Attempt(s, x)
  PROVE  posted' \in [Sessions -> [Suggested -> Nat]]
<1>1. posted \in [Sessions -> [Suggested -> Nat]]
  BY DEF TypeOK
<1>2. CASE posted' = [posted EXCEPT ![s][x] = @ + 1]
  <2>1. posted[s] \in [Suggested -> Nat] /\ posted[s][x] + 1 \in Nat
    BY <1>1
  <2>2. [posted[s] EXCEPT ![x] = @ + 1] \in [Suggested -> Nat]
    BY <2>1
  <2>. QED
    BY <1>1, <1>2, <2>2
<1>. QED
  BY <1>1, <1>2 DEF Attempt

LEMMA ReadTypes ==
  ASSUME TypeOK, NEW s \in Sessions,
         NEW r \in [labels : SUBSET Labels, text : Revisions, note : Nat]
  PROVE  [read EXCEPT ![s] = r] \in [Sessions -> [labels : SUBSET Labels, text : Revisions, note : Nat]]
<1> DEFINE R == [labels : SUBSET Labels, text : Revisions, note : Nat]
<1>1. read \in [Sessions -> R] /\ r \in R
  BY DEF TypeOK
<1> HIDE DEF R
<1>2. [read EXCEPT ![s] = r] \in [Sessions -> R]
  BY <1>1
<1>. QED
  BY <1>2 DEF R

LEMMA NoteTypes ==
  ASSUME TypeOK, NEW s \in Sessions, NEW n \in Nat
  PROVE  [read EXCEPT ![s].note = n] \in [Sessions -> [labels : SUBSET Labels, text : Revisions, note : Nat]]
<1>1. [read[s] EXCEPT !.note = n] \in [labels : SUBSET Labels, text : Revisions, note : Nat]
  BY ReadType
<1>. QED
  BY <1>1, ReadTypes

LEMMA LabelTypes ==
  ASSUME TypeOK, NEW s \in Sessions, NEW ls \in SUBSET Labels
  PROVE  [read EXCEPT ![s].labels = ls] \in [Sessions -> [labels : SUBSET Labels, text : Revisions, note : Nat]]
<1>1. [read[s] EXCEPT !.labels = ls] \in [labels : SUBSET Labels, text : Revisions, note : Nat]
  BY ReadType
<1>. QED
  BY <1>1, ReadTypes

LEMMA TypeStep ==
  ASSUME TypeOK, ProvidersAssumption, NEW s \in Sessions, Step(s)
  PROVE  TypeOK'
<1>1. /\ answer \in [Sessions -> {"none", "answer", "empty", "error"}]
      /\ read \in [Sessions -> [labels : SUBSET Labels, text : Revisions, note : Nat]]
      /\ posted \in [Sessions -> [Suggested -> Nat]]
      /\ labels \subseteq Labels /\ text \in Revisions
      /\ ids \in Nat /\ thread \subseteq [id : 1..ids, kind : Kinds, by : Sessions]
  BY DEF TypeOK
<1>r. read \in [Sessions -> [labels : SUBSET Labels, text : Revisions, note : Nat]]
  BY DEF TypeOK
<1>4. NewLabels(s) \subseteq Labels
  BY ReadType DEF NewLabels, Labels
<1>5. Written(s) \in Revisions
  <2>1. text.version + 1 \in Nat
    BY <1>1 DEF Revisions
  <2>. QED
    BY <2>1, ReadType DEF Written, Revisions
<1>6. ASSUME Start(s) PROVE TypeOK'
  <2>r. [labels |-> labels, text |-> text, note |-> 0] \in [labels : SUBSET Labels, text : Revisions, note : Nat]
    BY <1>1
  <2>q. \/ read' = read
        \/ read' = [read EXCEPT ![s] = [labels |-> labels, text |-> text, note |-> 0]]
    BY <1>6, StartEffect
  <2>1. read' \in [Sessions -> [labels : SUBSET Labels, text : Revisions, note : Nat]]
    <3>1. [read EXCEPT ![s] = [labels |-> labels, text |-> text, note |-> 0]] \in
            [Sessions -> [labels : SUBSET Labels, text : Revisions, note : Nat]]
      BY <2>r, ReadTypes
    <3>. QED
      BY <1>r, <2>q, <3>1
  <2>2. late' \subseteq late \cup {"together"}
    BY <1>6, StartEffect
  <2>. QED
    BY <1>6, <2>1, <2>2, StartEffect DEF TypeOK, Alone
<1>7. ASSUME ReadDiff(s) PROVE TypeOK'
  <2>1. answer' \in [Sessions -> {"none", "answer", "empty", "error"}]
    BY <1>1, <1>7, ReadDiffEffect
  <2>. QED
    BY <1>1, <1>7, <2>1, ReadDiffEffect, QuietTypes
<1>8. ASSUME Think(s) PROVE TypeOK'
  <2>1. answer' \in [Sessions -> {"none", "answer", "empty", "error"}]
    BY <1>1, <1>8, ThinkEffect
  <2>. QED
    BY <1>1, <1>8, <2>1, ThinkEffect, QuietTypes
<1>9. ASSUME Temporary(s) PROVE TypeOK'
  <2>q. read' = read \/ \E n \in {0, ids + 1} : read' = [read EXCEPT ![s].note = n]
    BY <1>9, TemporaryEffect
  <2>1. read' \in [Sessions -> [labels : SUBSET Labels, text : Revisions, note : Nat]]
    <3>1. ASSUME NEW n \in {0, ids + 1}
          PROVE  [read EXCEPT ![s].note = n] \in [Sessions -> [labels : SUBSET Labels, text : Revisions, note : Nat]]
      <4>1. n \in Nat
        BY <1>1
      <4>. QED
        BY <4>1, NoteTypes
    <3>. QED
      BY <1>r, <2>q, <3>1
  <2>. QED
    BY <1>1, <1>9, <2>1, TemporaryEffect, QuietTypes DEF Commented
<1>10. ASSUME Progress(s) PROVE TypeOK'
  <2>q. \E n \in {0, ids + 1} : read' = [read EXCEPT ![s].note = n]
    BY <1>10, ProgressEffect
  <2>1. read' \in [Sessions -> [labels : SUBSET Labels, text : Revisions, note : Nat]]
    <3>1. ASSUME NEW n \in {0, ids + 1}
          PROVE  [read EXCEPT ![s].note = n] \in [Sessions -> [labels : SUBSET Labels, text : Revisions, note : Nat]]
      <4>1. n \in Nat
        BY <1>1
      <4>. QED
        BY <4>1, NoteTypes
    <3>. QED
      BY <1>r, <2>q, <3>1
  <2>. QED
    BY <1>1, <1>10, <2>1, ProgressEffect, QuietTypes DEF Commented
<1>11. ASSUME EditProgress(s) PROVE TypeOK'
  BY <1>1, <1>11, EditProgressEffect, QuietTypes
<1>12. ASSUME Say(s) PROVE TypeOK'
  BY <1>1, <1>12, SayEffect, QuietTypes DEF Commented
<1>13. ASSUME SayFailed(s) PROVE TypeOK'
  BY <1>1, <1>13, SayFailedEffect, QuietTypes DEF Commented
<1>14. ASSUME Clean(s) PROVE TypeOK'
  <2>1. thread' \subseteq [id : 1..ids', kind : Kinds, by : Sessions]
    BY <1>1, <1>14, CleanEffect
  <2>. QED
    BY <1>1, <1>14, <2>1, CleanEffect, QuietTypes
<1>15. ASSUME RemoveProgress(s) PROVE TypeOK'
  <2>1. thread' \subseteq [id : 1..ids', kind : Kinds, by : Sessions]
    BY <1>1, <1>15, RemoveProgressEffect
  <2>. QED
    BY <1>1, <1>15, <2>1, RemoveProgressEffect, QuietTypes
<1>16. ASSUME List(s) PROVE TypeOK'
  BY <1>1, <1>16, ListEffect, QuietTypes
<1>17. ASSUME Edit(s) PROVE TypeOK'
  BY <1>1, <1>17, EditEffect, QuietTypes
<1>18. ASSUME Update(s) PROVE TypeOK'
  BY <1>1, <1>18, UpdateEffect, QuietTypes DEF Commented
<1>19. ASSUME NewReview(s) PROVE TypeOK'
  BY <1>1, <1>19, NewReviewEffect, QuietTypes DEF Commented
<1>20. ASSUME GetLabels(s) PROVE TypeOK'
  <2>q. read' = read \/ \E ls \in {labels, {}} : read' = [read EXCEPT ![s].labels = ls]
    BY <1>20, GetLabelsEffect
  <2>1. read' \in [Sessions -> [labels : SUBSET Labels, text : Revisions, note : Nat]]
    <3>1. ASSUME NEW ls \in {labels, {}}
          PROVE  [read EXCEPT ![s].labels = ls] \in [Sessions -> [labels : SUBSET Labels, text : Revisions, note : Nat]]
      <4>1. ls \in SUBSET Labels
        BY <1>1
      <4>. QED
        BY <4>1, LabelTypes
    <3>. QED
      BY <1>r, <2>q, <3>1
  <2>. QED
    BY <1>1, <1>20, <2>1, GetLabelsEffect, QuietTypes
<1>21. ASSUME PutLabels(s) PROVE TypeOK'
  <2>q. labels' \subseteq labels \cup NewLabels(s) \cup {s}
    BY <1>21, PutLabelsEffect
  <2>1. labels' \subseteq Labels
    BY <1>1, <1>4, <2>q DEF Labels
  <2>. QED
    BY <1>1, <1>21, <2>1, PutLabelsEffect, QuietTypes
<1>22. ASSUME PublishDescription(s) PROVE TypeOK'
  <2>1. text' \in Revisions
    BY <1>1, <1>5, <1>22, PublishDescriptionEffect DEF Texted
  <2>. QED
    BY <1>1, <1>22, <2>1, PublishDescriptionEffect, QuietTypes DEF Commented
<1>23. ASSUME DescribeCodecommit(s) PROVE TypeOK'
  <2>q. \/ text' = text
        \/ text' = [text EXCEPT !.title = read[s].text.title, !.version = @ + 1]
        \/ text' = [text EXCEPT !.body = read[s].text.body, !.version = @ + 1]
    BY <1>23, DescribeCodecommitEffect
  <2>v. text.version + 1 \in Nat
    BY <1>1 DEF Revisions
  <2>t. read[s].text.title \in Nat /\ read[s].text.body \in Nat
    BY ReadType
  <2>1. text' \in Revisions
    BY <1>1, <2>q, <2>v, <2>t DEF Revisions
  <2>. QED
    BY <1>1, <1>23, <2>1, DescribeCodecommitEffect, QuietTypes
<1>24. ASSUME Suggest(s) PROVE TypeOK'
  <2>1. posted' = posted \/ Attempt(s, Subject(s))
    BY <1>24, SuggestEffect DEF SuggestChange
  <2>2. posted' \in [Sessions -> [Suggested -> Nat]]
    BY <1>1, <1>24, <2>1, SuggestEffect, AttemptTypes
  <2>. QED
    BY <1>1, <1>24, <2>2, SuggestEffect, QuietTypes
<1>25. ASSUME NoteGitlab(s) PROVE TypeOK'
  BY <1>1, <1>25, NoteEffect, AttemptTypes, QuietTypes
<1>26. ASSUME UploadGerrit(s) PROVE TypeOK'
  BY <1>1, <1>26, UploadEffect, QuietTypes
<1>27. ASSUME SuggestGerrit(s) PROVE TypeOK'
  <2>1. [x \in Suggested |-> posted[s][x] + 1] \in [Suggested -> Nat]
    BY <1>1
  <2>q. \/ posted' = posted
        \/ posted' = [posted EXCEPT ![s] = [x \in Suggested |-> posted[s][x] + 1]]
    BY <1>27, SuggestGerritEffect
  <2>2. posted' \in [Sessions -> [Suggested -> Nat]]
    BY <1>1, <2>1, <2>q
  <2>3. /\ Alone(s)
        /\ UNCHANGED <<service, tool, answer, read, thread, labels, text, ids, people, late, edits>>
    BY <1>27, SuggestGerritEffect
  <2>. QED
    BY <1>1, <2>2, <2>3, QuietTypes
<1>. QED
  BY <1>6, <1>7, <1>8, <1>9, <1>10, <1>11, <1>12, <1>13, <1>14, <1>15, <1>16, <1>17, <1>18,
     <1>19, <1>20, <1>21, <1>22, <1>23, <1>24, <1>25, <1>26, <1>27 DEF Step

LEMMA AddLabelEffect ==
  ASSUME TypeOK, NEW u \in UserLabels, AddLabel(u)
  PROVE  /\ labels' = labels \cup {u}
         /\ people' = [people EXCEPT !.labels = @ \cup {u}]
         /\ late' = IF \E s \in Sessions : Underway(s) THEN late \cup {u} ELSE late
         /\ edits' = edits + 1
         /\ UNCHANGED <<service, tool, answer, todo, read, diff, thread, posted, text, ids, failures>>
         /\ TypeOK'
<1>1. /\ labels' = labels \cup {u}
      /\ people' = [people EXCEPT !.labels = @ \cup {u}]
      /\ late' = IF \E s \in Sessions : Underway(s) THEN late \cup {u} ELSE late
      /\ edits' = edits + 1
      /\ UNCHANGED <<service, tool, answer, todo, read, diff, thread, posted, text, ids, failures>>
  BY DEF AddLabel
<1>2. late' \subseteq late \cup {u}
  BY <1>1
<1>3. people' \in [labels : SUBSET UserLabels, revision : Nat]
  BY <1>1 DEF TypeOK
<1>. QED
  BY <1>1, <1>2, <1>3 DEF TypeOK, Labels

LEMMA RewriteEffect ==
  ASSUME TypeOK, Rewrite
  PROVE  /\ edits' = edits + 1
         /\ people' = [people EXCEPT !.revision = edits + 1]
         /\ text' = [title |-> edits + 1, body |-> edits + 1, version |-> text.version + 1]
         /\ late' = IF \E s \in Sessions : Underway(s) THEN late \cup {"text"} ELSE late \ {"text"}
         /\ UNCHANGED <<service, tool, answer, todo, read, diff, thread, posted, labels, ids, failures>>
         /\ TypeOK'
<1>1. /\ edits' = edits + 1
      /\ people' = [people EXCEPT !.revision = edits + 1]
      /\ text' = [title |-> edits + 1, body |-> edits + 1, version |-> text.version + 1]
      /\ late' = IF \E s \in Sessions : Underway(s) THEN late \cup {"text"} ELSE late \ {"text"}
      /\ UNCHANGED <<service, tool, answer, todo, read, diff, thread, posted, labels, ids, failures>>
  BY DEF Rewrite
<1>2. late' \subseteq late \cup {"text"}
  BY <1>1
<1>3. people' \in [labels : SUBSET UserLabels, revision : Nat] /\ text' \in Revisions
  <2>1. edits + 1 \in Nat /\ text.version + 1 \in Nat
    BY DEF TypeOK, Revisions
  <2>2. people \in [labels : SUBSET UserLabels, revision : Nat]
    BY DEF TypeOK
  <2>3. people' \in [labels : SUBSET UserLabels, revision : Nat]
    BY <1>1, <2>1, <2>2
  <2>4. text' \in Revisions
    BY <1>1, <2>1 DEF Revisions
  <2>. QED
    BY <2>3, <2>4
<1>. QED
  BY <1>1, <1>2, <1>3 DEF TypeOK

LEMMA InitTypes == Init /\ ProvidersAssumption => TypeOK
<1>1. SUFFICES ASSUME Init, ProvidersAssumption PROVE TypeOK
  OBVIOUS
<1>2. service \in AllServices /\ tool \in [Sessions -> {"review", "describe", "improve"}]
  BY <1>1 DEF Init, ProvidersAssumption
<1>3. todo \in [Sessions -> Seq(AllCalls)]
  <2>1. <<Op("start")>> \in Seq(AllCalls)
    BY NamesOne DEF Plain
  <2>. QED
    BY <1>1, <2>1 DEF Init
<1>4. text \in Revisions
  BY <1>1 DEF Init, Revisions
<1>5. read \in [Sessions -> [labels : SUBSET Labels, text : Revisions, note : Nat]]
  BY <1>1, <1>4 DEF Init
<1>6. posted \in [Sessions -> [Suggested -> Nat]]
  BY <1>1 DEF Init
<1>. QED
  BY <1>1, <1>2, <1>3, <1>4, <1>5, <1>6 DEF Init, TypeOK

LEMMA NextTypes ==
  ASSUME TypeOK, ProvidersAssumption, [Next]_vars
  PROVE  TypeOK'
<1>1. UNCHANGED vars => TypeOK'
  BY DEF vars, TypeOK
<1>. QED
  BY <1>1, TypeStep, AddLabelEffect, RewriteEffect DEF Next, Quiescent

\* The variables keep their types.
THEOREM TypesHold == Spec => []TypeOK
<1>1. Init => TypeOK
  BY InitTypes, ProvidersAssumption
<1>2. TypeOK /\ [Next]_vars => TypeOK'
  BY NextTypes, ProvidersAssumption
<1>. QED
  BY <1>1, <1>2, PTL DEF Spec

-----------------------------------------------------------------------------
(* What the steps of a command have in common.                               *)

Frame(s) ==
  /\ Alone(s)
  /\ UNCHANGED <<service, tool, people, edits>>
  /\ Start(s) \/ (Underway(s) /\ late' = late)
  /\ PutLabels(s) \/ labels' = labels
  /\ PublishDescription(s) \/ DescribeCodecommit(s) \/ text' = text
  /\ \/ Start(s) \/ read' = read
     \/ \E n \in Nat : read' = [read EXCEPT ![s].note = n]
     \/ ~On({"gitlab"}) /\ \E ls : read' = [read EXCEPT ![s].labels = ls]
  /\ Suggest(s) \/ NoteGitlab(s) \/ SuggestGerrit(s) \/ posted' = posted

LEMMA FrameHolds ==
  ASSUME TypeOK, ProvidersAssumption, NEW s \in Sessions, Step(s)
  PROVE  Frame(s)
<1>0. ids + 1 \in Nat /\ 0 \in Nat
  BY DEF TypeOK
<1>1. ASSUME Start(s) PROVE Frame(s)
  BY <1>1, StartEffect DEF Frame
<1>2. ASSUME ReadDiff(s) PROVE Frame(s)
  <2>1. Underway(s)
    BY <1>2, ReadDiffEffect, NextCall
  <2>. QED
    BY <1>2, <2>1, ReadDiffEffect DEF Frame
<1>3. ASSUME Think(s) PROVE Frame(s)
  <2>1. Underway(s)
    BY <1>3, ThinkEffect, NextCall
  <2>. QED
    BY <1>3, <2>1, ThinkEffect DEF Frame
<1>4. ASSUME Temporary(s) PROVE Frame(s)
  <2>1. Underway(s)
    BY <1>4, TemporaryEffect, NextCall
  <2>2. read' = read \/ \E m \in Nat : read' = [read EXCEPT ![s].note = m]
    BY <1>0, <1>4, TemporaryEffect
  <2>. QED
    BY <1>4, <2>1, <2>2, TemporaryEffect DEF Frame
<1>5. ASSUME Progress(s) PROVE Frame(s)
  <2>1. Underway(s)
    BY <1>5, ProgressEffect, NextCall
  <2>2. read' = read \/ \E m \in Nat : read' = [read EXCEPT ![s].note = m]
    BY <1>0, <1>5, ProgressEffect
  <2>. QED
    BY <1>5, <2>1, <2>2, ProgressEffect DEF Frame
<1>6. ASSUME EditProgress(s) PROVE Frame(s)
  <2>1. Underway(s)
    BY <1>6, EditProgressEffect, NextCall
  <2>. QED
    BY <1>6, <2>1, EditProgressEffect DEF Frame
<1>7. ASSUME Say(s) PROVE Frame(s)
  <2>1. Underway(s)
    BY <1>7, SayEffect, NextCall
  <2>. QED
    BY <1>7, <2>1, SayEffect DEF Frame
<1>8. ASSUME SayFailed(s) PROVE Frame(s)
  <2>1. Underway(s)
    BY <1>8, SayFailedEffect, NextCall
  <2>. QED
    BY <1>8, <2>1, SayFailedEffect DEF Frame
<1>9. ASSUME Clean(s) PROVE Frame(s)
  <2>1. Underway(s)
    BY <1>9, CleanEffect, NextCall
  <2>. QED
    BY <1>9, <2>1, CleanEffect DEF Frame
<1>10. ASSUME RemoveProgress(s) PROVE Frame(s)
  <2>1. Underway(s)
    BY <1>10, RemoveProgressEffect, NextCall
  <2>. QED
    BY <1>10, <2>1, RemoveProgressEffect DEF Frame
<1>11. ASSUME List(s) PROVE Frame(s)
  <2>1. Underway(s)
    BY <1>11, ListEffect, NextCall
  <2>. QED
    BY <1>11, <2>1, ListEffect DEF Frame
<1>12. ASSUME Edit(s) PROVE Frame(s)
  <2>1. Underway(s)
    BY <1>12, EditEffect, NextCall
  <2>. QED
    BY <1>12, <2>1, EditEffect DEF Frame
<1>13. ASSUME Update(s) PROVE Frame(s)
  <2>1. Underway(s)
    BY <1>13, UpdateEffect, NextCall
  <2>. QED
    BY <1>13, <2>1, UpdateEffect DEF Frame
<1>14. ASSUME NewReview(s) PROVE Frame(s)
  <2>1. Underway(s)
    BY <1>14, NewReviewEffect, NextCall
  <2>. QED
    BY <1>14, <2>1, NewReviewEffect DEF Frame
<1>15. ASSUME GetLabels(s) PROVE Frame(s)
  <2>1. Underway(s)
    BY <1>15, GetLabelsEffect, NextCall
  <2>2. \/ read' = read
        \/ ~On({"gitlab"}) /\ \E ls : read' = [read EXCEPT ![s].labels = ls]
    BY <1>15, GetLabelsEffect
  <2>. QED
    BY <1>15, <2>1, <2>2, GetLabelsEffect DEF Frame
<1>16. ASSUME PutLabels(s) PROVE Frame(s)
  <2>1. Underway(s)
    BY <1>16, PutLabelsEffect, NextCall
  <2>. QED
    BY <1>16, <2>1, PutLabelsEffect DEF Frame
<1>17. ASSUME PublishDescription(s) PROVE Frame(s)
  <2>1. Underway(s)
    BY <1>17, PublishDescriptionEffect, NextCall
  <2>. QED
    BY <1>17, <2>1, PublishDescriptionEffect DEF Frame
<1>18. ASSUME DescribeCodecommit(s) PROVE Frame(s)
  <2>1. Underway(s)
    BY <1>18, DescribeCodecommitEffect, NextCall
  <2>. QED
    BY <1>18, <2>1, DescribeCodecommitEffect DEF Frame
<1>19. ASSUME Suggest(s) PROVE Frame(s)
  <2>1. Underway(s)
    BY <1>19, SuggestEffect, NextCall
  <2>. QED
    BY <1>19, <2>1, SuggestEffect DEF Frame
<1>20. ASSUME NoteGitlab(s) PROVE Frame(s)
  <2>1. Underway(s)
    BY <1>20, NoteEffect, NextCall
  <2>. QED
    BY <1>20, <2>1, NoteEffect DEF Frame
<1>21. ASSUME UploadGerrit(s) PROVE Frame(s)
  <2>1. Underway(s)
    BY <1>21, UploadEffect, NextCall
  <2>. QED
    BY <1>21, <2>1, UploadEffect DEF Frame
<1>22. ASSUME SuggestGerrit(s) PROVE Frame(s)
  <2>1. Underway(s)
    BY <1>22, SuggestGerritEffect, NextCall
  <2>. QED
    BY <1>22, <2>1, SuggestGerritEffect DEF Frame
<1>. QED
  BY <1>1, <1>2, <1>3, <1>4, <1>5, <1>6, <1>7, <1>8, <1>9, <1>10, <1>11,
     <1>12, <1>13, <1>14, <1>15, <1>16, <1>17, <1>18, <1>19, <1>20, <1>21, <1>22 DEF Step

\* A command that is under way after a step that does not start it was before.
LEMMA UnderwayBefore ==
  ASSUME NEW s \in Sessions, Alone(s), Underway(s), NEW t \in Sessions, Underway(t)'
  PROVE  Underway(t)
<1>1. CASE t = s
  BY <1>1
<1>2. CASE t # s
  <2>1. todo'[t] = todo[t]
    BY <1>2 DEF Alone
  <2>. QED
    BY <2>1 DEF Underway, Ended, Calls
<1>. QED
  BY <1>1, <1>2

-----------------------------------------------------------------------------
(* The tools keep to their course.                                           *)

LEMMA LaterNames ==
  ASSUME TypeOK, NEW s \in Sessions
  PROVE  Later(todo[s]) \subseteq Names(todo[s])
BY NamesTail, NamesNil DEF Later, TypeOK

LEMMA InsteadNames ==
  ASSUME TypeOK, NEW s \in Sessions, todo[s] # <<>>, NEW c \in AllCalls, Instead(s, c)
  PROVE  /\ Names(todo'[s]) = {c[1]} \cup Names(Tail(todo[s]))
         /\ Names(todo'[s]) \subseteq {c[1]} \cup Names(todo[s])
         /\ Later(todo'[s]) = Names(Tail(todo[s]))
<1>1. Tail(todo[s]) \in Seq(AllCalls) /\ Names(Tail(todo[s])) \subseteq Names(todo[s])
  BY WithinTail, NamesTail DEF TypeOK
<1>2. /\ Names(<<c>> \o Tail(todo[s])) = {c[1]} \cup Names(Tail(todo[s]))
      /\ Later(<<c>> \o Tail(todo[s])) = Names(Tail(todo[s]))
  BY <1>1, NamesCons
<1>. QED
  BY <1>1, <1>2 DEF Instead

\* Calls that come up while a command runs.
Recovery == {"clean", "say_failed", "delete", "list", "review", "edit", "update", "note",
             "single"}

LEMMA NextNames ==
  ASSUME TypeOK, ProvidersAssumption, NEW s \in Sessions, Step(s)
  PROVE  \/ Start(s) \/ Anew(s)
         \/ Names(todo'[s]) \subseteq Later(todo[s]) \cup Recovery
         \/ \E a \in {"answer", "empty"} : todo'[s] = Course(s, a)
<1>1. ASSUME todo'[s] = Except(s)
      PROVE  Names(todo'[s]) \subseteq Later(todo[s]) \cup Recovery
  BY <1>1, ExceptNames DEF Recovery
<1>2. ASSUME todo[s] # <<>>, todo'[s] = Tail(todo[s])
      PROVE  Names(todo'[s]) \subseteq Later(todo[s]) \cup Recovery
  <2>1. Names(Tail(todo[s])) = Later(todo[s])
    BY <1>2 DEF Later
  <2>. QED
    BY <1>2, <2>1
<1>3. ASSUME todo[s] # <<>>, Continues(s)
      PROVE  Names(todo'[s]) \subseteq Later(todo[s]) \cup Recovery
  BY <1>1, <1>2, <1>3 DEF Continues
<1>4. ASSUME Unlabelled(s)
      PROVE  Names(todo'[s]) \subseteq Later(todo[s]) \cup Recovery
  BY <1>1, <1>4, PublishReviewNames DEF Unlabelled, Recovery
<1>5. ASSUME todo[s] # <<>>, NEW c \in AllCalls, c[1] \in Recovery, Instead(s, c)
      PROVE  Names(todo'[s]) \subseteq Later(todo[s]) \cup Recovery
  BY <1>5, InsteadNames DEF Later
<1>6. ASSUME todo'[s] = Ops("single", Suggestions)
      PROVE  Names(todo'[s]) \subseteq Later(todo[s]) \cup Recovery
  <2>1. Within(Ops("single", Suggestions)) = {"single"} \X Suggested
    BY WithinOps
  <2>. QED
    BY <1>6, <2>1 DEF Names, Recovery
<1>8. CASE ReadDiff(s) \/ Think(s)
  BY <1>1, <1>2, <1>8, ReadDiffEffect, ThinkEffect, NextCall
<1>9. CASE Temporary(s) \/ Progress(s) \/ EditProgress(s) \/ Say(s) \/ SayFailed(s)
  BY <1>3, <1>9, TemporaryEffect, ProgressEffect, EditProgressEffect, SayEffect,
     SayFailedEffect, NextCall
<1>10. CASE Clean(s) \/ RemoveProgress(s) \/ NewReview(s) \/ UploadGerrit(s) \/ SuggestGerrit(s)
  BY <1>1, <1>3, <1>10, CleanEffect, RemoveProgressEffect, NewReviewEffect, UploadEffect,
     SuggestGerritEffect, NextCall DEF Aborted
<1>11. CASE List(s) \/ Edit(s) \/ Update(s)
  <2>1. todo[s] # <<>>
    BY <1>11, ListEffect, EditEffect, UpdateEffect, NextCall
  <2>2. /\ Op("review") \in AllCalls /\ Op("review")[1] \in Recovery
        /\ Op("update") \in AllCalls /\ Op("update")[1] \in Recovery
    BY OpIn DEF Plain, Recovery
  <2>3. \A id \in Nat : <<"edit", id>> \in AllCalls /\ <<"edit", id>>[1] \in Recovery
    BY DEF AllCalls, Plain, Recovery
  <2>4. \/ Instead(s, Op("review")) \/ Instead(s, Op("update"))
        \/ \E id \in Nat : Instead(s, <<"edit", id>>)
        \/ todo'[s] = Tail(todo[s])
    BY <1>11, ListEffect, EditEffect, UpdateEffect
  <2>5. ASSUME NEW id \in Nat, Instead(s, <<"edit", id>>)
        PROVE  Names(todo'[s]) \subseteq Later(todo[s]) \cup Recovery
    BY <1>5, <2>1, <2>3, <2>5
  <2>. QED
    BY <1>2, <1>5, <2>1, <2>2, <2>4, <2>5
<1>12. CASE GetLabels(s) \/ PutLabels(s)
  BY <1>2, <1>4, <1>12, GetLabelsEffect, PutLabelsEffect, NextCall
<1>13. CASE PublishDescription(s) \/ DescribeCodecommit(s)
  BY <1>1, <1>3, <1>13, PublishDescriptionEffect, DescribeCodecommitEffect, NextCall
<1>14. CASE Suggest(s)
  <2>1. todo[s] # <<>> /\ Subject(s) \in Suggested
    BY <1>14, SuggestEffect, NextCall
  <2>2. <<"note", Subject(s)>> \in AllCalls /\ <<"note", Subject(s)>>[1] \in Recovery
    BY <2>1 DEF AllCalls, Posting, Recovery
  <2>3. \/ todo'[s] = Tail(todo[s]) \/ todo'[s] = Except(s)
        \/ Instead(s, <<"note", Subject(s)>>) \/ todo'[s] = Ops("single", Suggestions)
    BY <1>14, SuggestEffect DEF SuggestChange
  <2>. QED
    BY <1>1, <1>2, <1>5, <1>6, <2>1, <2>2, <2>3
<1>15. CASE NoteGitlab(s)
  BY <1>2, <1>15, NoteEffect, NextCall
<1>. QED
  BY <1>8, <1>9, <1>10, <1>11, <1>12, <1>13, <1>14, <1>15 DEF Step

LEMMA CourseNames ==
  ASSUME TypeOK, ProvidersAssumption, NEW s \in Sessions, NEW a \in {"answer", "empty"}
  PROVE  LET names == Names(Course(s, a)) IN
         /\ {"describe", "title", "body"} \cap names # {} => tool[s] = "describe"
         /\ {"title", "body"} \cap names # {} => On({"codecommit"})
         /\ "review" \in names => ~On(Persisting)
         /\ names \cap {"diff", "think", "start", "temporary", "progress"} = {}
         /\ a = "empty" \/ tool[s] # "improve" => names \cap (Posting \cup {"upload"}) = {}
<1>1. CASE a = "empty" /\ tool[s] = "improve"
  BY <1>1, NoSuggestionsNames DEF Course, Posting
<1>2. CASE a = "empty" /\ tool[s] # "improve"
  BY <1>2, NamesOne DEF Course, Posting, Plain
<1>3. CASE a # "empty" /\ tool[s] = "review"
  BY <1>3, ReviewNames DEF Course, Posting
<1>4. CASE a # "empty" /\ tool[s] = "describe"
  BY <1>4, DescribeNames DEF Course, Posting
<1>5. CASE a # "empty" /\ tool[s] = "improve"
  BY <1>5, ImproveCalls DEF Course
<1>. QED
  BY <1>1, <1>2, <1>3, <1>4, <1>5 DEF TypeOK

LEMMA CourseStep ==
  ASSUME TypeOK, ProvidersAssumption, CourseInv, [Next]_vars
  PROVE  CourseInv'
<1>1. ASSUME NEW s \in Sessions, Step(s) PROVE CourseInv'
  <2>1. UNCHANGED <<service, tool>> /\ \A t \in Sessions : t # s => todo'[t] = todo[t]
    BY <1>1, FrameHolds DEF Frame, Alone
  <2>2. /\ {"describe", "title", "body"} \cap Names(todo'[s]) # {} => tool[s] = "describe"
        /\ {"title", "body"} \cap Names(todo'[s]) # {} => On({"codecommit"})
    <3>1. CASE Names(todo'[s]) \subseteq Later(todo[s]) \cup Recovery
      BY <3>1, LaterNames DEF CourseInv, Recovery
    <3>2. ASSUME NEW a \in {"answer", "empty"}, todo'[s] = Course(s, a)
          PROVE  /\ {"describe", "title", "body"} \cap Names(todo'[s]) # {} => tool[s] = "describe"
                 /\ {"title", "body"} \cap Names(todo'[s]) # {} => On({"codecommit"})
      BY <3>2, CourseNames
    <3>3. CASE Start(s)
      BY <3>3, StartEffect, NamesNil
    <3>4. CASE Anew(s)
      BY <3>4 DEF Anew
    <3>. QED
      BY <1>1, <3>1, <3>2, <3>3, <3>4, NextNames
  <2>3. \A t \in Sessions : t # s => Names(todo'[t]) = Names(todo[t])
    BY <2>1
  <2>4. \A ks : On(ks)' = On(ks)
    BY <2>1 DEF On
  <2>. QED
    BY <2>1, <2>2, <2>3, <2>4 DEF CourseInv
<1>2. UNCHANGED <<service, tool, todo>> => CourseInv'
  BY DEF CourseInv, On
<1>. QED
  BY <1>1, <1>2, AddLabelEffect, RewriteEffect DEF Next, Quiescent, vars

-----------------------------------------------------------------------------
(* People's labels and text.                                                 *)

LEMMA WorkKept ==
  ASSUME TypeOK, ProvidersAssumption, WorkInv, NEW s \in Sessions, Step(s), ~Start(s)
  PROVE  /\ \A t \in Sessions : Underway(t)' =>
              /\ Underway(t)
              /\ On({"gitlab"}) => read'[t].labels = read[t].labels
              /\ read'[t].text = read[t].text
         /\ UNCHANGED <<service, people, late>>
<1>1. Frame(s) /\ Alone(s) /\ Underway(s) /\ UNCHANGED <<service, people, late>>
  BY FrameHolds DEF Frame
<1>2. \A t \in Sessions : Underway(t)' => Underway(t)
  BY <1>1, UnderwayBefore
<1>3. \A t \in Sessions : /\ On({"gitlab"}) => read'[t].labels = read[t].labels
                          /\ read'[t].text = read[t].text
  <2>r. \A t \in Sessions : read[t] = [labels |-> read[t].labels, text |-> read[t].text,
                                       note |-> read[t].note]
    BY DEF TypeOK
  <2>1. CASE read' = read
    BY <2>1
  <2>2. ASSUME NEW n \in Nat, read' = [read EXCEPT ![s].note = n]
        PROVE  \A t \in Sessions : read'[t].labels = read[t].labels /\ read'[t].text = read[t].text
    BY <2>2, <2>r DEF TypeOK
  <2>3. ASSUME NEW ls, read' = [read EXCEPT ![s].labels = ls]
        PROVE  \A t \in Sessions : read'[t].text = read[t].text
    BY <2>3, <2>r DEF TypeOK
  <2>. QED
    BY <1>1, <2>1, <2>2, <2>3 DEF Frame
<1>. QED
  BY <1>1, <1>2, <1>3

\* The labels and the text of a command's own steps.
LEMMA LabelsKept ==
  ASSUME TypeOK, ProvidersAssumption, WorkInv, OthersWork, NEW s \in Sessions,
         PutLabels(s)
  PROVE  people.labels \subseteq labels' \cup (IF On({"gitlab"}) THEN late ELSE {})
<1>1. people.labels \subseteq UserLabels
  BY DEF TypeOK
<1>2. UserLabels \cap Own(s) = {}
  BY DEF ProvidersAssumption, Own
<1>3. people.labels \subseteq labels \cup (IF On({"gitlab"}) THEN late ELSE {})
  BY DEF OthersWork
<1>4. CASE On({"gitlab"}) /\ labels' = NewLabels(s)
  <2>1. Underway(s)
    BY PutLabelsEffect, NextCall
  <2>2. people.labels \subseteq read[s].labels \cup late
    BY <1>4, <2>1 DEF WorkInv
  <2>. QED
    BY <1>1, <1>2, <1>4, <2>2 DEF NewLabels
<1>5. CASE labels \subseteq labels'
  BY <1>3, <1>5
<1>. QED
  BY <1>4, <1>5, PutLabelsEffect

LEMMA TextKept ==
  ASSUME TypeOK, ProvidersAssumption, WorkInv, CourseInv, OthersWork, NEW s \in Sessions,
         PublishDescription(s) \/ DescribeCodecommit(s)
  PROVE  /\ \/ text'.title = people.revision /\ text'.body = people.revision
            \/ "text" \in late /\ ~On({"bitbucket_server"})
         /\ On({"bitbucket_server"}) =>
              \/ text' = text
              \/ /\ text'.version = text.version + 1
                 /\ text'.title = text.title /\ text'.body = text.body
<1>1. text \in Revisions
  BY DEF TypeOK
<1>2. \/ text.title = people.revision /\ text.body = people.revision
      \/ "text" \in late /\ ~On({"bitbucket_server"})
  BY DEF OthersWork
<1>3. /\ Underway(s)
      /\ DescribeCodecommit(s) => On({"codecommit"})
  <2>1. Underway(s)
    BY PublishDescriptionEffect, DescribeCodecommitEffect, NextCall
  <2>2. ASSUME DescribeCodecommit(s) PROVE On({"codecommit"})
    <3>1. "title" \in Names(todo[s]) \/ "body" \in Names(todo[s])
      <4>1. Calls(s, "title") \/ Calls(s, "body")
        BY <2>2, DescribeCodecommitEffect
      <4>2. ASSUME Calls(s, "title") PROVE Names(todo[s]) = {"title"} \cup Names(Tail(todo[s]))
        BY <4>2, NextCall
      <4>3. ASSUME Calls(s, "body") PROVE Names(todo[s]) = {"body"} \cup Names(Tail(todo[s]))
        BY <4>3, NextCall
      <4>. QED
        BY <4>1, <4>2, <4>3
    <3>. QED
      BY <3>1 DEF CourseInv
  <2>. QED
    BY <2>1, <2>2
<1>4. /\ \/ read[s].text.title = people.revision /\ read[s].text.body = people.revision
         \/ "text" \in late
      /\ On({"bitbucket_server"}) /\ read[s].text.version = text.version =>
           read[s].text.title = text.title /\ read[s].text.body = text.body
  BY <1>3 DEF WorkInv
<1>5. read[s].text \in Revisions
  BY ReadType
<1>6. CASE DescribeCodecommit(s)
  <2>1. ~On({"bitbucket_server"})
    BY <1>3, <1>6 DEF On
  <2>2. \/ text' = text
        \/ text' = [text EXCEPT !.title = read[s].text.title, !.version = @ + 1]
        \/ text' = [text EXCEPT !.body = read[s].text.body, !.version = @ + 1]
    BY <1>6, DescribeCodecommitEffect
  <2>. QED
    BY <1>1, <1>2, <1>4, <2>1, <2>2 DEF Revisions
<1>7. CASE PublishDescription(s)
  <2>1. Texted(s)
    BY <1>7, PublishDescriptionEffect
  <2>2. CASE text' = text
    BY <1>2, <2>2
  <2>3. CASE /\ text' = Written(s)
             /\ On({"bitbucket_server"}) => read[s].text.version = text.version
    <3> DEFINE r == read[s].text
    <3>r. r \in [title : Nat, body : Nat, version : Nat]
      BY <1>5 DEF Revisions
    <3>w. text' = [r EXCEPT !.version = text.version + 1]
      BY <2>3 DEF Written
    <3> HIDE DEF r
    <3>v. /\ text'.title = r.title /\ text'.body = r.body
          /\ text'.version = text.version + 1
      BY <3>r, <3>w
    <3>1. /\ text'.title = read[s].text.title /\ text'.body = read[s].text.body
          /\ text'.version = text.version + 1
      BY <3>v DEF r
    <3>. QED
      BY <1>2, <1>4, <2>3, <3>1
  <2>. QED
    BY <2>1, <2>2, <2>3 DEF Texted
<1>. QED
  BY <1>6, <1>7

LEMMA WorkStep ==
  ASSUME TypeOK, ProvidersAssumption, WorkInv, CourseInv, OthersWork, NEW s \in Sessions, Step(s)
  PROVE  WorkInv' /\ OthersWork'
<1>1. text \in Revisions /\ people.labels \subseteq UserLabels
  BY DEF TypeOK
<1>2. CASE Start(s)
  <2>1. /\ UNCHANGED <<service, labels, text, people>> /\ Alone(s)
        /\ late \subseteq late' /\ ("text" \in late' => "text" \in late)
        /\ \/ read' = read /\ todo'[s] = <<>>
           \/ read' = [read EXCEPT ![s] = [labels |-> labels, text |-> text, note |-> 0]]
    BY <1>2, StartEffect
  <2>2. \A ks : On(ks)' = On(ks)
    BY <2>1 DEF On
  <2>3. OthersWork'
    BY <2>1, <2>2 DEF OthersWork
  <2>4. ASSUME NEW t \in Sessions, Underway(t)'
        PROVE  /\ On({"gitlab"}) => people.labels \subseteq read'[t].labels \cup late'
               /\ \/ read'[t].text.title = people.revision /\ read'[t].text.body = people.revision
                  \/ "text" \in late'
               /\ On({"bitbucket_server"}) =>
                    /\ read'[t].text.version <= text.version
                    /\ read'[t].text.version = text.version =>
                         /\ read'[t].text.title = text.title
                         /\ read'[t].text.body = text.body
    <3>1. CASE t = s
      <4>1. read'[s] = [labels |-> labels, text |-> text, note |-> 0]
        <5>1. todo'[s] # <<>>
          BY <2>4, <3>1 DEF Underway, Ended
        <5>. QED
          BY <2>1, <5>1 DEF TypeOK
      <4>2. text.version <= text.version
        BY <1>1 DEF Revisions
      <4>. QED
        BY <2>1, <3>1, <4>1, <4>2 DEF OthersWork
    <3>2. CASE t # s
      <4>1. todo'[t] = todo[t] /\ read'[t] = read[t]
        BY <2>1, <3>2 DEF Alone, TypeOK
      <4>2. Underway(t)
        BY <2>4, <4>1 DEF Underway, Ended, Calls
      <4>. QED
        BY <2>1, <4>1, <4>2 DEF WorkInv
    <3>. QED
      BY <3>1, <3>2
  <2>. QED
    BY <2>1, <2>2, <2>3, <2>4 DEF WorkInv
<1>3. CASE ~Start(s)
  <2>1. /\ \A t \in Sessions : Underway(t)' =>
             /\ Underway(t)
             /\ On({"gitlab"}) => read'[t].labels = read[t].labels
             /\ read'[t].text = read[t].text
        /\ UNCHANGED <<service, people, late>>
    BY <1>3, WorkKept
  <2>2. \A ks : On(ks)' = On(ks)
    BY <2>1 DEF On
  <2>3. people.labels \subseteq labels' \cup (IF On({"gitlab"}) THEN late ELSE {})
    <3>1. CASE labels' = labels
      BY <3>1 DEF OthersWork
    <3>. QED
      BY <1>3, <3>1, FrameHolds, LabelsKept DEF Frame
  <2>4. /\ \/ text'.title = people.revision /\ text'.body = people.revision
           \/ "text" \in late /\ ~On({"bitbucket_server"})
        /\ On({"bitbucket_server"}) =>
             \/ text' = text
             \/ /\ text'.version = text.version + 1
                /\ text'.title = text.title /\ text'.body = text.body
    <3>1. CASE text' = text
      BY <3>1 DEF OthersWork
    <3>. QED
      BY <1>3, <3>1, FrameHolds, TextKept DEF Frame
  <2>5. OthersWork'
    BY <2>1, <2>2, <2>3, <2>4 DEF OthersWork
  <2>6. ASSUME NEW t \in Sessions, Underway(t)', On({"bitbucket_server"})
        PROVE  /\ read'[t].text.version <= text'.version
               /\ read'[t].text.version = text'.version =>
                    /\ read'[t].text.title = text'.title
                    /\ read'[t].text.body = text'.body
    <3>1. /\ read'[t].text = read[t].text
          /\ read[t].text.version <= text.version
          /\ read[t].text.version = text.version =>
               read[t].text.title = text.title /\ read[t].text.body = text.body
      BY <2>1, <2>6 DEF WorkInv
    <3>2. read[t].text.version \in Nat /\ text.version \in Nat
      BY <1>1, ReadType DEF Revisions
    <3>. QED
      BY <2>4, <2>6, <3>1, <3>2
  <2>7. ASSUME NEW t \in Sessions, Underway(t)'
        PROVE  /\ On({"gitlab"}) => people.labels \subseteq read'[t].labels \cup late
               /\ \/ read'[t].text.title = people.revision /\ read'[t].text.body = people.revision
                  \/ "text" \in late
    BY <2>1, <2>7 DEF WorkInv
  <2>. QED
    BY <2>1, <2>2, <2>5, <2>6, <2>7 DEF WorkInv
<1>. QED
  BY <1>2, <1>3

LEMMA WorkNext ==
  ASSUME TypeOK, ProvidersAssumption, WorkInv, CourseInv, OthersWork, [Next]_vars
  PROVE  WorkInv' /\ OthersWork'
<1>1. CASE \E s \in Sessions : Step(s)
  BY <1>1, WorkStep
<1>2. ASSUME UNCHANGED <<service, todo, read>>,
             \A t \in Sessions : Underway(t) =>
               /\ On({"gitlab"}) => people'.labels \subseteq read[t].labels \cup late'
               /\ \/ read[t].text.title = people'.revision /\ read[t].text.body = people'.revision
                  \/ "text" \in late'
               /\ On({"bitbucket_server"}) => text'.version = text.version + 1 \/ text' = text
      PROVE  WorkInv'
  <2>1. \A ks : On(ks)' = On(ks)
    BY <1>2 DEF On
  <2>2. \A t \in Sessions : Underway(t)' <=> Underway(t)
    BY <1>2 DEF Underway, Ended, Calls
  <2>3. ASSUME NEW t \in Sessions, Underway(t), On({"bitbucket_server"})
        PROVE  /\ read[t].text.version <= text'.version
               /\ read[t].text.version = text'.version =>
                    /\ read[t].text.title = text'.title
                    /\ read[t].text.body = text'.body
    <3>1. /\ read[t].text.version <= text.version
          /\ read[t].text.version = text.version =>
               read[t].text.title = text.title /\ read[t].text.body = text.body
          /\ text'.version = text.version + 1 \/ text' = text
      BY <1>2, <2>3 DEF WorkInv
    <3>2. read[t].text.version \in Nat /\ text.version \in Nat
      BY ReadType DEF TypeOK, Revisions
    <3>. QED
      BY <3>1, <3>2
  <2>. QED
    BY <1>2, <2>1, <2>2, <2>3 DEF WorkInv
<1>3. ASSUME NEW u \in UserLabels, AddLabel(u) PROVE WorkInv' /\ OthersWork'
  <2>1. /\ labels' = labels \cup {u} /\ people' = [people EXCEPT !.labels = @ \cup {u}]
        /\ late' = IF \E s \in Sessions : Underway(s) THEN late \cup {u} ELSE late
        /\ UNCHANGED <<service, todo, read, text>>
    BY <1>3, AddLabelEffect
  <2>2. people'.labels = people.labels \cup {u} /\ people'.revision = people.revision
    BY <2>1 DEF TypeOK
  <2>3. late \subseteq late' /\ \A t \in Sessions : Underway(t) => u \in late'
    BY <2>1
  <2>4. WorkInv'
    BY <1>2, <2>1, <2>2, <2>3 DEF WorkInv
  <2>5. OthersWork'
    <3>1. \A ks : On(ks)' = On(ks)
      BY <2>1 DEF On
    <3>. QED
      BY <2>1, <2>2, <2>3, <3>1 DEF OthersWork
  <2>. QED
    BY <2>4, <2>5
<1>4. ASSUME Rewrite PROVE WorkInv' /\ OthersWork'
  <2>1. /\ people' = [people EXCEPT !.revision = edits + 1]
        /\ text' = [title |-> edits + 1, body |-> edits + 1, version |-> text.version + 1]
        /\ late' = IF \E s \in Sessions : Underway(s) THEN late \cup {"text"} ELSE late \ {"text"}
        /\ UNCHANGED <<service, todo, read, labels>>
    BY <1>4, RewriteEffect
  <2>2. /\ people'.labels = people.labels /\ people'.revision = edits + 1
        /\ text'.title = edits + 1 /\ text'.body = edits + 1 /\ text'.version = text.version + 1
    BY <2>1 DEF TypeOK
  <2>3. /\ late \ {"text"} \subseteq late'
        /\ \A t \in Sessions : Underway(t) => late \cup {"text"} \subseteq late'
    BY <2>1
  <2>4. WorkInv'
    BY <1>2, <2>1, <2>2, <2>3 DEF WorkInv
  <2>5. OthersWork'
    <3>1. \A ks : On(ks)' = On(ks)
      BY <2>1 DEF On
    <3>2. "text" \notin UserLabels /\ people.labels \subseteq UserLabels
      BY DEF ProvidersAssumption, TypeOK
    <3>. QED
      BY <2>1, <2>2, <2>3, <3>1, <3>2 DEF OthersWork
  <2>. QED
    BY <2>4, <2>5
<1>5. CASE UNCHANGED vars
  <2>1. OthersWork'
    BY <1>5 DEF vars, OthersWork, On
  <2>2. WorkInv'
    BY <1>2, <1>5 DEF vars, WorkInv
  <2>. QED
    BY <2>1, <2>2
<1>. QED
  BY <1>1, <1>3, <1>4, <1>5 DEF Next, Quiescent

\* On every service, a label of a person's stays, unless it was put there while a
\* command ran on GitLab, whose provider writes all labels as they were when it
\* started (gitlab_provider.py, publish_labels); and the author's title and
\* description stay, unless they were written while a command ran on a service
\* other than Bitbucket Server, which refuses an outdated version.
THEOREM OthersWorkHolds == Spec => []OthersWork
<1> DEFINE Inv == TypeOK /\ CourseInv /\ WorkInv /\ OthersWork
<1>1. Init => Inv
  <2>1. SUFFICES ASSUME Init PROVE Inv
    OBVIOUS
  <2>2. TypeOK
    BY <2>1, InitTypes, ProvidersAssumption
  <2>3. \A s \in Sessions : ~Underway(s) /\ Names(todo[s]) = {"start"}
    <3>1. SUFFICES ASSUME NEW s \in Sessions
                   PROVE  ~Underway(s) /\ Names(todo[s]) = {"start"}
      OBVIOUS
    <3>2. todo[s] = <<Op("start")>>
      BY <2>1 DEF Init
    <3>3. Names(todo[s]) = {"start"}
      BY <3>2, NamesOne DEF Plain
    <3>4. Calls(s, "start")
      BY <3>2 DEF Calls, Op
    <3>. QED
      BY <3>3, <3>4 DEF Underway
  <2>4. CourseInv /\ WorkInv
    BY <2>3 DEF CourseInv, WorkInv
  <2>5. OthersWork
    BY <2>1 DEF Init, OthersWork
  <2>. QED
    BY <2>2, <2>4, <2>5
<1>2. Inv /\ [Next]_vars => Inv'
  BY NextTypes, CourseStep, WorkNext, ProvidersAssumption
<1>3. Inv => OthersWork
  OBVIOUS
<1>. QED
  BY <1>1, <1>2, <1>3, PTL DEF Spec

-----------------------------------------------------------------------------
(* One review.                                                               *)

\* Numbers up to n, of which there are any, have a least and a greatest.
LEMMA LeastOf ==
  ASSUME NEW T \in SUBSET Nat, T # {}
  PROVE  \E m \in T : \A k \in T : m <= k
<1> DEFINE Less == {p \in Nat \X Nat : p[1] < p[2]}
<1>1. IsWellFoundedOn(Less, Nat)
  BY NatLessThanWellFounded DEF OpToRel
<1> HIDE DEF Less
<1>2. PICK m \in T : \A k \in T : <<k, m>> \notin Less
  BY <1>1, WFMin
<1>3. \A k \in T : ~(k < m)
  BY <1>2 DEF Less
<1>. QED
  BY <1>2, <1>3

LEMMA GreatestOf ==
  ASSUME NEW n \in Nat, NEW T \in SUBSET (1..n), T # {}
  PROVE  \E m \in T : \A k \in T : k <= m
<1> DEFINE Bounds == {b \in Nat : \A k \in T : k <= b}
<1>1. n \in Bounds /\ Bounds \in SUBSET Nat
  OBVIOUS
<1>2. PICK b \in Bounds : \A c \in Bounds : b <= c
  <2> HIDE DEF Bounds
  <2>. QED
    BY <1>1, LeastOf
<1>3. b \in T
  <2>1. SUFFICES ASSUME b \notin T PROVE FALSE
    OBVIOUS
  <2>2. PICK k \in T : TRUE
    OBVIOUS
  <2>3. b >= 1 /\ b - 1 \in Nat
    BY <2>2
  <2>4. \A j \in T : j <= b /\ j # b /\ j \in Int
    BY <2>1
  <2>5. b - 1 \in Bounds
    BY <2>3, <2>4
  <2>6. b <= b - 1 /\ b \in Nat
    BY <1>2, <2>5
  <2>. QED
    BY <2>6
<1>. QED
  BY <1>3

\* Where there are reviews, the provider finds one.
LEMMA PreviousFound ==
  ASSUME TypeOK, Previous = {}
  PROVE  Reviews = {}
<1>1. SUFFICES ASSUME Reviews # {} PROVE FALSE
  OBVIOUS
<1> DEFINE T == {c.id : c \in Reviews}
<1>2. T \in SUBSET (1..ids) /\ T \in SUBSET Nat /\ T # {} /\ ids \in Nat
  BY <1>1 DEF TypeOK, Reviews
<1>3. \A r \in Reviews : (\A q \in Reviews : IF On({"azure"}) THEN q.id <= r.id ELSE r.id <= q.id)
                         => r.id \in Previous
  BY DEF Previous
<1>4. CASE On({"azure"})
  <2>1. PICK m \in T : \A k \in T : k <= m
    <3> HIDE DEF T
    <3>. QED
      BY <1>2, GreatestOf
  <2>2. PICK r \in Reviews : r.id = m
    BY <2>1
  <2>3. \A q \in Reviews : q.id <= r.id
    BY <2>1, <2>2
  <2>. QED
    BY <1>3, <1>4, <2>2, <2>3
<1>5. CASE ~On({"azure"})
  <2>1. PICK m \in T : \A k \in T : m <= k
    <3> HIDE DEF T
    <3>. QED
      BY <1>2, LeastOf
  <2>2. PICK r \in Reviews : r.id = m
    BY <2>1
  <2>3. \A q \in Reviews : r.id <= q.id
    BY <2>1, <2>2
  <2>. QED
    BY <1>3, <1>5, <2>2, <2>3
<1>. QED
  BY <1>4, <1>5

\* A list of calls whose first is of the name n.
LEMMA FirstName ==
  ASSUME NEW q \in Seq(AllCalls), q # <<>>
  PROVE  Head(q)[1] \in Names(q)
BY NamesTail

\* The review comes up when there is none to replace, or a call failed.
LEMMA ReviewPlan ==
  ASSUME TypeOK, ProvidersAssumption, NEW s \in Sessions, Step(s), On(Persisting),
         "review" \notin Later(todo[s])
  PROVE  /\ "review" \notin Later(todo'[s])
         /\ Calls(s, "review")' =>
              /\ List(s) \/ Edit(s) \/ Update(s)
              /\ Previous = {} \/ failures' = failures + 1
<1> DEFINE Bare == "review" \notin Names(todo'[s])
           Due == /\ "review" \notin Later(todo'[s])
                  /\ Calls(s, "review")' =>
                       /\ List(s) \/ Edit(s) \/ Update(s)
                       /\ Previous = {} \/ failures' = failures + 1
<1>1. todo' \in [Sessions -> Seq(AllCalls)] /\ todo'[s] \in Seq(AllCalls)
  BY FrameHolds DEF Frame, Alone
<1>2. ASSUME Bare PROVE Due
  <2>1. "review" \notin Later(todo'[s])
    <3>1. CASE todo'[s] = <<>>
      BY <3>1, WithinNil
    <3>2. CASE todo'[s] # <<>>
      BY <1>1, <1>2, <3>2, NamesTail
    <3>. QED
      BY <3>1, <3>2
  <2>2. ~(Calls(s, "review")')
    BY <1>1, <1>2, FirstName DEF Calls
  <2>. QED
    BY <2>1, <2>2
<1>3. ASSUME todo'[s] = Except(s) PROVE Due
  BY <1>2, <1>3, ExceptNames
<1>4. ASSUME todo[s] # <<>>, todo'[s] = Tail(todo[s]) PROVE Due
  <2>1. Later(todo[s]) = Names(Tail(todo[s]))
    BY <1>4, NamesTail DEF TypeOK
  <2>. QED
    BY <1>2, <1>4, <2>1
<1>5. ASSUME todo[s] # <<>>, Continues(s) PROVE Due
  BY <1>3, <1>4, <1>5 DEF Continues
<1>6. ASSUME Unlabelled(s) PROVE Due
  <2>1. "review" \notin Names(PublishReview)
    BY PublishReviewNames
  <2>. QED
    BY <1>2, <1>3, <1>6, <2>1 DEF Unlabelled
<1>7. ASSUME todo[s] # <<>>, NEW c \in AllCalls, Instead(s, c),
             \/ c[1] # "review"
             \/ /\ List(s) \/ Edit(s) \/ Update(s)
                /\ Previous = {} \/ failures' = failures + 1
      PROVE  Due
  <2>1. Later(todo'[s]) = Later(todo[s])
    BY <1>7, InsteadNames, NamesTail DEF TypeOK
  <2>2. Head(todo'[s]) = c
    BY <1>7, WithinTail, WithinCons DEF Instead, TypeOK
  <2>3. Calls(s, "review")' => c[1] = "review"
    BY <2>2 DEF Calls
  <2>. QED
    BY <1>7, <2>1, <2>3
<1>8. ASSUME todo'[s] = Ops("single", Suggestions) PROVE Due
  <2>1. Within(Ops("single", Suggestions)) = {"single"} \X Suggested
    BY WithinOps
  <2>2. Bare
    BY <1>8, <2>1 DEF Names
  <2>. QED
    BY <1>2, <2>2
<1>9. ASSUME Names(todo'[s]) = {"diff", "think"} PROVE Due
  BY <1>2, <1>9
<1> HIDE DEF Due, Bare
<1>10. CASE Start(s)
  <2>1. Bare
    BY <1>10, StartEffect, NamesNil DEF Bare
  <2>. QED
    BY <1>2, <2>1 DEF Due
<1>11. CASE ReadDiff(s)
  BY <1>3, <1>4, <1>9, <1>11, ReadDiffEffect, NextCall DEF Due, Anew
<1>12. CASE Think(s)
  <2>1. ASSUME NEW a \in {"answer", "empty"}, todo'[s] = Course(s, a) PROVE Due
    BY <1>2, <2>1, CourseNames DEF Bare
  <2>. QED
    BY <1>3, <1>9, <1>12, <2>1, ThinkEffect DEF Due, Anew
<1>13. CASE Temporary(s) \/ Progress(s) \/ EditProgress(s) \/ Say(s) \/ SayFailed(s)
  BY <1>5, <1>13, TemporaryEffect, ProgressEffect, EditProgressEffect, SayEffect,
     SayFailedEffect, NextCall DEF Due
<1>14. CASE Clean(s) \/ RemoveProgress(s) \/ NewReview(s) \/ UploadGerrit(s) \/ SuggestGerrit(s)
  BY <1>3, <1>5, <1>14, CleanEffect, RemoveProgressEffect, NewReviewEffect, UploadEffect,
     SuggestGerritEffect, NextCall DEF Due, Aborted
<1>15. CASE List(s) \/ Edit(s) \/ Update(s)
  <2>1. todo[s] # <<>>
    BY <1>15, ListEffect, EditEffect, UpdateEffect, NextCall
  <2>2. /\ Op("review") \in AllCalls /\ Op("update") \in AllCalls
        /\ Op("update")[1] = "update"
    BY OpIn DEF Plain
  <2>3. \/ Instead(s, Op("review")) /\ (Previous = {} \/ failures' = failures + 1)
        \/ Instead(s, Op("update"))
        \/ \E id \in Nat : Instead(s, <<"edit", id>>)
        \/ todo'[s] = Tail(todo[s])
    BY <1>15, ListEffect, EditEffect, UpdateEffect
  <2>4. ASSUME NEW id \in Nat, Instead(s, <<"edit", id>>) PROVE Due
    <3>1. <<"edit", id>> \in AllCalls /\ <<"edit", id>>[1] = "edit"
      BY DEF AllCalls, Plain
    <3>. QED
      BY <1>7, <2>1, <2>4, <3>1
  <2>5. ASSUME Instead(s, Op("review")), Previous = {} \/ failures' = failures + 1 PROVE Due
    BY <1>7, <1>15, <2>1, <2>2, <2>5
  <2>6. ASSUME Instead(s, Op("update")) PROVE Due
    BY <1>7, <2>1, <2>2, <2>6
  <2>. QED
    BY <1>4, <2>1, <2>3, <2>4, <2>5, <2>6 DEF Due
<1>16. CASE GetLabels(s) \/ PutLabels(s)
  BY <1>4, <1>6, <1>16, GetLabelsEffect, PutLabelsEffect, NextCall DEF Due
<1>17. CASE PublishDescription(s) \/ DescribeCodecommit(s)
  BY <1>3, <1>5, <1>17, PublishDescriptionEffect, DescribeCodecommitEffect, NextCall DEF Due
<1>18. CASE Suggest(s)
  <2>1. todo[s] # <<>> /\ Subject(s) \in Suggested
    BY <1>18, SuggestEffect, NextCall
  <2>2. <<"note", Subject(s)>> \in AllCalls /\ <<"note", Subject(s)>>[1] = "note"
    BY <2>1 DEF AllCalls, Posting
  <2>3. \/ todo'[s] = Tail(todo[s]) \/ todo'[s] = Except(s)
        \/ Instead(s, <<"note", Subject(s)>>) \/ todo'[s] = Ops("single", Suggestions)
    BY <1>18, SuggestEffect DEF SuggestChange
  <2>4. ASSUME Instead(s, <<"note", Subject(s)>>) PROVE Due
    BY <1>7, <2>1, <2>2, <2>4
  <2>. QED
    BY <1>3, <1>4, <1>8, <2>1, <2>3, <2>4 DEF Due
<1>19. CASE NoteGitlab(s)
  BY <1>4, <1>19, NoteEffect, NextCall DEF Due
<1>. QED
  BY <1>10, <1>11, <1>12, <1>13, <1>14, <1>15, <1>16, <1>17, <1>18, <1>19 DEF Step

\* Only NewReview adds a review.
LEMMA ReviewsAfter ==
  ASSUME TypeOK, ProvidersAssumption, NEW s \in Sessions, Step(s)
  PROVE  \/ Reviews' \subseteq Reviews
         \/ /\ Calls(s, "review") /\ Continues(s)
            /\ Reviews' \subseteq Reviews \cup {New(s, "review")}
<1>1. ASSUME NEW kind \in {"temporary", "progress", "said", "update"}, Commented(s, kind)
      PROVE  Reviews' \subseteq Reviews
  BY <1>1 DEF Commented, New, Reviews
<1>2. ASSUME thread' \subseteq thread PROVE Reviews' \subseteq Reviews
  BY <1>2 DEF Reviews
<1>3. CASE Temporary(s)
  BY <1>1, <1>3, TemporaryEffect
<1>4. CASE Progress(s)
  BY <1>1, <1>4, ProgressEffect
<1>5. CASE Say(s) \/ SayFailed(s) \/ PublishDescription(s)
  BY <1>1, <1>5, SayEffect, SayFailedEffect, PublishDescriptionEffect
<1>6. CASE Update(s)
  BY <1>1, <1>6, UpdateEffect
<1>7. CASE EditProgress(s)
  BY <1>7, EditProgressEffect DEF Reviews
<1>8. CASE Clean(s) \/ RemoveProgress(s)
  BY <1>2, <1>8, CleanEffect, RemoveProgressEffect
<1>9. CASE NewReview(s)
  BY <1>9, NewReviewEffect DEF Commented, Reviews
<1>10. CASE Start(s) \/ ReadDiff(s) \/ Think(s) \/ List(s) \/ Edit(s) \/ GetLabels(s) \/ PutLabels(s)
  BY <1>2, <1>10, StartEffect, ReadDiffEffect, ThinkEffect, ListEffect, EditEffect,
     GetLabelsEffect, PutLabelsEffect
<1>11. CASE \/ DescribeCodecommit(s) \/ Suggest(s) \/ NoteGitlab(s) \/ UploadGerrit(s)
            \/ SuggestGerrit(s)
  BY <1>2, <1>11, DescribeCodecommitEffect, SuggestEffect, NoteEffect, UploadEffect,
     SuggestGerritEffect
<1>. QED
  BY <1>3, <1>4, <1>5, <1>6, <1>7, <1>8, <1>9, <1>10, <1>11 DEF Step

LEMMA ReviewCount ==
  ASSUME TypeOK, ProvidersAssumption, ReviewInv, On(Persisting), NEW s \in Sessions, Step(s)
  PROVE  /\ IsFiniteSet(Reviews')
         /\ Cardinality(Reviews') \in Nat /\ Cardinality(Reviews) \in Nat
         /\ \/ Cardinality(Reviews') <= Cardinality(Reviews)
            \/ /\ Calls(s, "review") /\ Continues(s)
               /\ Cardinality(Reviews') <= Cardinality(Reviews) + 1
<1>1. IsFiniteSet(Reviews) /\ Cardinality(Reviews) \in Nat
  BY FS_CardinalityType DEF ReviewInv
<1>2. CASE Reviews' \subseteq Reviews
  BY <1>1, <1>2, FS_Subset, FS_CardinalityType
<1>3. CASE Calls(s, "review") /\ Continues(s) /\ Reviews' \subseteq Reviews \cup {New(s, "review")}
  <2> DEFINE more == Reviews \cup {New(s, "review")}
  <2>0. /\ IsFiniteSet(more)
        /\ Cardinality(more) = Cardinality(Reviews) \/ Cardinality(more) = Cardinality(Reviews) + 1
    BY <1>1, FS_AddElement
  <2> HIDE DEF more
  <2>1. IsFiniteSet(more) /\ Cardinality(more) \in Nat
        /\ Cardinality(more) <= Cardinality(Reviews) + 1
    BY <1>1, <2>0, FS_CardinalityType
  <2>2. Reviews' \subseteq more
    BY <1>3 DEF more
  <2>. QED
    BY <1>1, <1>3, <2>1, <2>2, FS_Subset, FS_CardinalityType
<1>. QED
  BY <1>2, <1>3, ReviewsAfter

LEMMA ReviewStep ==
  ASSUME TypeOK, ProvidersAssumption, ReviewInv, NEW s \in Sessions, Step(s)
  PROVE  ReviewInv'
<1>1. Alone(s) /\ Frame(s) /\ UNCHANGED service /\ failures \in Nat /\ failures' \in Nat
      /\ failures' >= failures
  BY FrameHolds DEF Frame, Alone, TypeOK
<1>2. \A ks : On(ks)' = On(ks)
  BY <1>1 DEF On
<1>3. ASSUME "together" \notin late'
      PROVE  /\ "together" \notin late
             /\ \A t, u \in Sessions : Underway(t)' /\ Underway(u)' => t = u
             /\ ~Start(s) => \A t \in Sessions : Underway(t)' => t = s
  <2>1. CASE ~Start(s)
    <3>1. Underway(s) /\ late' = late
      BY <1>1, <2>1 DEF Frame
    <3>2. \A t \in Sessions : Underway(t)' => Underway(t)
      BY <1>1, <3>1, UnderwayBefore
    <3>. QED
      BY <1>3, <3>1, <3>2 DEF ReviewInv
  <2>2. CASE Start(s)
    <3>1. \A t \in Sessions : t # s => (Underway(t)' <=> Underway(t))
      BY <1>1 DEF Alone, Underway, Ended, Calls
    <3>2. CASE todo'[s] = <<>> /\ late' = late
      <4>1. ~(Underway(s)')
        BY <3>2 DEF Underway, Ended
      <4>. QED
        BY <1>3, <2>2, <3>1, <3>2, <4>1 DEF ReviewInv
    <3>3. CASE late' = IF \E t \in Sessions \ {s} : Underway(t) THEN late \cup {"together"} ELSE late
      <4>1. \A t \in Sessions : t # s => ~Underway(t)
        BY <1>3, <3>3
      <4>. QED
        BY <1>3, <2>2, <3>1, <3>3, <4>1
    <3>. QED
      BY <2>2, <3>2, <3>3, StartEffect
  <2>. QED
    BY <2>1, <2>2
<1>4. ASSUME On(Persisting)
      PROVE  /\ IsFiniteSet(Reviews')
             /\ \A t \in Sessions : "review" \notin Later(todo'[t])
             /\ "together" \notin late' =>
                  /\ Cardinality(Reviews') <= 1 + failures'
                  /\ \A t \in Sessions : Calls(t, "review")' => Cardinality(Reviews') <= failures'
  <2>1. /\ IsFiniteSet(Reviews')
        /\ Cardinality(Reviews') \in Nat /\ Cardinality(Reviews) \in Nat
        /\ \/ Cardinality(Reviews') <= Cardinality(Reviews)
           \/ /\ Calls(s, "review") /\ Continues(s)
              /\ Cardinality(Reviews') <= Cardinality(Reviews) + 1
    BY <1>4, ReviewCount
  <2>2. /\ "review" \notin Later(todo'[s])
        /\ Calls(s, "review")' =>
             /\ List(s) \/ Edit(s) \/ Update(s)
             /\ Previous = {} \/ failures' = failures + 1
    BY <1>4, ReviewPlan DEF ReviewInv
  <2>3. \A t \in Sessions : "review" \notin Later(todo'[t])
    <3>1. \A t \in Sessions : t # s => todo'[t] = todo[t]
      BY <1>1 DEF Alone
    <3>. QED
      BY <1>4, <2>2, <3>1 DEF ReviewInv
  <2>4. ASSUME "together" \notin late'
        PROVE  /\ Cardinality(Reviews') <= 1 + failures'
               /\ \A t \in Sessions : Calls(t, "review")' => Cardinality(Reviews') <= failures'
    <3>1. /\ Cardinality(Reviews) <= 1 + failures
          /\ \A t \in Sessions : Calls(t, "review") => Cardinality(Reviews) <= failures
      BY <1>3, <1>4, <2>4 DEF ReviewInv
    <3>2. Cardinality(Reviews') <= 1 + failures'
      BY <1>1, <2>1, <3>1
    <3>3. ASSUME NEW t \in Sessions, Calls(t, "review")'
          PROVE  Cardinality(Reviews') <= failures'
      <4>1. CASE t = s
        <5>1. ~Calls(s, "review")
          <6>1. Calls(s, "list") \/ Calls(s, "edit") \/ Calls(s, "update")
            BY <2>2, <3>3, <4>1, ListEffect, EditEffect, UpdateEffect
          <6>. QED
            BY <6>1 DEF Calls
        <5>2. Cardinality(Reviews') <= Cardinality(Reviews)
          BY <2>1, <5>1
        <5>3. CASE Previous = {}
          <6>1. Cardinality(Reviews) = 0
            BY <5>3, PreviousFound, FS_EmptySet
          <6>. QED
            BY <1>1, <2>1, <5>2, <6>1
        <5>4. CASE failures' = failures + 1
          BY <1>1, <2>1, <3>1, <5>2, <5>4
        <5>. QED
          BY <2>2, <3>3, <4>1, <5>3, <5>4
      <4>2. CASE t # s
        <5>1. todo'[t] = todo[t]
          BY <1>1, <4>2 DEF Alone
        <5>2. Calls(t, "review") /\ Underway(t)'
          BY <3>3, <5>1 DEF Calls, Underway, Ended
        <5>3. Start(s)
          BY <1>3, <2>4, <4>2, <5>2
        <5>4. Calls(s, "start")
          BY <5>3 DEF Start
        <5>5. ~Calls(s, "review")
          BY <5>4 DEF Calls
        <5>. QED
          BY <1>1, <2>1, <3>1, <5>2, <5>5
      <4>. QED
        BY <4>1, <4>2
    <3>. QED
      BY <3>2, <3>3
  <2>. QED
    BY <2>1, <2>3, <2>4
<1>. QED
  BY <1>2, <1>3, <1>4 DEF ReviewInv

LEMMA ReviewNext ==
  ASSUME TypeOK, ProvidersAssumption, ReviewInv, [Next]_vars
  PROVE  ReviewInv'
<1>1. ASSUME UNCHANGED <<service, todo, thread, failures>>, late \subseteq late' \cup {"text"}
      PROVE  ReviewInv'
  <2>1. /\ \A ks : On(ks)' = On(ks)
        /\ \A t \in Sessions : Underway(t)' <=> Underway(t)
        /\ \A t \in Sessions : Calls(t, "review")' <=> Calls(t, "review")
        /\ Reviews' = Reviews
    BY <1>1 DEF On, Underway, Ended, Calls, Reviews
  <2>2. "together" \notin late' => "together" \notin late
    BY <1>1
  <2>. QED
    BY <1>1, <2>1, <2>2 DEF ReviewInv
<1>2. ASSUME NEW u \in UserLabels, AddLabel(u) PROVE ReviewInv'
  <2>1. late \subseteq late' \cup {"text"}
    BY <1>2, AddLabelEffect
  <2>. QED
    BY <1>1, <1>2, <2>1, AddLabelEffect
<1>3. ASSUME Rewrite PROVE ReviewInv'
  <2>1. late \subseteq late' \cup {"text"}
    BY <1>3, RewriteEffect
  <2>. QED
    BY <1>1, <1>3, <2>1, RewriteEffect
<1>4. CASE UNCHANGED vars
  BY <1>1, <1>4 DEF vars
<1>. QED
  BY <1>2, <1>3, <1>4, ReviewStep DEF Next, Quiescent

\* Where a review replaces the previous one (publish_persistent_comment of GitLab,
\* Gitea, Azure DevOps and Bitbucket), reviews that follow one another leave one on
\* the pull request: a second needs a failed call, or two commands that were under
\* way together.
THEOREM OneReviewHolds == Spec => []OneReview
<1> DEFINE Inv == TypeOK /\ ReviewInv
<1>1. Init => Inv
  <2>1. SUFFICES ASSUME Init PROVE Inv
    OBVIOUS
  <2>2. TypeOK
    BY <2>1, InitTypes, ProvidersAssumption
  <2>3. ASSUME NEW s \in Sessions
        PROVE  ~Underway(s) /\ ~Calls(s, "review") /\ Later(todo[s]) = {}
    <3>1. todo[s] = <<Op("start")>>
      BY <2>1 DEF Init
    <3>2. Calls(s, "start") /\ ~Calls(s, "review")
      BY <3>1 DEF Calls, Op
    <3>3. Tail(todo[s]) = <<>> /\ todo[s] # <<>>
      BY <3>1
    <3>. QED
      BY <3>2, <3>3, NamesNil DEF Underway, Later
  <2>4. IsFiniteSet(Reviews) /\ Cardinality(Reviews) = 0 /\ failures = 0
    <3>1. Reviews = {} /\ failures = 0
      BY <2>1 DEF Init, Reviews
    <3>. QED
      BY <3>1, FS_EmptySet
  <2>. QED
    BY <2>2, <2>3, <2>4 DEF ReviewInv
<1>2. Inv /\ [Next]_vars => Inv'
  BY NextTypes, ReviewNext, ProvidersAssumption
<1>3. Inv => OneReview
  BY DEF ReviewInv, OneReview
<1>. QED
  BY <1>1, <1>2, <1>3, PTL DEF Spec

-----------------------------------------------------------------------------
(* How often suggestions are published.                                      *)

LEMMA TwiceType == Twice \in {1, 2} /\ (On({"gitea"}) => Twice = 2)
BY DEF Twice

\* Nothing more is published.
LEMMA RoomNone ==
  ASSUME NEW s, NEW q, NEW p, NEW a, NEW f,
         Names(q) \cap (Posting \cup Early \cup {"upload"}) = {},
         \A x \in Suggested : p[x] <= f + Twice,
         a # "answer" \/ f # 0 \/ tool[s] # "improve" \/ On({"local"})
  PROVE  Room(s, q, p, a, f)
<1>1. Single(q) /\ \A x : Ways(q, x) = {}
  BY NoPosting
<1>2. {} # {"post", "single"}
  OBVIOUS
<1>3. Ordered(q)
  BY DEF Ordered
<1>. QED
  BY <1>1, <1>2, <1>3 DEF Room

\* A call that publishes no suggestion.
LEMMA RoomPlain ==
  ASSUME NEW s, NEW q \in Seq(AllCalls), q # <<>>, NEW p \in [Suggested -> Nat], NEW a,
         NEW f \in Nat, NEW g \in Nat, g >= f, Head(q)[1] \notin Posting, Room(s, q, p, a, f)
  PROVE  Room(s, Tail(q), p, a, g)
<1>1. Single(q) /\ Single(Tail(q)) /\ \A x \in Suggested : Ways(Tail(q), x) = Ways(q, x)
  BY WithinTail, WaysTail DEF Room
<1>2. Names(Tail(q)) \subseteq Names(q)
  BY NamesTail
<1>3. \A x \in Suggested : p[x] \in Nat
  OBVIOUS
<1>4. Early \cap Names(Tail(q)) # {} =>
        /\ a = "none" /\ Names(Tail(q)) \cap Posting = {}
        /\ \A x \in Suggested : p[x] = 0
  BY <1>2 DEF Room
<1>6. Abandoned(Tail(q), p) <=> Abandoned(q, p)
  BY <1>1 DEF Abandoned
<1>7. Ordered(Tail(q))
  BY OrderedTail DEF Room
<1>5. ASSUME NEW x \in Suggested
      PROVE  LET ways == Ways(Tail(q), x) IN
             /\ p[x] <= g + Twice
             /\ ways # {} => p[x] < g + Twice
             /\ IF On({"gitea"})
                THEN /\ ways \subseteq {"post", "single"}
                     /\ ways = {"post", "single"} => p[x] <= g
                ELSE \A m, n \in ways : m = n
             /\ tool[s] = "improve" /\ a = "answer" /\ g = 0 /\ x \notin Odd /\ ~On({"local"})
                => p[x] >= 1 \/ ways # {} \/ Abandoned(Tail(q), p)
  <2> DEFINE ways == Ways(q, x)
  <2>1. /\ p[x] <= f + Twice
        /\ ways # {} => p[x] < f + Twice
        /\ IF On({"gitea"})
           THEN /\ ways \subseteq {"post", "single"}
                /\ ways = {"post", "single"} => p[x] <= f
           ELSE \A m, n \in ways : m = n
        /\ tool[s] = "improve" /\ a = "answer" /\ f = 0 /\ x \notin Odd /\ ~On({"local"})
           => p[x] >= 1 \/ ways # {} \/ Abandoned(q, p)
    BY DEF Room
  <2>2. Ways(Tail(q), x) = ways /\ p[x] \in Nat /\ (g = 0 => f = 0)
    BY <1>1
  <2> HIDE DEF ways
  <2>. QED
    BY <1>6, <2>1, <2>2, TwiceType
<1>. QED
  BY <1>1, <1>4, <1>5, <1>7 DEF Room

\* In the place of such a call comes another.
LEMMA RoomCons ==
  ASSUME NEW s, NEW q \in Seq(AllCalls), NEW p, NEW a, NEW f, NEW c \in AllCalls,
         c[1] \notin Posting \cup Early \cup {"upload"}, Room(s, q, p, a, f)
  PROVE  Room(s, <<c>> \o q, p, a, f)
<1>1. /\ Within(<<c>> \o q) = {c} \cup Within(q) /\ Single(<<c>> \o q)
  BY WithinCons DEF Room
<1>2. Names(<<c>> \o q) = {c[1]} \cup Names(q)
  BY NamesCons
<1>3. \A x \in Suggested : Ways(<<c>> \o q, x) = Ways(q, x)
  <2>1. \A x, n : n \in Posting => Way(n, x) # c
    BY DEF Way, Op
  <2>. QED
    BY <1>1, <2>1 DEF Ways
<1>4. \A r : Early \cap ({c[1]} \cup r) = Early \cap r /\ ({c[1]} \cup r) \cap Posting = r \cap Posting
  OBVIOUS
<1>5. Ordered(<<c>> \o q)
  BY OrderedCons DEF Room
<1>6. Abandoned(<<c>> \o q, p) <=> Abandoned(q, p)
  BY <1>3 DEF Abandoned
<1>. QED
  BY <1>1, <1>2, <1>3, <1>4, <1>5, <1>6 DEF Room

\* A call that publishes a suggestion, or all: Named(q, x) says that it is about x.
Named(q, x) == Head(q)[1] = "patches" \/ Head(q)[2] = x

LEMMA RoomPublished ==
  ASSUME NEW s, NEW q \in Seq(AllCalls), q # <<>>, Head(q)[1] \in Posting,
         NEW p \in [Suggested -> Nat], NEW r \in [Suggested -> Nat], NEW a,
         NEW f \in Nat, Room(s, q, p, a, f),
         NEW x \in Suggested,
         r[x] = p[x] \/ (Named(q, x) /\ r[x] = p[x] + 1)
  PROVE  /\ r[x] <= f + Twice
         /\ Early \cap Names(Tail(q)) = {}
<1>1. Named(q, x) => Ways(q, x) # {}
  BY WaysTail DEF Room, Named
<1>2. p[x] <= f + Twice /\ (Ways(q, x) # {} => p[x] < f + Twice)
  BY DEF Room
<1>3. Head(q)[1] \in Names(q) /\ Names(Tail(q)) \subseteq Names(q)
  BY NamesTail
<1>4. Early \cap Names(q) = {}
  BY <1>3 DEF Room
<1>5. r[x] <= f + Twice
  BY <1>1, <1>2, TwiceType
<1>. QED
  BY <1>3, <1>4, <1>5

LEMMA RoomTail ==
  ASSUME NEW s, NEW q \in Seq(AllCalls), q # <<>>, Head(q)[1] \in Posting,
         NEW p \in [Suggested -> Nat], NEW r \in [Suggested -> Nat], NEW a,
         NEW f \in Nat, NEW g \in Nat, g >= f, Room(s, q, p, a, f),
         \A x \in Suggested :
           IF Named(q, x)
           THEN r[x] \in {p[x], p[x] + 1} /\ (g = f => r[x] = p[x] + 1 \/ x \in Odd)
           ELSE r[x] = p[x]
  PROVE  Room(s, Tail(q), r, a, g)
<1>1. Single(q) /\ Single(Tail(q))
  BY WithinTail DEF Room
<1>2. Early \cap Names(Tail(q)) = {}
  <2>1. Head(q)[1] \in Names(q) /\ Names(Tail(q)) \subseteq Names(q)
    BY NamesTail
  <2>. QED
    BY <2>1 DEF Room
<1>4. Ordered(Tail(q))
  BY OrderedTail DEF Room
<1>5. ASSUME NEW x \in Suggested, Abandoned(q, p) PROVE FALSE
  <2>1. PICK y \in Suggested : Named(q, y)
    <3>1. Head(q) \in AllCalls
      BY WithinTail
    <3>2. Head(q)[1] # "patches" => Head(q)[2] \in Suggested
      BY <3>1 DEF AllCalls, Plain, Posting, Op
    <3>. QED
      BY <1>5, <3>2 DEF Named
  <2>2. Ways(q, y) # {}
    BY <1>1, <2>1, WaysTail DEF Named
  <2>. QED
    BY <1>5, <2>2 DEF Abandoned
<1>3. ASSUME NEW x \in Suggested
      PROVE  LET ways == Ways(Tail(q), x) IN
             /\ r[x] <= g + Twice
             /\ ways # {} => r[x] < g + Twice
             /\ IF On({"gitea"})
                THEN /\ ways \subseteq {"post", "single"}
                     /\ ways = {"post", "single"} => r[x] <= g
                ELSE \A m, n \in ways : m = n
             /\ tool[s] = "improve" /\ a = "answer" /\ g = 0 /\ x \notin Odd /\ ~On({"local"})
                => r[x] >= 1 \/ ways # {} \/ Abandoned(Tail(q), r)
  <2> DEFINE ways == Ways(q, x)
             left == Ways(Tail(q), x)
             n == Head(q)[1]
  <2>1. /\ p[x] <= f + Twice
        /\ ways # {} => p[x] < f + Twice
        /\ IF On({"gitea"})
           THEN /\ ways \subseteq {"post", "single"}
                /\ ways = {"post", "single"} => p[x] <= f
           ELSE \A m, k \in ways : m = k
        /\ tool[s] = "improve" /\ a = "answer" /\ f = 0 /\ x \notin Odd /\ ~On({"local"})
           => p[x] >= 1 \/ ways # {}
    BY <1>5 DEF Room
  <2>2. /\ p[x] \in Nat /\ (g = 0 => f = 0 /\ g = f)
        /\ Twice \in {1, 2} /\ (On({"gitea"}) => Twice = 2)
    BY TwiceType
  <2>3. /\ Named(q, x) => n \in ways /\ left = ways \ {n}
        /\ ~Named(q, x) => left = ways
    BY <1>1, WaysTail DEF Named
  <2> HIDE DEF ways, left, n
  <2>4. CASE ~Named(q, x)
    BY <2>1, <2>2, <2>3, <2>4 DEF left
  <2>5. CASE Named(q, x)
    <3>1. r[x] \in {p[x], p[x] + 1} /\ (g = f => r[x] = p[x] + 1 \/ x \in Odd)
      BY <2>5
    <3>2. p[x] < f + Twice /\ n \in ways /\ left = ways \ {n}
      BY <2>1, <2>3, <2>5
    <3>3. r[x] <= g + Twice
      BY <2>2, <3>1, <3>2
    <3>4. CASE On({"gitea"})
      <4>1. left \subseteq {"post", "single"} /\ left # {"post", "single"}
        BY <2>1, <3>2, <3>4
      <4>2. left # {} => ways = {"post", "single"}
        BY <2>1, <3>2, <3>4
      <4>3. left # {} => p[x] <= f
        BY <2>1, <3>4, <4>2
      <4>4. left # {} => r[x] < g + Twice
        BY <2>2, <3>1, <3>4, <4>3
      <4>5. /\ tool[s] = "improve" /\ a = "answer" /\ g = 0 /\ x \notin Odd /\ ~On({"local"})
               => r[x] >= 1
        BY <2>2, <3>1
      <4>. QED
        BY <3>3, <3>4, <4>1, <4>4, <4>5 DEF left
    <3>5. CASE ~On({"gitea"})
      <4>1. left = {}
        BY <2>1, <3>2, <3>5
      <4>5. /\ tool[s] = "improve" /\ a = "answer" /\ g = 0 /\ x \notin Odd /\ ~On({"local"})
               => r[x] >= 1
        BY <2>2, <3>1
      <4>. QED
        BY <3>3, <3>5, <4>1, <4>5 DEF left
    <3>. QED
      BY <3>4, <3>5
  <2>. QED
    BY <2>4, <2>5
<1>. QED
  BY <1>1, <1>2, <1>3, <1>4 DEF Room

\* GitLab's note in the place of a discussion.
LEMMA RoomNote ==
  ASSUME NEW s, NEW q \in Seq(AllCalls), q # <<>>, Head(q)[1] \in {"post", "single"},
         NEW y \in Suggested, Head(q)[2] = y, ~On({"gitea"}),
         NEW p \in [Suggested -> Nat], NEW r \in [Suggested -> Nat], NEW a,
         NEW f \in Nat, Room(s, q, p, a, f),
         \A x \in Suggested : r[x] \in IF x = y THEN {p[x], p[x] + 1} ELSE {p[x]}
  PROVE  Room(s, <<<<"note", y>>>> \o Tail(q), r, a, f + 1)
<1> DEFINE c == <<"note", y>>
           l == Tail(q)
           n == Head(q)[1]
<1>1. /\ Single(q) /\ Single(l) /\ l \in Seq(AllCalls) /\ c \in AllCalls /\ c[1] = "note"
      /\ n \in Posting
  BY WithinTail DEF Room, AllCalls, Posting
<1>2. /\ Named(q, y)
      /\ \A x \in Suggested : x # y => ~Named(q, x)
  BY DEF Named
<1>3. /\ n \in Ways(q, y) /\ Ways(l, y) = Ways(q, y) \ {n}
      /\ \A x \in Suggested : x # y => Ways(l, x) = Ways(q, x)
  BY <1>1, <1>2, WaysTail DEF Named
<1>4. Ways(l, y) = {}
  <2>1. \A m, k \in Ways(q, y) : m = k
    BY DEF Room
  <2>. QED
    BY <1>3, <2>1
<1>5. c \notin Within(l)
  <2>1. Way("note", y) = c /\ "note" \in Posting
    BY DEF Way, Posting
  <2>2. \A m \in Posting : Way(m, y) \in Within(l) => m \in Ways(l, y)
    BY DEF Ways
  <2> HIDE DEF c, l
  <2>. QED
    BY <1>4, <2>1, <2>2
<1>6. Early \cap Names(l) = {}
  <2>1. n \in Names(q) /\ Names(l) \subseteq Names(q)
    BY NamesTail
  <2>. QED
    BY <1>1, <2>1 DEF Room
<1> HIDE DEF l
<1>7. Within(<<c>> \o l) = {c} \cup Within(l) /\ Single(<<c>> \o l)
  BY <1>1, <1>5, WithinCons
<1>8. Early \cap Names(<<c>> \o l) = {}
  <2>1. Names(<<c>> \o l) = {"note"} \cup Names(l)
    BY <1>1, NamesCons
  <2>. QED
    BY <1>6, <2>1 DEF Early
<1>9. /\ Ways(<<c>> \o l, y) = {"note"}
      /\ \A x \in Suggested : x # y => Ways(<<c>> \o l, x) = Ways(q, x)
  <2>1. \A m \in Posting, x \in Suggested : Way(m, x) = c <=> m = "note" /\ x = y
    BY DEF Way, Op, Posting
  <2>2. "note" \in Posting
    BY DEF Posting
  <2> HIDE DEF c
  <2>3. ASSUME NEW x \in Suggested
        PROVE  Ways(<<c>> \o l, x) = Ways(l, x) \cup (IF x = y THEN {"note"} ELSE {})
    BY <1>7, <2>1, <2>2 DEF Ways
  <2>. QED
    BY <1>3, <1>4, <2>3
<1>10. ASSUME NEW x \in Suggested
       PROVE  /\ r[x] < f + 1 + Twice
              /\ \A m, k \in Ways(<<c>> \o l, x) : m = k
  <2>1. /\ p[x] <= f + Twice /\ p[x] \in Nat
        /\ x = y => r[x] = p[x] \/ r[x] = p[x] + 1
        /\ x # y => r[x] = p[x]
    BY DEF Room
  <2>2. x = y => p[x] < f + Twice
    BY <1>3 DEF Room
  <2>3. r[x] < f + 1 + Twice
    <3>1. r[x] \in Nat /\ p[x] \in Nat /\ Twice \in Nat
      BY TwiceType
    <3>2. CASE x = y
      BY <2>1, <2>2, <3>1, <3>2
    <3>3. CASE x # y
      BY <2>1, <3>1, <3>3
    <3>. QED
      BY <3>2, <3>3
  <2>4. \A m, k \in Ways(q, x) : m = k
    BY DEF Room
  <2>5. \A m, k \in Ways(<<c>> \o l, x) : m = k
    <3> DEFINE after == Ways(<<c>> \o l, x)
    <3>1. after = {"note"} \/ after = Ways(q, x)
      BY <1>9
    <3> HIDE DEF after
    <3>2. \A m, k \in after : m = k
      BY <2>4, <3>1
    <3>. QED
      BY <3>2 DEF after
  <2>. QED
    BY <2>3, <2>5
<1>11. \A x \in Suggested : r[x] <= f + 1 + Twice
  <2>1. \A x \in Suggested : r[x] \in Nat /\ r[x] < f + 1 + Twice
    BY <1>10
  <2>. QED
    BY <2>1, TwiceType
<1>12. f + 1 # 0
  OBVIOUS
<1>14. Ordered(<<c>> \o l)
  <2>1. Ordered(l)
    BY OrderedTail DEF Room, l
  <2>. QED
    BY <1>1, <2>1, OrderedCons
<1> HIDE DEF c
<1>13. Room(s, <<c>> \o l, r, a, f + 1)
  BY <1>7, <1>8, <1>10, <1>11, <1>12, <1>14 DEF Room
<1>. QED
  BY <1>13 DEF c, l

\* All over again, one by one.
LEMMA RoomSingles ==
  ASSUME ProvidersAssumption, NEW s, NEW q, NEW p \in [Suggested -> Nat],
         NEW r \in [Suggested -> Nat], NEW a, NEW f \in Nat, ~On({"gitea"}),
         \A x \in Suggested : r[x] <= f + Twice
  PROVE  Room(s, Ops("single", Suggestions), r, a, f + 1)
<1> DEFINE l == Ops("single", Suggestions)
<1>1. Within(l) = {"single"} \X Suggested /\ Single(l)
  BY WithinOps
<1> HIDE DEF l
<1>2. Names(l) \subseteq {"single"}
  BY <1>1 DEF Names
<1>3. \A x : Ways(l, x) \subseteq {"single"}
  <2>1. \A m, x : Way(m, x)[1] = m
    BY DEF Way, Op
  <2>. QED
    BY <1>1, <2>1 DEF Ways
<1>4. \A x \in Suggested : r[x] < f + 1 + Twice /\ r[x] <= f + 1 + Twice
  BY TwiceType
<1>5. f + 1 # 0
  OBVIOUS
<1>6. Early \cap Names(l) = {}
  BY <1>2 DEF Early
<1>7. \A x : \A m, k \in Ways(l, x) : m = k
  BY <1>3
<1>9. Ordered(l)
  BY <1>2 DEF Ordered
<1>8. Room(s, l, r, a, f + 1)
  BY <1>1, <1>4, <1>5, <1>6, <1>7, <1>9 DEF Room
<1>. QED
  BY <1>8 DEF l

\* What the answer of the model leads to.
LEMMA RoomCourse ==
  ASSUME TypeOK, ProvidersAssumption, NEW s \in Sessions, NEW a \in {"answer", "empty"},
         NEW p, NEW f \in Nat, \A x \in Suggested : p[x] = 0
  PROVE  Room(s, Course(s, a), p, a, f)
<1>1. \A x \in Suggested : p[x] <= f + Twice /\ p[x] < f + Twice /\ p[x] <= f
  BY TwiceType
<1>2. CASE a = "empty" \/ tool[s] # "improve"
  <2>1. Names(Course(s, a)) \cap (Posting \cup Early \cup {"upload"}) = {}
    BY <1>2, CourseNames DEF Early
  <2>. QED
    BY <1>1, <1>2, <2>1, RoomNone
<1>3. CASE a = "answer" /\ tool[s] = "improve"
  <2>1. Course(s, a) = Improve
    BY <1>3 DEF Course
  <2>2. /\ Single(Improve) /\ Ordered(Improve)
        /\ Names(Improve) \subseteq {"clean", "upload", "patches", "post", "single", "remove_progress"}
        /\ \A x \in Suggested :
             Ways(Improve, x) = IF On({"gerrit"}) THEN {"patches"}
                                ELSE IF On({"gitea"}) THEN {"post", "single"}
                                ELSE {"post"}
    BY ImproveCalls
  <2>3. Early \cap Names(Improve) = {}
    BY <2>2 DEF Early
  <2>4. On({"gitea"}) => ~On({"gerrit"})
    BY DEF On
  <2>5. ASSUME NEW x \in Suggested
        PROVE  LET ways == Ways(Improve, x) IN
               /\ ways # {}
               /\ IF On({"gitea"}) THEN ways \subseteq {"post", "single"}
                  ELSE \A m, n \in ways : m = n
    <3>1. Ways(Improve, x) = IF On({"gerrit"}) THEN {"patches"}
                             ELSE IF On({"gitea"}) THEN {"post", "single"}
                             ELSE {"post"}
      BY <2>2
    <3>. QED
      BY <2>4, <3>1
  <2>6. Room(s, Improve, p, a, f)
    BY <1>1, <2>2, <2>3, <2>5 DEF Room
  <2>. QED
    BY <2>1, <2>6
<1>. QED
  BY <1>2, <1>3

\* Room that is left for others when calls fail.
LEMMA RoomMore ==
  ASSUME NEW s, NEW q, NEW p \in [Suggested -> Nat], NEW a, NEW f \in Nat, NEW g \in Nat,
         g >= f, Room(s, q, p, a, f)
  PROVE  Room(s, q, p, a, g)
<1>1. ASSUME NEW x \in Suggested
      PROVE  LET ways == Ways(q, x) IN
             /\ p[x] <= g + Twice
             /\ ways # {} => p[x] < g + Twice
             /\ IF On({"gitea"})
                THEN /\ ways \subseteq {"post", "single"}
                     /\ ways = {"post", "single"} => p[x] <= g
                ELSE \A m, n \in ways : m = n
             /\ tool[s] = "improve" /\ a = "answer" /\ g = 0 /\ x \notin Odd /\ ~On({"local"})
                => p[x] >= 1 \/ ways # {} \/ Abandoned(q, p)
  <2> DEFINE ways == Ways(q, x)
  <2>1. /\ p[x] <= f + Twice
        /\ ways # {} => p[x] < f + Twice
        /\ IF On({"gitea"})
           THEN /\ ways \subseteq {"post", "single"}
                /\ ways = {"post", "single"} => p[x] <= f
           ELSE \A m, n \in ways : m = n
        /\ tool[s] = "improve" /\ a = "answer" /\ f = 0 /\ x \notin Odd /\ ~On({"local"})
           => p[x] >= 1 \/ ways # {} \/ Abandoned(q, p)
    BY DEF Room
  <2>2. p[x] \in Nat /\ (g = 0 => f = 0)
    OBVIOUS
  <2> HIDE DEF ways
  <2>3. /\ p[x] <= g + Twice /\ (ways # {} => p[x] < g + Twice)
        /\ ways = {"post", "single"} /\ On({"gitea"}) => p[x] <= g
    BY <2>1, <2>2, TwiceType
  <2>. QED
    BY <2>1, <2>2, <2>3 DEF ways
<1>. QED
  BY <1>1 DEF Room

\* A step that publishes no suggestion.
LEMMA PostPlain ==
  ASSUME TypeOK, ProvidersAssumption, CourseInv, PostInv, NEW s \in Sessions, Step(s),
         ~Suggest(s), ~NoteGitlab(s), ~SuggestGerrit(s)
  PROVE  Room(s, todo'[s], posted[s], answer'[s], failures')
<1> DEFINE Goal == Room(s, todo'[s], posted[s], answer'[s], failures')
<1>1. /\ failures \in Nat /\ failures' \in Nat /\ failures' >= failures
      /\ todo[s] \in Seq(AllCalls) /\ posted[s] \in [Suggested -> Nat]
      /\ \A x \in Suggested : posted[s][x] \in Nat
      /\ tool[s] \in {"review", "describe", "improve"}
  BY FrameHolds DEF Frame, Alone, TypeOK
<1>2. Room(s, todo[s], posted[s], answer[s], failures)
  BY DEF PostInv
<1>3. /\ Room(s, todo[s], posted[s], answer[s], failures')
      /\ \A x \in Suggested : posted[s][x] <= failures + Twice /\ posted[s][x] <= failures' + Twice
  <2>1. Room(s, todo[s], posted[s], answer[s], failures')
    BY <1>1, <1>2, RoomMore
  <2>. QED
    BY <1>2, <2>1 DEF Room
<1>4. ASSUME Names(todo'[s]) \cap (Posting \cup Early \cup {"upload"}) = {},
             answer'[s] # "answer" \/ failures' # 0 \/ tool[s] # "improve" \/ On({"local"})
      PROVE  Goal
  BY <1>3, <1>4, RoomNone
<1>5. ASSUME todo'[s] = Except(s),
             answer'[s] = "error" \/ failures' = failures + 1 \/ tool[s] # "improve"
      PROVE  Goal
  <2>1. Names(todo'[s]) \cap (Posting \cup Early \cup {"upload"}) = {}
    BY <1>5, ExceptNames DEF Posting, Early
  <2>2. failures' = failures + 1 => failures' # 0
    BY <1>1
  <2>. QED
    BY <1>4, <1>5, <2>1, <2>2
<1>6. ASSUME NEW n, n \notin Posting, Calls(s, n), answer' = answer, todo'[s] = Tail(todo[s])
      PROVE  Goal
  <2>1. todo[s] # <<>> /\ Head(todo[s])[1] = n
    BY <1>6 DEF Calls
  <2>2. Room(s, Tail(todo[s]), posted[s], answer[s], failures')
    BY <1>1, <1>2, <1>6, <2>1, RoomPlain
  <2>. QED
    BY <1>6, <2>2
<1>7. ASSUME NEW n, n \notin Posting, Calls(s, n), answer' = answer, Continues(s)
      PROVE  Goal
  BY <1>5, <1>6, <1>7 DEF Continues
<1>8. ASSUME NEW n, n \notin Posting, Calls(s, n), answer' = answer,
             NEW c \in AllCalls, c[1] \notin Posting \cup Early \cup {"upload"}, Instead(s, c)
      PROVE  Goal
  <2>1. todo[s] # <<>> /\ Head(todo[s])[1] = n /\ Tail(todo[s]) \in Seq(AllCalls)
    BY <1>8, NextCall
  <2>2. Room(s, Tail(todo[s]), posted[s], answer[s], failures')
    BY <1>1, <1>2, <1>8, <2>1, RoomPlain
  <2>3. Room(s, <<c>> \o Tail(todo[s]), posted[s], answer[s], failures')
    BY <1>8, <2>1, <2>2, RoomCons
  <2>. QED
    BY <1>8, <2>3 DEF Instead
<1>9. ASSUME Unlabelled(s), answer' = answer PROVE Goal
  <2>1. Names(PublishReview) \cap (Posting \cup Early \cup {"upload"}) = {}
    BY PublishReviewNames DEF Posting, Early
  <2>2. failures' # 0 /\ failures' = failures + 1
    BY <1>1, <1>9 DEF Unlabelled
  <2>. QED
    BY <1>4, <1>5, <1>9, <2>1, <2>2 DEF Unlabelled
<1>10. ASSUME NEW n \in Early, n \in Names(todo[s])
       PROVE  answer[s] = "none" /\ \A x \in Suggested : posted[s][x] = 0
  BY <1>2, <1>10 DEF Room
<1>11. ASSUME NEW n \in Early, n \in Names(todo[s]), answer' = answer,
              Names(todo'[s]) \cap (Posting \cup {"upload"}) = {}
       PROVE  Goal
  <2>1. answer[s] = "none" /\ \A x \in Suggested : posted[s][x] = 0
    BY <1>10, <1>11
  <2>2. Single(todo'[s]) /\ Ordered(todo'[s]) /\ \A x : Ways(todo'[s], x) = {}
    BY <1>11, NoPosting DEF Ordered
  <2>3. {} # {"post", "single"}
    OBVIOUS
  <2>. QED
    BY <1>3, <1>11, <2>1, <2>2, <2>3 DEF Room
<1> HIDE DEF Goal
<1>12. CASE Start(s)
  <2>1. Names(todo'[s]) \cap (Posting \cup {"upload"}) = {}
    BY <1>12, StartEffect, NamesNil DEF Posting
  <2>. QED
    BY <1>11, <1>12, <2>1, StartEffect DEF Early, Goal
<1>13. CASE ReadDiff(s)
  <2>1. Calls(s, "diff") /\ "diff" \in Names(todo[s])
    BY <1>13, ReadDiffEffect, NextCall
  <2>2. CASE todo'[s] = Tail(todo[s]) /\ answer' = answer
    BY <1>6, <2>1, <2>2 DEF Goal, Posting
  <2>3. CASE Names(todo'[s]) = {"diff", "think"} /\ answer' = answer
    BY <1>11, <2>1, <2>3 DEF Goal, Early, Posting
  <2>4. CASE todo'[s] = Except(s) /\ answer' = [answer EXCEPT ![s] = "error"]
    <3>1. answer'[s] = "error"
      BY <2>4 DEF TypeOK
    <3>. QED
      BY <1>5, <2>4, <3>1 DEF Goal
  <2>. QED
    BY <1>13, <2>2, <2>3, <2>4, ReadDiffEffect DEF Anew
<1>14. CASE Think(s)
  <2>1. Calls(s, "think") /\ "think" \in Names(todo[s])
    BY <1>14, ThinkEffect, NextCall
  <2>2. CASE Names(todo'[s]) = {"diff", "think"} /\ answer' = answer
    BY <1>11, <2>1, <2>2 DEF Goal, Early, Posting
  <2>3. CASE todo'[s] = Except(s) /\ answer' = [answer EXCEPT ![s] = "error"]
    <3>1. answer'[s] = "error"
      BY <2>3 DEF TypeOK
    <3>. QED
      BY <1>5, <2>3, <3>1 DEF Goal
  <2>4. ASSUME NEW a \in {"answer", "empty"}, todo'[s] = Course(s, a),
               answer' = [answer EXCEPT ![s] = a]
        PROVE  Goal
    <3>1. answer'[s] = a
      BY <2>4 DEF TypeOK
    <3>2. \A x \in Suggested : posted[s][x] = 0
      BY <1>10, <2>1 DEF Early
    <3>. QED
      BY <1>1, <2>4, <3>1, <3>2, RoomCourse DEF Goal
  <2>. QED
    BY <1>14, <2>2, <2>3, <2>4, ThinkEffect DEF Goal, Anew
<1>15. CASE Temporary(s) \/ Progress(s) \/ EditProgress(s) \/ Say(s) \/ SayFailed(s)
  <2>1. /\ answer' = answer /\ Continues(s)
        /\ \E n \in {"temporary", "progress", "edit_progress", "say", "say_failed"} : Calls(s, n)
    BY <1>15, TemporaryEffect, ProgressEffect, EditProgressEffect, SayEffect, SayFailedEffect
  <2>. QED
    BY <1>7, <2>1 DEF Goal, Posting
<1>16. CASE Clean(s) \/ RemoveProgress(s) \/ NewReview(s)
  <2>1. /\ answer' = answer /\ Continues(s)
        /\ \E n \in {"clean", "remove_progress", "delete", "review"} : Calls(s, n)
    BY <1>16, CleanEffect, RemoveProgressEffect, NewReviewEffect
  <2>. QED
    BY <1>7, <2>1 DEF Goal, Posting
<1>17. CASE List(s) \/ Edit(s) \/ Update(s)
  <2>1. /\ answer' = answer
        /\ \E n \in {"list", "edit", "update"} : Calls(s, n)
        /\ \/ \E c \in {Op("review"), Op("update")} : Instead(s, c)
           \/ \E id \in Nat : Instead(s, <<"edit", id>>)
           \/ todo'[s] = Tail(todo[s])
    BY <1>17, ListEffect, EditEffect, UpdateEffect
  <2>2. PICK n \in {"list", "edit", "update"} : Calls(s, n)
    BY <2>1
  <2>3. n \notin Posting
    BY DEF Posting
  <2>4. ASSUME NEW c \in {Op("review"), Op("update")}, Instead(s, c) PROVE Goal
    <3>1. c \in AllCalls /\ c[1] \notin Posting \cup Early \cup {"upload"}
      BY OpIn DEF Plain, Posting, Early
    <3>. QED
      BY <1>8, <2>1, <2>2, <2>3, <2>4, <3>1 DEF Goal
  <2>5. ASSUME NEW id \in Nat, Instead(s, <<"edit", id>>) PROVE Goal
    <3>1. <<"edit", id>> \in AllCalls /\ <<"edit", id>>[1] \notin Posting \cup Early \cup {"upload"}
      BY DEF AllCalls, Plain, Posting, Early
    <3>. QED
      BY <1>8, <2>1, <2>2, <2>3, <2>5, <3>1 DEF Goal
  <2>. QED
    BY <1>6, <2>1, <2>2, <2>3, <2>4, <2>5 DEF Goal
<1>18. CASE GetLabels(s) \/ PutLabels(s)
  <2>1. /\ answer' = answer
        /\ \E n \in {"get_labels", "put_labels"} : Calls(s, n)
        /\ todo'[s] = Tail(todo[s]) \/ Unlabelled(s)
    BY <1>18, GetLabelsEffect, PutLabelsEffect
  <2>. QED
    BY <1>6, <1>9, <2>1 DEF Goal, Posting
<1>19. CASE PublishDescription(s)
  <2>1. answer' = answer /\ Calls(s, "describe") /\ (Continues(s) \/ todo'[s] = Except(s))
    BY <1>19, PublishDescriptionEffect
  <2>2. tool[s] # "improve"
    <3>1. "describe" \in Names(todo[s])
      BY <2>1, NextCall
    <3>. QED
      BY <3>1 DEF CourseInv
  <2>. QED
    BY <1>5, <1>7, <2>1, <2>2 DEF Goal, Posting
<1>20. CASE DescribeCodecommit(s)
  <2>1. /\ answer' = answer /\ Continues(s)
        /\ \E n \in {"title", "body"} : Calls(s, n)
    BY <1>20, DescribeCodecommitEffect
  <2>. QED
    BY <1>7, <2>1 DEF Goal, Posting
<1>21. CASE UploadGerrit(s)
  <2>1. answer' = answer /\ Calls(s, "upload") /\ (Continues(s) \/ Aborted(s))
    BY <1>21, UploadEffect
  <2>2. CASE Aborted(s)
    <3>1. /\ On({"gerrit"}) /\ Odd # {} /\ todo'[s] = Except(s) /\ failures' = failures
          /\ ~On({"gitea"})
      BY <2>2 DEF Aborted, On
    <3>2. Names(todo'[s]) \cap (Posting \cup Early \cup {"upload"}) = {}
      BY <3>1, ExceptNames DEF Posting, Early
    <3>3. Single(todo'[s]) /\ Ordered(todo'[s]) /\ \A x : Ways(todo'[s], x) = {}
      BY <3>2, NoPosting DEF Ordered
    <3>4. ASSUME NEW x \in Suggested, failures = 0 PROVE posted[s][x] = 0
      <4>1. Ways(todo[s], x) # {}
        <5>1. "upload" \in Names(todo[s])
          BY <2>1, NextCall
        <5>. QED
          BY <1>1, <1>2, <5>1, OrderedWays DEF Room
      <4>2. posted[s][x] < failures + 1
        BY <1>2, <3>1, <4>1 DEF Room, Twice
      <4>. QED
        BY <1>1, <3>4, <4>2
    <3>5. failures' = 0 => Abandoned(todo'[s], posted[s])
      BY <3>1, <3>3, <3>4 DEF Abandoned
    <3>6. Room(s, todo'[s], posted[s], answer'[s], failures')
      BY <1>3, <3>1, <3>2, <3>3, <3>5 DEF Room
    <3>. QED
      BY <3>6 DEF Goal
  <2>. QED
    BY <1>7, <2>1, <2>2 DEF Goal, Posting
<1>. QED
  BY <1>12, <1>13, <1>14, <1>15, <1>16, <1>17, <1>18, <1>19, <1>20, <1>21
  DEF Step

LEMMA AttemptAt ==
  ASSUME TypeOK, NEW s \in Sessions, NEW y \in Suggested, Attempt(s, y)
  PROVE  /\ posted'[s][y] \in {posted[s][y], posted[s][y] + 1}
         /\ failures' = failures => posted'[s][y] = posted[s][y] + 1
         /\ \A x \in Suggested : x # y => posted'[s][x] = posted[s][x]
         /\ posted'[s] \in [Suggested -> Nat]
         /\ \A t \in Sessions : t # s => posted'[t] = posted[t]
<1>1. posted \in [Sessions -> [Suggested -> Nat]] /\ posted[s] \in [Suggested -> Nat]
  BY DEF TypeOK
<1>2. posted' = posted \/ posted' = [posted EXCEPT ![s][y] = @ + 1]
  BY DEF Attempt
<1>3. ASSUME posted' = [posted EXCEPT ![s][y] = @ + 1]
      PROVE  /\ posted'[s] = [posted[s] EXCEPT ![y] = @ + 1]
             /\ posted'[s][y] = posted[s][y] + 1
             /\ \A t \in Sessions : t # s => posted'[t] = posted[t]
             /\ \A x \in Suggested : x # y => posted'[s][x] = posted[s][x]
  BY <1>1, <1>3
<1>4. posted'[s] \in [Suggested -> Nat]
  <2>1. [posted[s] EXCEPT ![y] = @ + 1] \in [Suggested -> Nat]
    BY <1>1
  <2>. QED
    BY <1>1, <1>2, <1>3, <2>1
<1>. QED
  BY <1>1, <1>2, <1>3, <1>4 DEF Attempt

\* A step that publishes a suggestion.
LEMMA PostSuggest ==
  ASSUME TypeOK, ProvidersAssumption, PostInv, NEW s \in Sessions, Suggest(s)
  PROVE  Room(s, todo'[s], posted'[s], answer'[s], failures')
<1> DEFINE y == Subject(s)
           q == todo[s]
           p == posted[s]
           r == posted'[s]
<1>1. /\ Alone(s) /\ y \in Suggested /\ answer' = answer /\ SuggestChange(s, y)
      /\ Calls(s, "post") \/ Calls(s, "single")
  BY SuggestEffect
<1>2. /\ failures \in Nat /\ failures' \in Nat /\ failures' >= failures
      /\ q \in Seq(AllCalls) /\ q # <<>> /\ p \in [Suggested -> Nat]
      /\ Head(q)[1] \in {"post", "single"} /\ Head(q)[1] \in Posting /\ Head(q)[2] = y
      /\ \A x \in Suggested : Named(q, x) <=> x = y
  <2>1. /\ Head(q)[1] \in {"post", "single"} /\ q # <<>> /\ Head(q)[2] = y
    BY <1>1 DEF Calls, Subject
  <2>2. Head(q)[1] \in Posting /\ \A x \in Suggested : Named(q, x) <=> x = y
    BY <2>1 DEF Posting, Named
  <2>. QED
    BY <1>1, <2>1, <2>2 DEF Alone, TypeOK
<1>3. Room(s, q, p, answer[s], failures)
  BY DEF PostInv
<1>4. \A x \in Suggested : p[x] \in Nat
  BY <1>2
<1>5. ASSUME r = p \/ Attempt(s, y)
      PROVE  /\ r \in [Suggested -> Nat]
             /\ \A x \in Suggested : /\ r[x] \in IF x = y THEN {p[x], p[x] + 1} ELSE {p[x]}
                                     /\ r[x] <= failures + Twice
                                     /\ r[x] <= failures' + Twice
  <2>1. r \in [Suggested -> Nat] /\ r[y] \in {p[y], p[y] + 1}
        /\ \A x \in Suggested : x # y => r[x] = p[x]
    BY <1>1, <1>2, <1>5, AttemptAt
  <2> HIDE DEF r, p, q, y
  <2>2. ASSUME NEW x \in Suggested PROVE r[x] <= failures + Twice
    <3>1. r[x] = p[x] \/ (Named(q, x) /\ r[x] = p[x] + 1)
      BY <1>2, <2>1
    <3>2. /\ q \in Seq(AllCalls) /\ q # <<>> /\ Head(q)[1] \in Posting
          /\ p \in [Suggested -> Nat] /\ r \in [Suggested -> Nat]
          /\ failures \in Nat
      BY <1>2, <2>1
    <3>. QED
      BY <1>3, <3>1, <3>2, RoomPublished
  <2>3. \A x \in Suggested : r[x] \in Nat /\ r[x] <= failures' + Twice
    BY <1>2, <2>1, <2>2, TwiceType
  <2>. QED
    BY <2>1, <2>2, <2>3
<1>6. ASSUME todo'[s] = Tail(q),
             \/ r = p /\ failures' = failures /\ y \in Odd
             \/ Attempt(s, y)
      PROVE  Room(s, todo'[s], r, answer[s], failures')
  <2>1. r \in [Suggested -> Nat]
    BY <1>5, <1>6
  <2>2. \A x \in Suggested :
          IF Named(q, x)
          THEN r[x] \in {p[x], p[x] + 1} /\ (failures' = failures => r[x] = p[x] + 1 \/ x \in Odd)
          ELSE r[x] = p[x]
    BY <1>1, <1>2, <1>6, AttemptAt
  <2> HIDE DEF r, p, q, y
  <2>3. /\ q \in Seq(AllCalls) /\ q # <<>> /\ Head(q)[1] \in Posting
        /\ p \in [Suggested -> Nat] /\ failures \in Nat /\ failures' \in Nat
        /\ failures' >= failures
    BY <1>2
  <2>4. Room(s, Tail(q), r, answer[s], failures')
    BY <1>3, <2>1, <2>2, <2>3, RoomTail
  <2>. QED
    BY <1>6, <2>4
<1>7. ASSUME todo'[s] = Except(s), r = p \/ Attempt(s, y),
             failures' = failures + 1 \/ On({"local"})
      PROVE  Room(s, todo'[s], r, answer[s], failures')
  <2>1. Names(todo'[s]) \cap (Posting \cup Early \cup {"upload"}) = {}
    BY <1>7, ExceptNames DEF Posting, Early
  <2>2. failures' = failures + 1 => failures' # 0
    BY <1>2
  <2>3. \A x \in Suggested : r[x] <= failures' + Twice
    BY <1>5, <1>7
  <2> HIDE DEF r
  <2>. QED
    BY <1>7, <2>1, <2>2, <2>3, RoomNone
<1>8. ASSUME Instead(s, <<"note", y>>), Attempt(s, y), failures' = failures + 1, On({"gitlab"})
      PROVE  Room(s, todo'[s], r, answer[s], failures')
  <2>1. ~On({"gitea"})
    BY <1>8 DEF On
  <2>2. /\ r \in [Suggested -> Nat]
        /\ \A x \in Suggested : r[x] \in IF x = y THEN {p[x], p[x] + 1} ELSE {p[x]}
    BY <1>5, <1>8
  <2>3. todo'[s] = <<<<"note", y>>>> \o Tail(q)
    BY <1>8 DEF Instead
  <2> HIDE DEF r, p, q, y
  <2>4. Room(s, <<<<"note", y>>>> \o Tail(q), r, answer[s], failures + 1)
    BY <1>1, <1>2, <1>3, <2>1, <2>2, RoomNote
  <2>. QED
    BY <1>8, <2>3, <2>4
<1>9. ASSUME todo'[s] = Ops("single", Suggestions), Attempt(s, y), failures' = failures + 1,
             ~On({"gitea"})
      PROVE  Room(s, todo'[s], r, answer[s], failures')
  <2>1. r \in [Suggested -> Nat] /\ \A x \in Suggested : r[x] <= failures + Twice
    BY <1>5, <1>9
  <2> HIDE DEF r, p, q, y
  <2>2. Room(s, Ops("single", Suggestions), r, answer[s], failures + 1)
    BY <1>2, <1>9, <2>1, RoomSingles
  <2>. QED
    BY <1>9, <2>2
<1>10. posted' = posted => r = p
  OBVIOUS
<1> HIDE DEF r, p, q, y
<1>11. Room(s, todo'[s], r, answer[s], failures')
  BY <1>1, <1>6, <1>7, <1>8, <1>9, <1>10 DEF SuggestChange, q
<1>. QED
  BY <1>1, <1>11 DEF r

LEMMA PostNote ==
  ASSUME TypeOK, PostInv, NEW s \in Sessions, NoteGitlab(s)
  PROVE  Room(s, todo'[s], posted'[s], answer'[s], failures')
<1> DEFINE y == Subject(s)
           q == todo[s]
           p == posted[s]
           r == posted'[s]
<1>1. /\ Alone(s) /\ y \in Suggested /\ answer' = answer /\ Attempt(s, y)
      /\ todo'[s] = Tail(q) /\ Calls(s, "note")
  BY NoteEffect
<1>2. /\ failures \in Nat /\ failures' \in Nat /\ failures' >= failures
      /\ q \in Seq(AllCalls) /\ q # <<>> /\ p \in [Suggested -> Nat]
      /\ Head(q)[1] \in Posting
      /\ \A x \in Suggested : Named(q, x) <=> x = y
  <2>1. Head(q)[1] = "note" /\ q # <<>> /\ Head(q)[2] = y
    BY <1>1 DEF Calls, Subject
  <2>2. Head(q)[1] \in Posting /\ \A x \in Suggested : Named(q, x) <=> x = y
    BY <2>1 DEF Posting, Named
  <2>. QED
    BY <1>1, <2>1, <2>2 DEF Alone, TypeOK
<1>3. Room(s, q, p, answer[s], failures)
  BY DEF PostInv
<1>4. /\ r \in [Suggested -> Nat]
      /\ \A x \in Suggested :
           IF Named(q, x)
           THEN r[x] \in {p[x], p[x] + 1} /\ (failures' = failures => r[x] = p[x] + 1 \/ x \in Odd)
           ELSE r[x] = p[x]
  BY <1>1, <1>2, AttemptAt
<1> HIDE DEF r, p, q, y
<1>5. Room(s, Tail(q), r, answer[s], failures')
  BY <1>2, <1>3, <1>4, RoomTail
<1>. QED
  BY <1>1, <1>5 DEF r

LEMMA PostGerrit ==
  ASSUME TypeOK, PostInv, NEW s \in Sessions, SuggestGerrit(s)
  PROVE  Room(s, todo'[s], posted'[s], answer'[s], failures')
<1> DEFINE q == todo[s]
           p == posted[s]
           r == posted'[s]
           more == [x \in Suggested |-> posted[s][x] + 1]
<1>1. /\ Alone(s) /\ answer' = answer /\ Continues(s) /\ Calls(s, "patches")
      /\ posted' = posted \/ posted' = [posted EXCEPT ![s] = more]
      /\ failures' = failures => posted' = [posted EXCEPT ![s] = more]
  BY SuggestGerritEffect
<1>2. /\ failures \in Nat /\ failures' \in Nat /\ failures' >= failures
      /\ q \in Seq(AllCalls) /\ q # <<>> /\ p \in [Suggested -> Nat]
      /\ Head(q)[1] \in Posting
      /\ \A x \in Suggested : Named(q, x)
  <2>1. Head(q)[1] = "patches" /\ q # <<>>
    BY <1>1 DEF Calls
  <2>2. Head(q)[1] \in Posting /\ \A x \in Suggested : Named(q, x)
    BY <2>1 DEF Posting, Named
  <2>. QED
    BY <1>1, <2>1, <2>2 DEF Alone, TypeOK
<1>3. Room(s, q, p, answer[s], failures)
  BY DEF PostInv
<1>4. more \in [Suggested -> Nat] /\ \A x \in Suggested : more[x] = p[x] + 1
  BY <1>2
<1>5. r = p \/ r = more
  BY <1>1 DEF TypeOK
<1>6. failures' = failures => r = more
  BY <1>1 DEF TypeOK
<1> HIDE DEF r, p, q, more
<1>7. /\ r \in [Suggested -> Nat]
      /\ \A x \in Suggested :
           /\ r[x] \in {p[x], p[x] + 1}
           /\ failures' = failures => r[x] = p[x] + 1
  BY <1>2, <1>4, <1>5, <1>6
<1>8. CASE todo'[s] = Tail(q)
  <2>1. Room(s, Tail(q), r, answer[s], failures')
    BY <1>2, <1>3, <1>7, RoomTail
  <2>. QED
    BY <1>1, <1>8, <2>1 DEF r
<1>9. CASE failures' = failures + 1 /\ todo'[s] = Except(s)
  <2>1. Names(todo'[s]) \cap (Posting \cup Early \cup {"upload"}) = {}
    BY <1>9, ExceptNames DEF Posting, Early
  <2>2. ASSUME NEW x \in Suggested PROVE r[x] <= failures' + Twice
    <3>1. r[x] = p[x] \/ (Named(q, x) /\ r[x] = p[x] + 1)
      BY <1>2, <1>7
    <3>2. r[x] <= failures + Twice
      BY <1>2, <1>3, <1>7, <3>1, RoomPublished
    <3>. QED
      BY <1>2, <1>7, <3>2, TwiceType
  <2>3. failures' # 0
    BY <1>2, <1>9
  <2>4. Room(s, todo'[s], r, answer'[s], failures')
    BY <2>1, <2>2, <2>3, RoomNone
  <2>. QED
    BY <2>4 DEF r
<1>. QED
  BY <1>1, <1>8, <1>9 DEF Continues, q

\* The publications of the others.
LEMMA PostOthers ==
  ASSUME TypeOK, ProvidersAssumption, NEW s \in Sessions, Step(s), NEW t \in Sessions, t # s
  PROVE  posted'[t] = posted[t] /\ answer'[t] = answer[t]
<1>1. posted'[t] = posted[t]
  <2>1. CASE Suggest(s)
    <3>1. posted' = posted \/ Attempt(s, Subject(s))
      BY <2>1, SuggestEffect DEF SuggestChange
    <3>. QED
      BY <2>1, <3>1, SuggestEffect, AttemptAt
  <2>2. CASE NoteGitlab(s)
    BY <2>2, NoteEffect, AttemptAt
  <2>3. CASE SuggestGerrit(s)
    BY <2>3, SuggestGerritEffect DEF TypeOK
  <2>. QED
    BY <2>1, <2>2, <2>3, FrameHolds DEF Frame
<1>2. answer'[t] = answer[t]
  <2>1. \/ answer' = answer
        \/ \E a : answer' = [answer EXCEPT ![s] = a]
    <3>1. CASE Think(s) \/ ReadDiff(s)
      BY <3>1, ThinkEffect, ReadDiffEffect
    <3>2. CASE ~(Think(s) \/ ReadDiff(s))
      BY <3>2 DEF Step, Start, Temporary, Progress, EditProgress, Say, SayFailed, Clean,
         RemoveProgress, List, Edit, Update, NewReview, GetLabels, PutLabels,
         PublishDescription, DescribeCodecommit, Suggest, NoteGitlab, UploadGerrit, SuggestGerrit
    <3>. QED
      BY <3>1, <3>2
  <2>. QED
    BY <2>1 DEF TypeOK
<1>. QED
  BY <1>1, <1>2

LEMMA PostStep ==
  ASSUME TypeOK, ProvidersAssumption, CourseInv, PostInv, NEW s \in Sessions, Step(s)
  PROVE  PostInv'
<1>1. /\ UNCHANGED <<service, tool>>
      /\ failures \in Nat /\ failures' \in Nat /\ failures' >= failures
      /\ \A t \in Sessions : t # s => todo'[t] = todo[t]
  BY FrameHolds DEF Frame, Alone, TypeOK
<1>2. Room(s, todo'[s], posted'[s], answer'[s], failures')
  <2>1. CASE Suggest(s)
    BY <2>1, PostSuggest
  <2>2. CASE NoteGitlab(s)
    BY <2>2, PostNote
  <2>3. CASE SuggestGerrit(s)
    BY <2>3, PostGerrit
  <2>4. CASE ~Suggest(s) /\ ~NoteGitlab(s) /\ ~SuggestGerrit(s)
    <3>1. posted' = posted
      BY <2>4, FrameHolds DEF Frame
    <3>. QED
      BY <2>4, <3>1, PostPlain
  <2>. QED
    BY <2>1, <2>2, <2>3, <2>4
<1>3. ASSUME NEW t \in Sessions
      PROVE  Room(t, todo'[t], posted'[t], answer'[t], failures')
  <2>1. CASE t = s
    BY <1>2, <2>1
  <2>2. CASE t # s
    <3>1. todo'[t] = todo[t] /\ posted'[t] = posted[t] /\ answer'[t] = answer[t]
      BY <1>1, <2>2, PostOthers
    <3>2. Room(t, todo[t], posted[t], answer[t], failures) /\ posted[t] \in [Suggested -> Nat]
      BY DEF PostInv, TypeOK
    <3>3. Room(t, todo[t], posted[t], answer[t], failures')
      BY <1>1, <3>2, RoomMore
    <3>. QED
      BY <3>1, <3>3
  <2>. QED
    BY <2>1, <2>2
<1>4. \A ks : On(ks)' = On(ks)
  BY <1>1 DEF On
<1>5. \A t \in Sessions : Room(t, todo[t], posted[t], answer[t], failures)'
  BY <1>1, <1>3, <1>4 DEF Room, Twice, Abandoned
<1>. QED
  BY <1>5 DEF PostInv

LEMMA PostNext ==
  ASSUME TypeOK, ProvidersAssumption, CourseInv, PostInv, [Next]_vars
  PROVE  PostInv'
<1>1. ASSUME UNCHANGED <<service, tool, answer, todo, posted, failures>>
      PROVE  PostInv'
  <2>1. \A ks : On(ks)' = On(ks)
    BY <1>1 DEF On
  <2>2. ASSUME NEW t \in Sessions
        PROVE  Room(t, todo[t], posted[t], answer[t], failures)'
    <3>1. Room(t, todo[t], posted[t], answer[t], failures)
      BY DEF PostInv
    <3>. QED
      BY <1>1, <2>1, <3>1 DEF Room, Twice, Abandoned
  <2>. QED
    BY <2>2 DEF PostInv
<1>. QED
  BY <1>1, PostStep, AddLabelEffect, RewriteEffect DEF Next, Quiescent, vars

\* No suggestion is published oftener than once by a command, except that a failed
\* call may be followed by another attempt, and that on Gitea all are published
\* twice, since its publish_code_suggestions never reports a success; and if no
\* call fails, all that have proper lines are published; on Gerrit none of them may
\* be, if one is for a file that does not exist.
THEOREM SuggestionsOnceHolds == Spec => []SuggestionsOnce
<1> DEFINE Inv == TypeOK /\ CourseInv /\ PostInv
<1>1. Init => Inv
  <2>1. SUFFICES ASSUME Init PROVE Inv
    OBVIOUS
  <2>2. TypeOK
    BY <2>1, InitTypes, ProvidersAssumption
  <2>3. ASSUME NEW s \in Sessions
        PROVE  /\ Names(todo[s]) = {"start"} /\ answer[s] = "none" /\ failures = 0
               /\ \A x \in Suggested : posted[s][x] = 0
    <3>1. todo[s] = <<Op("start")>>
      BY <2>1 DEF Init
    <3>. QED
      BY <2>1, <3>1, NamesOne DEF Init, Plain
  <2>4. CourseInv
    BY <2>3 DEF CourseInv
  <2>5. ASSUME NEW s \in Sessions PROVE Room(s, todo[s], posted[s], answer[s], failures)
    <3>1. Single(todo[s]) /\ \A x : Ways(todo[s], x) = {}
      BY <2>3, NoPosting DEF Posting
    <3>3. Ordered(todo[s])
      BY <2>3 DEF Ordered
    <3>2. {} # {"post", "single"} /\ Names(todo[s]) \cap Posting = {}
      BY <2>3 DEF Posting
    <3>. QED
      BY <2>3, <3>1, <3>2, <3>3, TwiceType DEF Room
  <2>. QED
    BY <2>2, <2>4, <2>5 DEF PostInv
<1>2. Inv /\ [Next]_vars => Inv'
  BY NextTypes, CourseStep, PostNext, ProvidersAssumption
<1>3. Inv => SuggestionsOnce
  <2>1. SUFFICES ASSUME Inv, NEW s \in Sessions, NEW x \in Suggested
                 PROVE  /\ posted[s][x] <= failures + (IF On({"gitea"}) THEN 2 ELSE 1)
                        /\ tool[s] = "improve" /\ answer[s] = "answer" /\ Ended(s) /\ failures = 0
                           /\ x \notin Odd /\ ~On({"local"})
                           => \/ posted[s][x] >= 1
                              \/ /\ On({"gerrit"}) /\ Odd # {}
                                 /\ \A y \in Suggested : posted[s][y] = 0
    BY DEF SuggestionsOnce
  <2>2. Room(s, todo[s], posted[s], answer[s], failures)
    BY <2>1 DEF PostInv
  <2>3. Ended(s) => Ways(todo[s], x) = {}
    BY WithinNil DEF Ended, Ways
  <2>. QED
    BY <2>2, <2>3 DEF Room, Twice, Abandoned
<1>. QED
  BY <1>1, <1>2, <1>3, PTL DEF Spec

-----------------------------------------------------------------------------
(* "Preparing ..." comments.                                                 *)

LEMMA PrepareStep ==
  ASSUME TypeOK, ProvidersAssumption, PrepareInv, [Next]_vars
  PROVE  PrepareInv'
<1>1. ASSUME NEW s \in Sessions, Step(s) PROVE PrepareInv'
  <2>1. UNCHANGED <<service, tool>> /\ \A t \in Sessions : t # s => todo'[t] = todo[t]
    BY <1>1, FrameHolds DEF Frame, Alone
  <2>2. Later(todo'[s]) \subseteq Names(todo'[s])
    <3>1. todo'[s] \in Seq(AllCalls)
      BY <1>1, FrameHolds DEF Frame, Alone
    <3>. QED
      BY <3>1, NamesTail, NamesNil DEF Later
  <2>3. \/ Names(todo'[s]) \cap (Preparing \cup {"start"}) = {}
        \/ Names(todo'[s]) = {IF tool[s] = "improve" /\ On(Markdown)
                              THEN "progress" ELSE "temporary", "diff", "think"}
           /\ Later(todo'[s]) = {"diff", "think"}
    <3>1. CASE Start(s)
      BY <3>1, StartEffect, NamesNil
    <3>2. CASE Names(todo'[s]) \subseteq Later(todo[s]) \cup Recovery
      BY <3>2 DEF PrepareInv, Recovery, Preparing
    <3>3. ASSUME NEW a \in {"answer", "empty"}, todo'[s] = Course(s, a)
          PROVE  Names(todo'[s]) \cap (Preparing \cup {"start"}) = {}
      BY <3>3, CourseNames DEF Preparing
    <3>4. CASE Anew(s)
      BY <3>4 DEF Anew, Preparing
    <3>. QED
      BY <1>1, <3>1, <3>2, <3>3, <3>4, NextNames
  <2>4. /\ Later(todo'[s]) \cap (Preparing \cup {"start"}) = {}
        /\ Names(todo'[s]) \cap Preparing # {} => "think" \in Later(todo'[s])
        /\ "temporary" \in Names(todo'[s]) => ~(tool[s] = "improve" /\ On(Markdown))
        /\ "progress" \in Names(todo'[s]) => tool[s] = "improve" /\ On(Markdown)
    BY <2>2, <2>3 DEF Preparing
  <2>5. On(Markdown)' = On(Markdown)
    BY <2>1 DEF On
  <2>6. ASSUME NEW t \in Sessions
        PROVE  /\ Later(todo'[t]) \cap (Preparing \cup {"start"}) = {}
               /\ Names(todo'[t]) \cap Preparing # {} => "think" \in Later(todo'[t])
               /\ "temporary" \in Names(todo'[t]) => ~(tool[t] = "improve" /\ On(Markdown))
               /\ "progress" \in Names(todo'[t]) => tool[t] = "improve" /\ On(Markdown)
    <3>1. CASE t = s
      BY <2>4, <3>1
    <3>2. CASE t # s
      <4>1. todo'[t] = todo[t]
        BY <2>1, <3>2
      <4>. QED
        BY <4>1 DEF PrepareInv
    <3>. QED
      BY <3>1, <3>2
  <2>. QED
    BY <2>1, <2>5, <2>6 DEF PrepareInv
<1>2. UNCHANGED <<service, tool, todo>> => PrepareInv'
  BY DEF PrepareInv, On
<1>. QED
  BY <1>1, <1>2, AddLabelEffect, RewriteEffect DEF Next, Quiescent, vars

\* What the model's answer leads to gets rid of the comment, or forgets it.
LEMMA CourseRids ==
  ASSUME TypeOK, ProvidersAssumption, NEW s \in Sessions, NEW a \in {"answer", "empty"}
  PROVE  LET names == Names(Course(s, a)) IN
         /\ a = "empty" /\ tool[s] # "improve" => "clean" \in names
         /\ a = "empty" /\ tool[s] = "improve" /\ On(Markdown) /\ read[s].note # 0
            => "edit_progress" \in names
         /\ a = "answer" => "clean" \in names
         /\ a = "answer" /\ tool[s] = "improve" /\ On(Markdown) => "remove_progress" \in names
<1>1. CASE a = "empty" /\ tool[s] = "improve"
  BY <1>1, NoSuggestionsNames DEF Course
<1>2. CASE a = "empty" /\ tool[s] # "improve"
  BY <1>2, NamesOne DEF Course, Plain
<1>3. CASE a # "empty" /\ tool[s] = "review"
  BY <1>3, ReviewNames DEF Course
<1>4. CASE a # "empty" /\ tool[s] = "describe"
  BY <1>4, DescribeNames DEF Course
<1>5. CASE a # "empty" /\ tool[s] = "improve"
  BY <1>5, ImproveCalls DEF Course
<1>. QED
  BY <1>1, <1>2, <1>3, <1>4, <1>5 DEF TypeOK

\* A command that does not come to a call that gets rid of its comment keeps those
\* that it has yet to make.
LEMMA HeldOn ==
  ASSUME TypeOK, NEW s \in Sessions, NEW n, Calls(s, n), NEW kind, n \notin Rids(kind),
         Names(Tail(todo[s])) \subseteq Names(todo'[s]),
         Names(todo'[s]) \cap (Preparing \cup {"start"}) = {},
         UNCHANGED <<service, tool, answer>>, Held(s, kind)
  PROVE  Held(s, kind)'
<1>1. Names(todo[s]) = {n} \cup Names(Tail(todo[s]))
  BY NextCall
<1>2. Names(todo[s]) \cap Rids(kind) # {} => Names(todo'[s]) \cap Rids(kind) # {}
  BY <1>1
<1>3. Forgotten(s)' = Forgotten(s) /\ \A ks : On(ks)' = On(ks)
  BY DEF Forgotten, On
<1>. QED
  BY <1>2, <1>3 DEF Held

\* A step without a failed call: the command still holds its comment, or it is gone.
LEMMA HeldStep ==
  ASSUME TypeOK, ProvidersAssumption, PrepareInv, NEW s \in Sessions, Step(s),
         failures' = failures, NEW kind \in Preparing, Held(s, kind), read[s].note # 0
  PROVE  \/ Held(s, kind)' /\ read'[s].note = read[s].note
         \/ \A c \in thread' : ~(c.id = read[s].note /\ c.kind = kind)
<1> DEFINE First == Preparing \cup {"start"}
           Goal == \/ Held(s, kind)' /\ read'[s].note = read[s].note
                   \/ \A c \in thread' : ~(c.id = read[s].note /\ c.kind = kind)
<1>1. UNCHANGED <<service, tool>> /\ \A ks : On(ks)' = On(ks)
  BY FrameHolds DEF Frame, On
<1>2. failures \in Nat /\ failures' # failures + 1 /\ ~(failures' > failures)
  BY DEF TypeOK
<1>3. \A n \in First : ~Calls(s, n)
  BY NextCall DEF Held
<1>4. ~Start(s) /\ ~Temporary(s) /\ ~Progress(s)
  BY <1>3 DEF Start, Temporary, Progress, Preparing
<1>5. Names(todo'[s]) \cap First = {}
  <2>1. CASE Names(todo'[s]) \subseteq Later(todo[s]) \cup Recovery
    BY <2>1 DEF PrepareInv, Recovery, Preparing
  <2>2. ASSUME NEW a \in {"answer", "empty"}, todo'[s] = Course(s, a)
        PROVE  Names(todo'[s]) \cap First = {}
    BY <2>2, CourseNames DEF Preparing
  <2>3. CASE Anew(s)
    BY <2>3 DEF Anew, Preparing
  <2>. QED
    BY <1>4, <2>1, <2>2, <2>3, NextNames
<1>6. read'[s].note = read[s].note
  <2>1. CASE GetLabels(s)
    <3>1. read' = read \/ \E ls : read' = [read EXCEPT ![s].labels = ls]
      BY <2>1, GetLabelsEffect
    <3>. QED
      BY <3>1 DEF TypeOK
  <2>2. CASE ~GetLabels(s)
    BY <1>4, <2>2 DEF Step, ReadDiff, Think, EditProgress, Say, SayFailed, Clean,
       RemoveProgress, List, Edit, Update, NewReview, PutLabels,
       PublishDescription, DescribeCodecommit, Suggest, NoteGitlab, UploadGerrit, SuggestGerrit
  <2>. QED
    BY <2>1, <2>2
<1>7. ASSUME NEW n, Calls(s, n), n \notin Rids(kind), answer' = answer,
             Names(Tail(todo[s])) \subseteq Names(todo'[s])
      PROVE  Goal
  BY <1>1, <1>5, <1>6, <1>7, HeldOn
<1>8. ASSUME Names(todo'[s]) \cap Rids(kind) # {} \/ Forgotten(s)'
      PROVE  Goal
  BY <1>1, <1>5, <1>6, <1>8 DEF Held
<1>9. ASSUME todo'[s] = Except(s), answer'[s] = "error"
      PROVE  Goal
  <2>1. CASE tool[s] # "improve" \/ On({"gitea", "azure"})
    BY <1>1, <1>8, <1>9, <2>1 DEF Forgotten
  <2>2. CASE tool[s] = "improve" /\ ~On(Markdown)
    BY <1>8, <1>9, <2>2, ExceptNames DEF Held, Rids
  <2>3. CASE tool[s] = "improve" /\ On({"gitlab"})
    BY <1>8, <1>9, <2>3, ExceptNames DEF Held, Rids, On, Markdown
  <2>. QED
    BY <2>1, <2>2, <2>3 DEF On, Markdown
<1>10. ASSUME Continues(s) PROVE todo'[s] = Tail(todo[s])
  BY <1>2, <1>10 DEF Continues
<1>11. CASE ReadDiff(s)
  <2>1. Calls(s, "diff") /\ "diff" \notin Rids(kind)
    BY <1>11, ReadDiffEffect DEF Rids
  <2>2. CASE todo'[s] = Tail(todo[s]) /\ answer' = answer
    BY <1>7, <2>1, <2>2
  <2>3. CASE Names(todo'[s]) = {"diff", "think"}
    BY <1>8, <2>3 DEF Rids
  <2>4. CASE todo'[s] = Except(s) /\ answer' = [answer EXCEPT ![s] = "error"]
    BY <1>9, <2>4 DEF TypeOK
  <2>. QED
    BY <1>11, <2>2, <2>3, <2>4, ReadDiffEffect DEF Anew
<1>12. CASE Think(s)
  <2>1. CASE Names(todo'[s]) = {"diff", "think"}
    BY <1>8, <2>1 DEF Rids
  <2>2. CASE todo'[s] = Except(s) /\ answer' = [answer EXCEPT ![s] = "error"]
    BY <1>9, <2>2 DEF TypeOK
  <2>3. ASSUME NEW a \in {"answer", "empty"}, todo'[s] = Course(s, a),
               answer' = [answer EXCEPT ![s] = a]
        PROVE  Goal
    <3>1. answer'[s] = a
      BY <2>3 DEF TypeOK
    <3>2. CASE a = "empty" /\ tool[s] = "improve" /\ ~On(Markdown)
      BY <1>1, <1>8, <3>1, <3>2 DEF Forgotten
    <3>3. CASE ~(a = "empty" /\ tool[s] = "improve" /\ ~On(Markdown))
      BY <1>8, <2>3, <3>3, CourseRids DEF Held, Rids
    <3>. QED
      BY <3>2, <3>3
  <2>. QED
    BY <1>12, <2>1, <2>2, <2>3, ThinkEffect DEF Anew
<1>13. CASE EditProgress(s)
  <2>1. \A c \in thread' : c.id = read[s].note => c.kind = "said"
    BY <1>13, EditProgressEffect
  <2>. QED
    BY <2>1 DEF Preparing
<1>14. CASE RemoveProgress(s)
  BY <1>14, RemoveProgressEffect
<1>15. CASE Clean(s)
  <2>1. CASE On(Cleans) /\ kind = "temporary"
    BY <1>15, <2>1, CleanEffect
  <2>2. CASE ~On(Cleans)
    BY <1>1, <1>8, <2>2 DEF Held, Forgotten, On, Cleans, AllServices, TypeOK
  <2>3. CASE kind # "temporary"
    <3>1. Calls(s, "clean") /\ answer' = answer /\ todo'[s] = Tail(todo[s])
      BY <1>10, <1>15, CleanEffect
    <3>. QED
      BY <1>7, <2>3, <3>1 DEF Rids
  <2>. QED
    BY <2>1, <2>2, <2>3
<1>16. CASE Say(s) \/ SayFailed(s) \/ NewReview(s) \/ SuggestGerrit(s)
  <2>1. /\ \E n \in {"say", "say_failed", "review", "patches"} : Calls(s, n)
        /\ answer' = answer /\ Continues(s)
    BY <1>16, SayEffect, SayFailedEffect, NewReviewEffect, SuggestGerritEffect
  <2>. QED
    BY <1>7, <1>10, <2>1 DEF Rids
<1>17. CASE DescribeCodecommit(s) \/ NoteGitlab(s)
  <2>1. /\ \E n \in {"title", "body", "note"} : Calls(s, n)
        /\ answer' = answer /\ (Continues(s) \/ todo'[s] = Tail(todo[s]))
    BY <1>17, DescribeCodecommitEffect, NoteEffect
  <2>. QED
    BY <1>7, <1>10, <2>1 DEF Rids
<1>18. CASE GetLabels(s) \/ PutLabels(s)
  <2>1. /\ \E n \in {"get_labels", "put_labels"} : Calls(s, n)
        /\ answer' = answer /\ todo'[s] = Tail(todo[s])
    BY <1>2, <1>18, GetLabelsEffect, PutLabelsEffect DEF Unlabelled
  <2>. QED
    BY <1>7, <2>1 DEF Rids
<1>19. CASE PublishDescription(s)
  <2>1. Calls(s, "describe") /\ answer' = answer /\ Continues(s)
    BY <1>19, PublishDescriptionEffect DEF Held, On
  <2>. QED
    BY <1>7, <1>10, <2>1 DEF Rids
<1>20. CASE List(s) \/ Edit(s) \/ Update(s)
  <2>1. /\ \E n \in {"list", "edit", "update"} : Calls(s, n)
        /\ answer' = answer
    BY <1>20, ListEffect, EditEffect, UpdateEffect
  <2>2. \/ todo'[s] = Tail(todo[s]) \/ Instead(s, Op("review")) \/ Instead(s, Op("update"))
        \/ \E id \in Nat : Instead(s, <<"edit", id>>)
    BY <1>20, ListEffect, EditEffect, UpdateEffect
  <2>3. Op("review") \in AllCalls /\ Op("update") \in AllCalls
        /\ \A id \in Nat : <<"edit", id>> \in AllCalls
    BY OpIn DEF Plain, AllCalls
  <2>4. Names(Tail(todo[s])) \subseteq Names(todo'[s])
    BY <2>1, <2>2, <2>3, NextCall, InsteadNames
  <2>. QED
    BY <1>7, <2>1, <2>4 DEF Rids
<1>21. CASE Suggest(s)
  <2>1. /\ \E n \in {"post", "single"} : Calls(s, n)
        /\ answer' = answer /\ SuggestChange(s, Subject(s))
    BY <1>21, SuggestEffect
  <2>2. CASE todo'[s] = Tail(todo[s])
    BY <1>7, <2>1, <2>2 DEF Rids
  <2>3. CASE On({"local"})
    BY <1>1, <1>8, <2>3 DEF Forgotten
  <2>. QED
    BY <1>2, <2>1, <2>2, <2>3 DEF SuggestChange
<1>22. ~UploadGerrit(s)
  BY UploadEffect DEF Held, On
<1>. QED
  BY <1>4, <1>11, <1>12, <1>13, <1>14, <1>15, <1>16, <1>17, <1>18, <1>19, <1>20, <1>21, <1>22
  DEF Step

\* A comment that a step without a failed call publishes is held by the command.
LEMMA HeldNew ==
  ASSUME TypeOK, ProvidersAssumption, PrepareInv, NEW s \in Sessions, Step(s),
         failures' = failures, NEW c \in thread', c \notin thread, c.kind \in Preparing
  PROVE  c.by = s /\ c.id = read'[s].note /\ Held(s, c.kind)'
<1>1. UNCHANGED <<service, tool>> /\ (\A ks : On(ks)' = On(ks))
      /\ failures \in Nat /\ failures' # failures + 1 /\ ~(failures' > failures)
  BY FrameHolds DEF Frame, On, TypeOK
<1>2. ASSUME NEW kind \in {"said", "review", "update"} PROVE ~Commented(s, kind)
  BY <1>2 DEF Commented, New, Preparing
<1>3. /\ ~Say(s) /\ ~SayFailed(s) /\ ~NewReview(s) /\ ~Update(s) /\ ~PublishDescription(s)
  BY <1>2, SayEffect, SayFailedEffect, NewReviewEffect, UpdateEffect, PublishDescriptionEffect
<1>4. ~EditProgress(s) /\ ~Clean(s) /\ ~RemoveProgress(s)
  BY EditProgressEffect, CleanEffect, RemoveProgressEffect DEF Preparing
<1>5. Temporary(s) \/ Progress(s)
  BY <1>3, <1>4 DEF Step, Start, ReadDiff, Think, List, Edit, GetLabels, PutLabels,
     DescribeCodecommit, Suggest, NoteGitlab, UploadGerrit, SuggestGerrit
<1>6. PICK kind \in Preparing : /\ Calls(s, kind) /\ Commented(s, kind) /\ Continues(s)
                                /\ kind = "temporary" => Temporary(s)
                                /\ kind = "progress" => Progress(s)
  BY <1>5, TemporaryEffect, ProgressEffect DEF Preparing
<1>7. c = New(s, kind) /\ c.by = s /\ c.kind = kind /\ c.id = ids + 1
  BY <1>6 DEF Commented, New
<1>8. todo'[s] = Tail(todo[s]) /\ kind \in Names(todo[s]) /\ Names(todo'[s]) = Later(todo[s])
  BY <1>1, <1>6, NextCall DEF Continues, Later
<1>9. /\ Names(todo'[s]) \cap (Preparing \cup {"start"}) = {} /\ "think" \in Names(todo'[s])
      /\ IF tool[s] = "improve" /\ On(Markdown) THEN kind = "progress" ELSE kind = "temporary"
  BY <1>6, <1>8 DEF PrepareInv, Preparing
<1>10. ~On({"bitbucket_server", "codecommit", "gerrit"}) /\ read'[s].note = ids + 1
  <2>1. CASE kind = "temporary"
    <3>1. ~On({"bitbucket_server", "codecommit", "gerrit"})
          /\ read' = [read EXCEPT ![s].note = ids + 1]
      BY <1>1, <1>6, <2>1, TemporaryEffect
    <3>. QED
      BY <3>1 DEF TypeOK
  <2>2. CASE kind = "progress"
    <3>1. read' = [read EXCEPT ![s].note = ids + 1]
      BY <1>1, <1>6, <2>2, ProgressEffect
    <3>. QED
      BY <1>9, <2>2, <3>1 DEF TypeOK, On, Markdown
  <2>. QED
    BY <1>6, <2>1, <2>2 DEF Preparing
<1>11. "think" \in Rids(kind)
  BY DEF Rids
<1>. QED
  BY <1>1, <1>7, <1>9, <1>10, <1>11 DEF Held

LEMMA LitterStep ==
  ASSUME TypeOK, ProvidersAssumption, PrepareInv, LitterInv, NEW s \in Sessions, Step(s)
  PROVE  LitterInv'
<1>1. SUFFICES ASSUME failures' = 0, NEW c \in thread', c.kind \in Preparing
               PROVE  c.id = read'[c.by].note /\ Held(c.by, c.kind)'
  BY DEF LitterInv
<1>2. UNCHANGED <<service, tool>> /\ (\A ks : On(ks)' = On(ks))
      /\ \A t \in Sessions : t # s => todo'[t] = todo[t]
  BY FrameHolds DEF Frame, Alone, On
<1>3. failures = 0 /\ failures' = failures
  BY <1>1, FrameHolds DEF Frame, Alone, TypeOK
<1>4. CASE c \notin thread
  BY <1>1, <1>3, <1>4, HeldNew
<1>5. CASE c \in thread
  <2>1. c.id = read[c.by].note /\ Held(c.by, c.kind) /\ c.by \in Sessions /\ c.id # 0
    BY <1>1, <1>3, <1>5 DEF LitterInv, TypeOK
  <2>2. CASE c.by = s
    BY <1>1, <1>3, <2>1, <2>2, HeldStep
  <2>3. CASE c.by # s
    <3> DEFINE t == c.by
    <3>1. todo'[t] = todo[t] /\ answer'[t] = answer[t]
      BY <1>2, <2>1, <2>3, PostOthers
    <3>2. read'[t] = read[t]
      <4>1. read' = read \/ \E r : read' = [read EXCEPT ![s] = r]
        <5>1. CASE Start(s)
          BY <5>1, StartEffect
        <5>2. ASSUME NEW n, read' = [read EXCEPT ![s].note = n]
              PROVE  \E r : read' = [read EXCEPT ![s] = r]
          BY <5>2
        <5>3. ASSUME NEW ls, read' = [read EXCEPT ![s].labels = ls]
              PROVE  \E r : read' = [read EXCEPT ![s] = r]
          BY <5>3
        <5>. QED
          BY <5>1, <5>2, <5>3, FrameHolds DEF Frame
      <4>2. t \in Sessions /\ t # s /\ DOMAIN read = Sessions
        BY <2>1, <2>3 DEF TypeOK
      <4>. QED
        BY <4>1, <4>2 DEF TypeOK
    <3>3. Held(t, c.kind)'
      BY <1>2, <2>1, <3>1 DEF Held, Forgotten
    <3>. QED
      BY <2>1, <3>2, <3>3
  <2>. QED
    BY <2>2, <2>3
<1>. QED
  BY <1>4, <1>5

LEMMA LitterNext ==
  ASSUME TypeOK, ProvidersAssumption, PrepareInv, LitterInv, [Next]_vars
  PROVE  LitterInv'
<1>1. ASSUME UNCHANGED <<service, tool, answer, todo, read, thread, failures>>
      PROVE  LitterInv'
  BY <1>1 DEF LitterInv, Held, Forgotten, On
<1>. QED
  BY <1>1, LitterStep, AddLabelEffect, RewriteEffect DEF Next, Quiescent, vars

\* Without a failed call, a command leaves no "Preparing ..." comment behind when
\* it is done, except the ones that the code forgets.
THEOREM NoLitterHolds == Spec => []NoLitter
<1> DEFINE Inv == TypeOK /\ PrepareInv /\ LitterInv
<1>1. Init => Inv
  <2>1. SUFFICES ASSUME Init PROVE Inv
    OBVIOUS
  <2>2. TypeOK
    BY <2>1, InitTypes, ProvidersAssumption
  <2>3. ASSUME NEW s \in Sessions PROVE Names(todo[s]) = {"start"} /\ Later(todo[s]) = {}
    <3>1. todo[s] = <<Op("start")>> /\ Names(<<Op("start")>>) = {"start"}
      BY <2>1, NamesOne DEF Init, Plain
    <3>2. Tail(<<Op("start")>>) = <<>> /\ <<Op("start")>> # <<>>
      OBVIOUS
    <3>. QED
      BY <3>1, <3>2, NamesNil DEF Later
  <2>. QED
    BY <2>1, <2>2, <2>3 DEF PrepareInv, Preparing, LitterInv, Init
<1>2. Inv /\ [Next]_vars => Inv'
  BY NextTypes, PrepareStep, LitterNext, ProvidersAssumption
<1>3. Inv => NoLitter
  <2>1. SUFFICES ASSUME Inv, NEW s \in Sessions, NEW c \in thread, Ended(s), failures = 0,
                        c.by = s, c.kind \in Preparing
                 PROVE  Forgotten(s)
    BY DEF NoLitter, Preparing, Forgotten
  <2>2. Names(todo[s]) = {}
    BY <2>1, NamesNil DEF Ended
  <2>. QED
    BY <2>1, <2>2 DEF LitterInv, Held
<1> HIDE DEF Inv
<1>. QED
  BY <1>1, <1>2, <1>3, PTL DEF Spec
-----------------------------------------------------------------------------
(* The reading of the diff (DiffReading): recursion over its changes.        *)

\* A set with zero and the successors of its members has all the numbers.
LEMMA Numbers ==
  ASSUME NEW T, 0 \in T, \A n \in Nat : n \in T => n + 1 \in T
  PROVE  \A n \in Nat : n \in T
<1>1. SUFFICES ASSUME NEW n \in Nat, n \notin T PROVE FALSE
  OBVIOUS
<1> DEFINE Missing == {k \in Nat : k \notin T}
<1>2. PICK m \in Missing : \A k \in Missing : m <= k
  <2>1. Missing \in SUBSET Nat /\ Missing # {}
    BY <1>1
  <2> HIDE DEF Missing
  <2>. QED
    BY <2>1, LeastOf
<1>3. m \in Nat /\ m \notin T
  OBVIOUS
<1>4. m # 0 /\ m - 1 \in Nat /\ m - 1 < m /\ (m - 1) + 1 = m
  BY <1>3
<1>5. m - 1 \notin Missing
  <2> HIDE DEF Missing
  <2>. QED
    BY <1>2, <1>3, <1>4
<1>6. m - 1 \in T
  BY <1>4, <1>5
<1>. QED
  BY <1>3, <1>4, <1>6

\* Each of the first m values follows from the one before and its number.
Follows(f, zero, step, m) == f[0] = zero /\ \A n \in 1..m : f[n] = step[<<f[n - 1], n>>]

LEMMA Recursion ==
  ASSUME NEW S, NEW zero \in S, NEW step \in [S \X Nat -> S]
  PROVE  \A m \in Nat : \E f \in [0..m -> S] : Follows(f, zero, step, m)
<1> DEFINE T == {m \in Nat : \E f \in [0..m -> S] : Follows(f, zero, step, m)}
<1>1. 0 \in T
  <2> DEFINE f == [n \in 0..0 |-> zero]
  <2>1. f \in [0..0 -> S] /\ f[0] = zero /\ 1..0 = {}
    OBVIOUS
  <2>2. Follows(f, zero, step, 0)
    BY <2>1 DEF Follows
  <2>. QED
    BY <2>1, <2>2
<1>2. ASSUME NEW m \in Nat, m \in T PROVE m + 1 \in T
  <2>1. PICK f \in [0..m -> S] : Follows(f, zero, step, m)
    BY <1>2
  <2> DEFINE g == [n \in 0..(m + 1) |-> IF n <= m THEN f[n] ELSE step[<<f[m], n>>]]
  <2>2. g \in [0..(m + 1) -> S]
    <3>1. ASSUME NEW n \in 0..(m + 1) PROVE (IF n <= m THEN f[n] ELSE step[<<f[m], n>>]) \in S
      <4>1. m \in 0..m /\ f[m] \in S /\ n \in Nat /\ <<f[m], n>> \in S \X Nat
        OBVIOUS
      <4>. QED
        BY <4>1
    <3>. QED
      BY <3>1
  <2>3. g[0] = zero
    BY <2>1 DEF Follows
  <2>4. ASSUME NEW n \in 1..(m + 1) PROVE g[n] = step[<<g[n - 1], n>>]
    <3>1. n \in 0..(m + 1) /\ n - 1 \in 0..(m + 1) /\ n - 1 \in 0..m /\ n - 1 <= m
      OBVIOUS
    <3>2. g[n - 1] = f[n - 1]
      BY <3>1
    <3>3. CASE n <= m
      <4>1. g[n] = f[n] /\ n \in 1..m
        BY <3>1, <3>3
      <4>. QED
        BY <2>1, <3>2, <4>1 DEF Follows
    <3>4. CASE ~(n <= m)
      <4>1. n - 1 = m
        BY <3>4
      <4>2. g[n] = step[<<f[m], n>>]
        BY <3>1, <3>4
      <4>. QED
        BY <3>2, <4>1, <4>2
    <3>. QED
      BY <3>3, <3>4
  <2>5. Follows(g, zero, step, m + 1)
    <3> HIDE DEF g
    <3>. QED
      BY <2>3, <2>4 DEF Follows
  <2> HIDE DEF g
  <2>. QED
    BY <2>2, <2>5
<1> HIDE DEF T
<1>3. \A m \in Nat : m \in T
  BY <1>1, <1>2, Numbers
<1>. QED
  BY <1>3 DEF T

LEMMA ChangesIndexed ==
  ASSUME ChangesAssumption
  PROVE  /\ Len(Changes) \in Nat /\ DOMAIN Changes = 1..Len(Changes)
         /\ ToSet(Changes) = {Changes[i] : i \in 1..Len(Changes)}
         /\ \A i \in 1..Len(Changes) : Changes[i] \in ToSet(Changes)
         /\ \A c \in ToSet(Changes) : \E i \in 1..Len(Changes) : c = Changes[i]
<1>1. Changes \in Seq(ToSet(Changes))
  BY DEF ChangesAssumption
<1>2. Len(Changes) \in Nat /\ DOMAIN Changes = 1..Len(Changes)
  BY <1>1
<1>. QED
  BY <1>2 DEF ToSet

\* Changes of one name are the same.
LEMMA OneName ==
  ASSUME ChangesAssumption, NEW c \in ToSet(Changes), NEW d \in ToSet(Changes), c.name = d.name
  PROVE  c = d
<1>1. PICK i \in 1..Len(Changes) : c = Changes[i]
  BY ChangesIndexed
<1>2. PICK j \in 1..Len(Changes) : d = Changes[j]
  BY ChangesIndexed
<1>3. i \in DOMAIN Changes /\ j \in DOMAIN Changes /\ Changes[i].name = Changes[j].name
  BY <1>1, <1>2, ChangesIndexed
<1>4. i = j
  BY <1>3 DEF ChangesAssumption
<1>. QED
  BY <1>1, <1>2, <1>4

-----------------------------------------------------------------------------
(* What a reading has of one file. *)

\* There are entries of f, and p is the patch of each.
Reads(E, f, p) ==
  /\ \E e \in E : e.file = f
  /\ \A e \in E : e.file = f => e.patch = p

LEMMA PatchIs ==
  ASSUME NEW E, NEW f, NEW p, Reads(E, f, p)
  PROVE  PatchOf(E, f) = p
<1>1. {d \in E : d.file = f} # {} /\ \A d \in {d \in E : d.file = f} : d.patch = p
  BY DEF Reads
<1>. QED
  BY <1>1 DEF PatchOf

LEMMA PatchNone ==
  ASSUME NEW E, NEW f, ~\E e \in E : e.file = f
  PROVE  PatchOf(E, f) = {}
<1>1. {d \in E : d.file = f} = {}
  OBVIOUS
<1>. QED
  BY <1>1 DEF PatchOf

\* Each of the entries is of one of the changes C, and those of c have the patch p.
AreOf(E, C, c, p) ==
  /\ C \subseteq ToSet(Changes)
  /\ \A e \in E : \E d \in C : e.file = d.name
  /\ c \in C => \E e \in E : e.file = c.name
  /\ c \in C => \A e \in E : e.file = c.name => e.patch = p

LEMMA PatchOne ==
  ASSUME ChangesAssumption, NEW C, NEW E, NEW p, NEW c \in ToSet(Changes), AreOf(E, C, c, p)
  PROVE  PatchOf(E, c.name) = IF c \in C THEN p ELSE {}
<1>1. CASE c \in C
  <2>1. Reads(E, c.name, p)
    BY <1>1 DEF AreOf, Reads
  <2>3. PatchOf(E, c.name) = p
    BY <2>1, PatchIs
  <2>. QED
    BY <1>1, <2>3
<1>2. CASE c \notin C
  <2>1. ASSUME NEW e \in E, e.file = c.name PROVE FALSE
    <3>1. PICK d \in C : e.file = d.name
      BY DEF AreOf
    <3>2. d \in ToSet(Changes)
      BY DEF AreOf
    <3>. QED
      BY <1>2, <2>1, <3>1, <3>2, OneName
  <2>. QED
    BY <1>2, <2>1, PatchNone
<1>. QED
  BY <1>1, <1>2

-----------------------------------------------------------------------------
(* The places of some changes. *)

PlacesOf(of, chosen) ==
  of = [n \in 0..Len(Changes) |->
          IF n = 0 THEN <<>> ELSE IF n \in chosen THEN Append(of[n - 1], n) ELSE of[n - 1]]

LEMMA PlacesExist ==
  ASSUME ChangesAssumption, NEW chosen
  PROVE  \E of : PlacesOf(of, chosen)
<1> DEFINE step == [p \in Seq(Nat) \X Nat |->
                      IF p[2] \in chosen THEN Append(p[1], p[2]) ELSE p[1]]
<1>1. <<>> \in Seq(Nat) /\ step \in [Seq(Nat) \X Nat -> Seq(Nat)] /\ Len(Changes) \in Nat
  <2>1. ASSUME NEW p \in Seq(Nat) \X Nat
        PROVE  (IF p[2] \in chosen THEN Append(p[1], p[2]) ELSE p[1]) \in Seq(Nat)
    <3>1. p[1] \in Seq(Nat) /\ p[2] \in Nat
      OBVIOUS
    <3>. QED
      BY <3>1
  <2>2. step \in [Seq(Nat) \X Nat -> Seq(Nat)]
    BY <2>1
  <2>3. <<>> \in Seq(Nat)
    OBVIOUS
  <2>. QED
    BY <2>2, <2>3, ChangesIndexed
<1>2. \A q \in Seq(Nat), n \in Nat :
        step[<<q, n>>] = IF n \in chosen THEN Append(q, n) ELSE q
  OBVIOUS
<1> HIDE DEF step
<1>3. PICK f \in [0..Len(Changes) -> Seq(Nat)] : Follows(f, <<>>, step, Len(Changes))
  BY <1>1, Recursion
<1>4. ASSUME NEW n \in 0..Len(Changes)
      PROVE  f[n] = IF n = 0 THEN <<>> ELSE IF n \in chosen THEN Append(f[n - 1], n) ELSE f[n - 1]
  <2>1. CASE n = 0
    BY <1>3, <2>1 DEF Follows
  <2>2. CASE n # 0
    <3>1. n \in 1..Len(Changes) /\ n \in Nat /\ n - 1 \in 0..Len(Changes) /\ f[n - 1] \in Seq(Nat)
      BY <1>1, <2>2
    <3>2. f[n] = step[<<f[n - 1], n>>]
      BY <1>3, <3>1 DEF Follows
    <3>. QED
      BY <1>2, <2>2, <3>1, <3>2
  <2>. QED
    BY <2>1, <2>2
<1>5. PlacesOf(f, chosen)
  BY <1>3, <1>4 DEF PlacesOf
<1>. QED
  BY <1>5

LEMMA PlacesFound ==
  ASSUME ChangesAssumption, NEW chosen \in SUBSET (1..Len(Changes))
  PROVE  /\ Places(chosen) \in Seq(chosen)
         /\ \A k \in chosen : \E j \in 1..Len(Places(chosen)) : Places(chosen)[j] = k
<1> DEFINE of == CHOOSE g : PlacesOf(g, chosen)
<1>1. PlacesOf(of, chosen)
  BY PlacesExist
<1>2. Places(chosen) = of[Len(Changes)]
  BY DEF Places, PlacesOf
<1>3. Len(Changes) \in Nat
  BY ChangesIndexed
<1> HIDE DEF of
<1> DEFINE Good(n) ==
             /\ of[n] \in Seq(chosen)
             /\ \A k \in chosen : k <= n => \E j \in 1..Len(of[n]) : of[n][j] = k
           T == {n \in Nat : n <= Len(Changes) => Good(n)}
<1>4. 0 \in T
  <2>1. of[0] = <<>> /\ <<>> \in Seq(chosen)
    BY <1>1, <1>3 DEF PlacesOf
  <2>2. \A k \in chosen : ~(k <= 0)
    OBVIOUS
  <2>. QED
    BY <2>1, <2>2
<1>5. ASSUME NEW n \in Nat, n \in T PROVE n + 1 \in T
  <2>1. SUFFICES ASSUME n + 1 <= Len(Changes) PROVE Good(n + 1)
    OBVIOUS
  <2>2. /\ of[n] \in Seq(chosen)
        /\ \A k \in chosen : k <= n => \E j \in 1..Len(of[n]) : of[n][j] = k
    BY <1>3, <1>5, <2>1
  <2>3. of[n + 1] = IF n + 1 \in chosen THEN Append(of[n], n + 1) ELSE of[n]
    <3>1. n + 1 \in 0..Len(Changes) /\ n + 1 # 0 /\ (n + 1) - 1 = n
      BY <1>3, <2>1
    <3>. QED
      BY <1>1, <3>1 DEF PlacesOf
  <2>4. CASE n + 1 \in chosen
    <3>1. /\ of[n + 1] = Append(of[n], n + 1) /\ of[n + 1] \in Seq(chosen)
          /\ Len(of[n + 1]) = Len(of[n]) + 1 /\ of[n + 1][Len(of[n]) + 1] = n + 1
          /\ \A j \in 1..Len(of[n]) : of[n + 1][j] = of[n][j]
          /\ Len(of[n]) \in Nat
      BY <2>2, <2>3, <2>4
    <3>2. ASSUME NEW k \in chosen, k <= n + 1
          PROVE  \E j \in 1..Len(of[n + 1]) : of[n + 1][j] = k
      <4>1. CASE k = n + 1
        <5>1. Len(of[n]) + 1 \in 1..Len(of[n + 1])
          BY <3>1
        <5>. QED
          BY <3>1, <4>1, <5>1
      <4>2. CASE k # n + 1
        <5>1. k <= n
          BY <3>2, <4>2
        <5>2. PICK j \in 1..Len(of[n]) : of[n][j] = k
          BY <2>2, <5>1
        <5>. QED
          BY <3>1, <5>2
      <4>. QED
        BY <4>1, <4>2
    <3>. QED
      BY <3>1, <3>2
  <2>5. CASE n + 1 \notin chosen
    <3>1. of[n + 1] = of[n]
      BY <2>3, <2>5
    <3>2. \A k \in chosen : k <= n + 1 => k <= n
      BY <2>5
    <3>. QED
      BY <2>2, <3>1, <3>2
  <2>. QED
    BY <2>4, <2>5
<1> HIDE DEF T
<1>6. \A n \in Nat : n \in T
  BY <1>4, <1>5, Numbers
<1>7. Good(Len(Changes))
  BY <1>3, <1>6 DEF T
<1>8. \A k \in chosen : k <= Len(Changes)
  BY <1>3
<1>. QED
  BY <1>2, <1>7, <1>8

-----------------------------------------------------------------------------
(* What the services read of a change that no failed call concerns.          *)

\* The failed calls do not concern c.
Spared(failed, c) == {x[2] : x \in failed} \cap {c.name, ""} = {}

LEMMA SparedCalls ==
  ASSUME NEW failed, NEW c, Spared(failed, c)
  PROVE  /\ \A kind : Overall(kind) \notin failed
         /\ \A kind : <<kind, c.name>> \notin failed
         /\ BaseOr(c, failed) = Before(c) /\ HeadOr(c, failed) = After(c)
<1>1. ASSUME NEW kind PROVE Overall(kind) \notin failed /\ <<kind, c.name>> \notin failed
  <2>1. Overall(kind)[2] = "" /\ <<kind, c.name>>[2] = c.name
    BY DEF Overall
  <2>2. "" \notin {x[2] : x \in failed} /\ c.name \notin {x[2] : x \in failed}
    BY DEF Spared
  <2>. QED
    BY <2>1, <2>2
<1>. QED
  BY <1>1 DEF BaseOr, HeadOr

LEMMA GitlabReads ==
  ASSUME ChangesAssumption, NEW failed, NEW c \in ToSet(Changes), Spared(failed, c)
  PROVE  LET r == ReadGitlab(failed) IN
         /\ PatchOf(r.entries, c.name) = IF c \in Kept THEN Patch(c) ELSE {}
         /\ \A f \in c.inside : PatchOf(r.entries, f) # {}
<1> DEFINE own == {Entry(d.name, IF d.large THEN Computed(BaseOr(d, failed), HeadOr(d, failed))
                                 ELSE Patch(d)) : d \in Kept}
           others == UNION {Inside(d, failed) : d \in ToSet(Changes)}
           E == own \cup others
<1>1. ReadGitlab(failed).entries = E
  BY SparedCalls DEF ReadGitlab, Returned
<1>2. PatchOf(own, c.name) = IF c \in Kept THEN Patch(c) ELSE {}
  <2>1. \A e \in own : \E d \in Kept :
          /\ e.file = d.name
          /\ e.patch = IF d.large THEN Computed(BaseOr(d, failed), HeadOr(d, failed)) ELSE Patch(d)
    BY DEF Entry
  <2>2. ASSUME c \in Kept PROVE \E e \in own : e.file = c.name
    <3> DEFINE x == Entry(c.name, IF c.large THEN Computed(BaseOr(c, failed), HeadOr(c, failed))
                                  ELSE Patch(c))
    <3>1. x \in own
      BY <2>2
    <3>2. x.file = c.name
      BY DEF Entry
    <3> HIDE DEF x, own
    <3>. QED
      BY <3>1, <3>2
  <2>3. ASSUME NEW e \in own, e.file = c.name PROVE e.patch = Patch(c)
    <3>1. PICK d \in Kept : /\ e.file = d.name
            /\ e.patch = IF d.large THEN Computed(BaseOr(d, failed), HeadOr(d, failed)) ELSE Patch(d)
      BY <2>1
    <3>2. d = c
      BY <2>3, <3>1, OneName DEF Kept
    <3>. QED
      BY <3>1, <3>2, SparedCalls DEF Patch
  <2>4. Kept \subseteq ToSet(Changes) /\ \A e \in own : \E d \in Kept : e.file = d.name
    BY <2>1 DEF Kept
  <2> HIDE DEF own
  <2>5. AreOf(own, Kept, c, Patch(c))
    BY <2>2, <2>3, <2>4 DEF AreOf
  <2>. QED
    BY <2>5, PatchOne
<1>3. ASSUME NEW e \in others PROVE \E d \in ToSet(Changes) : e.file \in d.inside
  BY DEF Inside, Entry
<1>4. \A e \in others : e.file # c.name
  BY <1>3 DEF ChangesAssumption
<1>5. PatchOf(E, c.name) = PatchOf(own, c.name)
  <2> HIDE DEF own, others
  <2>1. {e \in E : e.file = c.name} = {e \in own : e.file = c.name}
    BY <1>4
  <2>. QED
    BY <2>1 DEF PatchOf
<1>6. ASSUME NEW f \in c.inside PROVE PatchOf(E, f) # {}
  <2> DEFINE e == Entry(f, {<<f, "inside">>})
  <2>1. Resolved(c, failed)
    BY SparedCalls DEF Resolved
  <2>2. e \in Inside(c, failed)
    BY <2>1 DEF Inside
  <2>3. e \in E /\ e.file = f /\ <<f, "inside">> \in e.patch
    BY <2>2 DEF Entry
  <2> HIDE DEF e, E
  <2>4. e \in {d \in E : d.file = f}
    BY <2>3
  <2>. QED
    BY <2>3, <2>4 DEF PatchOf
<1>. QED
  BY <1>1, <1>2, <1>5, <1>6

LEMMA AzureReads ==
  ASSUME ChangesAssumption, NEW failed, NEW c \in ToSet(Changes), Spared(failed, c),
         c.type # "rename"
  PROVE  PatchOf(ReadAzure(failed).entries, c.name) = IF c \in Kept THEN Patch(c) ELSE {}
<1> DEFINE Read(d) == Computed(IF d.type = "rename" THEN {} ELSE BaseOr(d, failed), HeadOr(d, failed))
           E == {Entry(d.name, Read(d)) : d \in Kept}
<1>1. ReadAzure(failed).entries = E
  BY SparedCalls DEF ReadAzure, Returned
<1>2. \A e \in E : \E d \in Kept : e.file = d.name /\ e.patch = Read(d)
  BY DEF Entry
<1>3. ASSUME c \in Kept PROVE \E e \in E : e.file = c.name
  <2> DEFINE x == Entry(c.name, Read(c))
  <2>1. x \in E
    BY <1>3
  <2>2. x.file = c.name
    BY DEF Entry
  <2> HIDE DEF x, E
  <2>. QED
    BY <2>1, <2>2
<1>4. ASSUME NEW e \in E, e.file = c.name PROVE e.patch = Patch(c)
  <2>1. PICK d \in Kept : e.file = d.name /\ e.patch = Read(d)
    BY <1>2
  <2>2. d = c
    BY <1>4, <2>1, OneName DEF Kept
  <2>. QED
    BY <2>1, <2>2, SparedCalls DEF Patch
<1>5. Kept \subseteq ToSet(Changes) /\ \A e \in E : \E d \in Kept : e.file = d.name
  BY <1>2 DEF Kept
<1> HIDE DEF E
<1>6. PatchOf(E, c.name) = IF c \in Kept THEN Patch(c) ELSE {}
  <2>1. AreOf(E, Kept, c, Patch(c))
    BY <1>3, <1>4, <1>5 DEF AreOf
  <2>. QED
    BY <2>1, PatchOne
<1>. QED
  BY <1>1, <1>6

\* What the hunks of a change leave of it on Gitea: the last one.
LastHunk(c) == IF c.hunks = <<>> THEN {} ELSE {<<c.name, c.hunks[Len(c.hunks)]>>}

ApartOf(after, p, c) ==
  after = [j \in 0..Len(c.hunks) |->
             IF j = 0 THEN TakeHeader(p, c.name)
             ELSE TakeHunk(after[j - 1], <<c.name, c.hunks[j]>>)]

LEMMA ApartIs ==
  ASSUME ChangesAssumption, NEW p, NEW c \in ToSet(Changes)
  PROVE  TakeApart(p, c) = [file |-> c.name, patch |-> LastHunk(c), done |-> PutAway(p)]
<1> DEFINE m == Len(c.hunks)
           Upto(j) == [file |-> c.name,
                       patch |-> IF j = 0 THEN {} ELSE {<<c.name, c.hunks[j]>>},
                       done |-> PutAway(p)]
<1>1. m \in Nat /\ c.hunks \in Seq(ToSet(c.hunks))
  BY DEF ChangesAssumption
<1>2. TakeHeader(p, c.name) = Upto(0)
  BY DEF TakeHeader
<1>3. ASSUME NEW j \in 1..m PROVE TakeHunk(Upto(j - 1), <<c.name, c.hunks[j]>>) = Upto(j)
  <2> DEFINE x == Upto(j - 1)
             line == <<c.name, c.hunks[j]>>
  <2>1. TakeHunk(x, line) = [x EXCEPT !.patch = {line}]
    BY DEF TakeHunk
  <2>2. j # 0
    OBVIOUS
  <2>. QED
    BY <2>1, <2>2
<1> HIDE DEF m, Upto
<1>4. \E g : ApartOf(g, p, c)
  <2> DEFINE g == [j \in 0..m |-> Upto(j)]
             h == [j \in 0..m |-> IF j = 0 THEN TakeHeader(p, c.name)
                                  ELSE TakeHunk(g[j - 1], <<c.name, c.hunks[j]>>)]
  <2>1. ASSUME NEW j \in 0..m PROVE g[j] = h[j]
    <3>1. CASE j = 0
      BY <1>2, <3>1
    <3>2. CASE j # 0
      <4>1. j \in 1..m /\ j - 1 \in 0..m
        BY <1>1, <3>2
      <4>2. g[j - 1] = Upto(j - 1) /\ g[j] = Upto(j)
        BY <4>1
      <4>3. h[j] = TakeHunk(g[j - 1], <<c.name, c.hunks[j]>>)
        BY <3>2
      <4> HIDE DEF g, h
      <4>. QED
        BY <1>3, <4>1, <4>2, <4>3
    <3>. QED
      BY <3>1, <3>2
  <2>2. g = [j \in 0..m |-> g[j]] /\ h = [j \in 0..m |-> h[j]]
    OBVIOUS
  <2>3. g = h
    <3> HIDE DEF g, h
    <3>. QED
      BY <2>1, <2>2
  <2>4. ApartOf(g, p, c)
    <3> HIDE DEF g
    <3>. QED
      BY <2>3 DEF ApartOf, m
  <2>. QED
    BY <2>4
<1> DEFINE after == CHOOSE g : ApartOf(g, p, c)
<1>5. ApartOf(after, p, c)
  BY <1>4
<1>6. TakeApart(p, c) = after[m]
  BY DEF TakeApart, ApartOf, m
<1> HIDE DEF after
<1> DEFINE T == {j \in Nat : j <= m => after[j] = Upto(j)}
<1>7. 0 \in T
  <2>1. 0 \in 0..m
    BY <1>1
  <2>2. after[0] = TakeHeader(p, c.name)
    BY <1>5, <2>1 DEF ApartOf, m
  <2>. QED
    BY <1>2, <2>2
<1>8. ASSUME NEW j \in Nat, j \in T PROVE j + 1 \in T
  <2>1. SUFFICES ASSUME j + 1 <= m PROVE after[j + 1] = Upto(j + 1)
    OBVIOUS
  <2>2. after[j] = Upto(j) /\ j + 1 \in 0..m /\ j + 1 \in 1..m /\ j + 1 # 0 /\ (j + 1) - 1 = j
    BY <1>1, <1>8, <2>1
  <2>3. after[j + 1] = TakeHunk(after[(j + 1) - 1], <<c.name, c.hunks[j + 1]>>)
    BY <1>5, <2>2 DEF ApartOf, m
  <2>4. TakeHunk(Upto((j + 1) - 1), <<c.name, c.hunks[j + 1]>>) = Upto(j + 1)
    BY <1>3, <2>2
  <2>. QED
    BY <2>2, <2>3, <2>4
<1> HIDE DEF T
<1>9. m \in T
  BY <1>1, <1>7, <1>8, Numbers
<1>10. TakeApart(p, c) = Upto(m)
  BY <1>6, <1>9, <1>1 DEF T
<1>11. (m = 0) <=> (c.hunks = <<>>)
  BY <1>1 DEF m
<1>. QED
  BY <1>10, <1>11 DEF Upto, m, LastHunk

TakenOf(after) ==
  after = [n \in 0..Len(Changes) |->
             IF n = 0 THEN [file |-> "", patch |-> {}, done |-> {}]
             ELSE TakeApart(after[n - 1], Changes[n])]

LEMMA TakenApartIs ==
  ASSUME ChangesAssumption
  PROVE  TakenApart = {Entry(c.name, LastHunk(c)) : c \in {d \in ToSet(Changes) : LastHunk(d) # {}}}
<1> DEFINE m == Len(Changes)
           Done(n) == {Entry(Changes[k].name, LastHunk(Changes[k])) :
                         k \in {i \in 1..n : LastHunk(Changes[i]) # {}}}
           Upto(n) == IF n = 0 THEN [file |-> "", patch |-> {}, done |-> {}]
                      ELSE [file |-> Changes[n].name, patch |-> LastHunk(Changes[n]),
                            done |-> Done(n - 1)]
<1>1. m \in Nat /\ \A n \in 1..m : Changes[n] \in ToSet(Changes)
  BY ChangesIndexed
<1>2. ASSUME NEW n \in 0..m PROVE PutAway(Upto(n)) = Done(n)
  <2>1. CASE n = 0
    <3>1. Done(0) = {}
      OBVIOUS
    <3>. QED
      BY <2>1, <3>1 DEF PutAway
  <2>2. CASE n # 0
    <3> DEFINE x == Entry(Changes[n].name, LastHunk(Changes[n]))
    <3>1. PutAway(Upto(n)) = IF LastHunk(Changes[n]) = {} THEN Done(n - 1) ELSE Done(n - 1) \cup {x}
      BY <2>2 DEF PutAway
    <3>2. \A i : i \in 1..n <=> i \in 1..(n - 1) \/ i = n
      BY <1>1, <2>2
    <3>3. CASE LastHunk(Changes[n]) = {}
      <4>1. {i \in 1..n : LastHunk(Changes[i]) # {}} = {i \in 1..(n - 1) : LastHunk(Changes[i]) # {}}
        BY <3>2, <3>3
      <4>. QED
        BY <3>1, <3>3, <4>1
    <3>4. CASE LastHunk(Changes[n]) # {}
      <4>1. {i \in 1..n : LastHunk(Changes[i]) # {}}
              = {i \in 1..(n - 1) : LastHunk(Changes[i]) # {}} \cup {n}
        BY <3>2, <3>4
      <4>2. Done(n) = Done(n - 1) \cup {x}
        BY <4>1
      <4>. QED
        BY <3>1, <3>4, <4>2
    <3>. QED
      BY <3>3, <3>4
  <2>. QED
    BY <2>1, <2>2
<1>3. ASSUME NEW n \in 1..m PROVE TakeApart(Upto(n - 1), Changes[n]) = Upto(n)
  <2>1. n # 0 /\ n - 1 \in 0..m /\ Changes[n] \in ToSet(Changes)
    BY <1>1
  <2>2. PutAway(Upto(n - 1)) = Done(n - 1)
    BY <1>2, <2>1
  <2>3. TakeApart(Upto(n - 1), Changes[n])
          = [file |-> Changes[n].name, patch |-> LastHunk(Changes[n]), done |-> PutAway(Upto(n - 1))]
    BY <2>1, ApartIs
  <2>. QED
    BY <2>1, <2>2, <2>3
<1>4. Upto(0) = [file |-> "", patch |-> {}, done |-> {}]
  OBVIOUS
<1> HIDE DEF m, Upto
<1>5. \E g : TakenOf(g)
  <2> DEFINE g == [n \in 0..m |-> Upto(n)]
             h == [n \in 0..m |-> IF n = 0 THEN [file |-> "", patch |-> {}, done |-> {}]
                                  ELSE TakeApart(g[n - 1], Changes[n])]
  <2>1. ASSUME NEW n \in 0..m PROVE g[n] = h[n]
    <3>1. CASE n = 0
      BY <1>4, <3>1
    <3>2. CASE n # 0
      <4>1. n \in 1..m /\ n - 1 \in 0..m
        BY <1>1, <3>2
      <4>2. g[n - 1] = Upto(n - 1) /\ g[n] = Upto(n)
        BY <4>1
      <4>3. h[n] = TakeApart(g[n - 1], Changes[n])
        BY <3>2
      <4> HIDE DEF g, h
      <4>. QED
        BY <1>3, <4>1, <4>2, <4>3
    <3>. QED
      BY <3>1, <3>2
  <2>2. g = [n \in 0..m |-> g[n]] /\ h = [n \in 0..m |-> h[n]]
    OBVIOUS
  <2>3. g = h
    <3> HIDE DEF g, h
    <3>. QED
      BY <2>1, <2>2
  <2>4. TakenOf(g)
    <3> HIDE DEF g
    <3>. QED
      BY <2>3 DEF TakenOf, m
  <2>. QED
    BY <2>4
<1> DEFINE after == CHOOSE g : TakenOf(g)
<1>6. TakenOf(after)
  BY <1>5
<1>7. TakenApart = PutAway(after[m])
  BY DEF TakenApart, TakenOf, m
<1> HIDE DEF after
<1> DEFINE T == {n \in Nat : n <= m => after[n] = Upto(n)}
<1>8. 0 \in T
  <2>1. 0 \in 0..m
    BY <1>1
  <2>2. after[0] = [file |-> "", patch |-> {}, done |-> {}]
    BY <1>6, <2>1 DEF TakenOf, m
  <2>. QED
    BY <1>4, <2>2
<1>9. ASSUME NEW n \in Nat, n \in T PROVE n + 1 \in T
  <2>1. SUFFICES ASSUME n + 1 <= m PROVE after[n + 1] = Upto(n + 1)
    OBVIOUS
  <2>2. after[n] = Upto(n) /\ n + 1 \in 0..m /\ n + 1 \in 1..m /\ n + 1 # 0 /\ (n + 1) - 1 = n
    BY <1>1, <1>9, <2>1
  <2>3. after[n + 1] = TakeApart(after[(n + 1) - 1], Changes[n + 1])
    BY <1>6, <2>2 DEF TakenOf, m
  <2>4. TakeApart(Upto((n + 1) - 1), Changes[n + 1]) = Upto(n + 1)
    BY <1>3, <2>2
  <2>. QED
    BY <2>2, <2>3, <2>4
<1> HIDE DEF T
<1>10. \A n \in Nat : n \in T
  BY <1>8, <1>9, Numbers
<1>11. TakenApart = Done(m)
  <2>1. m \in T /\ m \in 0..m
    BY <1>1, <1>10
  <2>2. after[m] = Upto(m)
    BY <1>1, <2>1 DEF T
  <2> HIDE DEF Done
  <2>. QED
    BY <1>2, <1>7, <2>1, <2>2
<1> DEFINE all == {Entry(c.name, LastHunk(c)) : c \in {d \in ToSet(Changes) : LastHunk(d) # {}}}
<1>12. ASSUME NEW e \in Done(m) PROVE e \in all
  <2>1. PICK k \in 1..m : LastHunk(Changes[k]) # {} /\ e = Entry(Changes[k].name, LastHunk(Changes[k]))
    BY <1>12
  <2>2. Changes[k] \in {d \in ToSet(Changes) : LastHunk(d) # {}}
    BY <1>1, <2>1
  <2>. QED
    BY <2>1, <2>2
<1>13. ASSUME NEW e \in all PROVE e \in Done(m)
  <2>1. PICK c \in ToSet(Changes) : LastHunk(c) # {} /\ e = Entry(c.name, LastHunk(c))
    BY <1>13
  <2>2. PICK k \in 1..m : c = Changes[k]
    BY ChangesIndexed DEF m
  <2>3. k \in {i \in 1..m : LastHunk(Changes[i]) # {}}
    BY <2>1, <2>2
  <2>. QED
    BY <2>1, <2>2, <2>3
<1> HIDE DEF Done
<1>14. Done(m) = all
  BY <1>12, <1>13
<1>. QED
  BY <1>11, <1>14

\* A change with at most one hunk is read in full.
LEMMA HunksAre ==
  ASSUME ChangesAssumption, NEW c \in ToSet(Changes), ~(Len(c.hunks) > 1)
  PROVE  LastHunk(c) = Patch(c)
<1>1. HunksOf(c.name) = ToSet(c.hunks)
  <2>1. {d \in ToSet(Changes) : d.name = c.name} = {c}
    BY OneName
  <2>. QED
    BY <2>1 DEF HunksOf
<1>2. c.hunks \in Seq(ToSet(c.hunks)) /\ c.type \in {"add", "delete", "modify", "rename"}
  BY DEF ChangesAssumption
<1>3. CASE c.type = "add"
  <2>1. c.hunks = <<"added">>
    BY <1>3 DEF ChangesAssumption
  <2>2. LastHunk(c) = {<<c.name, "added">>}
    BY <2>1 DEF LastHunk
  <2>3. Patch(c) = {c.name} \X {"added"}
    BY <1>3 DEF Patch, Computed, Before, After
  <2>. QED
    BY <2>2, <2>3
<1>4. CASE c.type = "delete"
  <2>1. c.hunks = <<"removed">>
    BY <1>4 DEF ChangesAssumption
  <2>2. LastHunk(c) = {<<c.name, "removed">>}
    BY <2>1 DEF LastHunk
  <2>3. Patch(c) = {c.name} \X {"removed"}
    BY <1>4 DEF Patch, Computed, Before, After
  <2>. QED
    BY <2>2, <2>3
<1>5. CASE c.type \notin {"add", "delete"}
  <2>1. Patch(c) = {c.name} \X ToSet(c.hunks)
    <3>1. Before(c) = {c.name} /\ After(c) = {c.name}
      BY <1>5 DEF Before, After
    <3>. QED
      BY <1>1, <3>1 DEF Patch, Computed
  <2>2. CASE c.hunks = <<>>
    <3>1. ToSet(c.hunks) = {}
      BY <2>2 DEF ToSet
    <3>. QED
      BY <2>1, <2>2, <3>1 DEF LastHunk
  <2>3. CASE c.hunks # <<>>
    <3>1. Len(c.hunks) = 1 /\ DOMAIN c.hunks = {1}
      <4>1. Len(c.hunks) \in Nat /\ Len(c.hunks) # 0 /\ DOMAIN c.hunks = 1..Len(c.hunks)
        BY <1>2, <2>3
      <4> DEFINE m == Len(c.hunks)
      <4>2. m \in Nat /\ m # 0 /\ ~(m > 1)
        BY <4>1
      <4> HIDE DEF m
      <4>3. m = 1
        BY <4>2
      <4>. QED
        BY <4>1, <4>3 DEF m
    <3>2. ToSet(c.hunks) = {c.hunks[1]}
      BY <3>1 DEF ToSet
    <3>. QED
      BY <2>1, <2>3, <3>1, <3>2 DEF LastHunk
  <2>. QED
    BY <2>2, <2>3
<1>. QED
  BY <1>2, <1>3, <1>4, <1>5

LEMMA GiteaReads ==
  ASSUME ChangesAssumption, NEW failed, NEW c \in ToSet(Changes), Spared(failed, c),
         ~(Len(c.hunks) > 1)
  PROVE  PatchOf(ReadGitea(failed).entries, c.name) = IF c \in Kept THEN Patch(c) ELSE {}
<1> DEFINE Found(d) == UNION {e.patch : e \in {x \in TakenApart : x.file = d.name}}
           E == {Entry(d.name, Found(d)) : d \in Kept}
<1>1. ReadGitea(failed).entries = E
  BY SparedCalls DEF ReadGitea, Returned
<1>2. \A e \in E : \E d \in Kept : e.file = d.name /\ e.patch = Found(d)
  BY DEF Entry
<1>3. ASSUME c \in Kept PROVE \E e \in E : e.file = c.name
  <2> DEFINE x == Entry(c.name, Found(c))
  <2>1. x \in E
    BY <1>3
  <2>2. x.file = c.name
    BY DEF Entry
  <2> HIDE DEF x, E
  <2>. QED
    BY <2>1, <2>2
<1>4. Found(c) = Patch(c)
  <2>1. LastHunk(c) = Patch(c)
    BY HunksAre
  <2>2. ASSUME NEW e \in TakenApart, e.file = c.name PROVE e.patch = Patch(c)
    <3>1. PICK d \in ToSet(Changes) : e = Entry(d.name, LastHunk(d))
      BY TakenApartIs
    <3>2. d = c
      BY <2>2, <3>1, OneName DEF Entry
    <3>. QED
      BY <2>1, <3>1, <3>2 DEF Entry
  <2>3. CASE Patch(c) # {}
    <3>1. Entry(c.name, LastHunk(c)) \in TakenApart /\ Entry(c.name, LastHunk(c)).file = c.name
      BY <2>1, <2>3, TakenApartIs DEF Entry
    <3>2. {x \in TakenApart : x.file = c.name} # {}
      BY <3>1
    <3>. QED
      BY <2>2, <3>2
  <2>4. CASE Patch(c) = {}
    BY <2>2, <2>4
  <2>. QED
    BY <2>3, <2>4
<1>5. ASSUME NEW e \in E, e.file = c.name PROVE e.patch = Patch(c)
  <2>1. PICK d \in Kept : e.file = d.name /\ e.patch = Found(d)
    BY <1>2
  <2>. QED
    BY <1>4, <1>5, <2>1
<1>6. Kept \subseteq ToSet(Changes) /\ \A e \in E : \E d \in Kept : e.file = d.name
  BY <1>2 DEF Kept
<1> HIDE DEF E
<1>7. PatchOf(E, c.name) = IF c \in Kept THEN Patch(c) ELSE {}
  <2>1. AreOf(E, Kept, c, Patch(c))
    BY <1>3, <1>5, <1>6 DEF AreOf
  <2>. QED
    BY <2>1, PatchOne
<1>. QED
  BY <1>1, <1>7

LEMMA BitbucketReads ==
  ASSUME ChangesAssumption, NEW failed, NEW c \in ToSet(Changes), Spared(failed, c),
         c.type # "rename"
  PROVE  PatchOf(ReadBitbucket(failed).entries, c.name)
           = IF c \in Kept THEN Patch(c) ELSE {}
<1> DEFINE u == Unignored
           files == [j \in DOMAIN u |-> Changes[u[j]]]
           E == {Entry(files[i].name, KeptParts[i]) : i \in {j \in DOMAIN files : files[j].valid}}
           chosen == {i \in DOMAIN Changes : ~Changes[i].ignored}
<1>1. /\ u \in Seq(chosen)
      /\ \A k \in chosen : \E j \in 1..Len(u) : u[j] = k
  BY ChangesIndexed, PlacesFound DEF Unignored
<1>2. /\ DOMAIN u = 1..Len(u) /\ Len(u) \in Nat
      /\ \A j \in 1..Len(u) : u[j] \in 1..Len(Changes) /\ ~Changes[u[j]].ignored
  <2>1. \A k \in chosen : k \in 1..Len(Changes) /\ ~Changes[k].ignored
    BY ChangesIndexed
  <2> HIDE DEF chosen, u
  <2>2. DOMAIN u = 1..Len(u) /\ Len(u) \in Nat /\ \A j \in 1..Len(u) : u[j] \in chosen
    BY <1>1
  <2>. QED
    BY <2>1, <2>2
<1> HIDE DEF u
<1>3. /\ DOMAIN files = 1..Len(u) /\ DOMAIN KeptParts = 1..Len(u)
      /\ Len(files) = Len(u) /\ Len(KeptParts) = Len(u)
      /\ \A j \in 1..Len(u) : files[j] = Changes[u[j]] /\ KeptParts[j] = Parts[u[j]]
  BY <1>2 DEF KeptParts, u
<1>4. ReadBitbucket(failed).entries = E
  <2>1. Overall("list") \notin failed /\ ~({Overall("diff"), Overall("again")} \subseteq failed)
    BY SparedCalls
  <2>2. Len(KeptParts) = Len([j \in DOMAIN Unignored |-> Changes[Unignored[j]]])
    BY <1>3 DEF u
  <2>. QED
    BY <2>1, <2>2 DEF ReadBitbucket, Returned, u
<1>5. \A e \in E : \E j \in 1..Len(u) :
        e.file = Changes[u[j]].name /\ e.patch = Parts[u[j]] /\ Changes[u[j]].valid
  <2>1. SUFFICES ASSUME NEW e \in E
                 PROVE  \E j \in 1..Len(u) :
          e.file = Changes[u[j]].name /\ e.patch = Parts[u[j]] /\ Changes[u[j]].valid
    OBVIOUS
  <2> HIDE DEF files
  <2>2. PICK i \in DOMAIN files : files[i].valid /\ e = Entry(files[i].name, KeptParts[i])
    OBVIOUS
  <2>3. i \in 1..Len(u) /\ files[i] = Changes[u[i]] /\ KeptParts[i] = Parts[u[i]]
    BY <1>3
  <2>4. e.file = files[i].name /\ e.patch = KeptParts[i]
    BY <2>2 DEF Entry
  <2>. QED
    BY <2>2, <2>3, <2>4
<1>6. ASSUME c \in Kept PROVE \E e \in E : e.file = c.name
  <2>1. PICK k \in 1..Len(Changes) : Changes[k] = c
    BY ChangesIndexed
  <2>2. k \in chosen
    BY <1>6, <2>1, ChangesIndexed DEF Kept
  <2>3. PICK j \in 1..Len(u) : u[j] = k
    BY <1>1, <2>2
  <2>4. files[j] = c /\ j \in DOMAIN files /\ c.valid
    BY <1>3, <1>6, <2>1, <2>3 DEF Kept
  <2> HIDE DEF files
  <2>5. Entry(files[j].name, KeptParts[j]) \in E
    BY <2>4
  <2>6. Entry(files[j].name, KeptParts[j]).file = c.name
    BY <2>4 DEF Entry
  <2>. QED
    BY <2>5, <2>6
<1> HIDE DEF E, files
<1>7. ASSUME NEW e \in E PROVE \E d \in Kept : e.file = d.name
  BY <1>2, <1>5, ChangesIndexed DEF Kept
<1>8. ASSUME NEW e \in E, e.file = c.name PROVE e.patch = Patch(c)
  <2>1. PICK j \in 1..Len(u) : e.file = Changes[u[j]].name /\ e.patch = Parts[u[j]]
    BY <1>5
  <2>2. u[j] \in DOMAIN Changes /\ Changes[u[j]] = c
    BY <1>2, <1>8, <2>1, ChangesIndexed, OneName
  <2>3. Parts[u[j]] = Patch(c)
    BY <2>2 DEF Parts
  <2>. QED
    BY <2>1, <2>3
<1>9. Kept \subseteq ToSet(Changes)
  BY DEF Kept
<1>10. PatchOf(E, c.name) = IF c \in Kept THEN Patch(c) ELSE {}
  <2>1. AreOf(E, Kept, c, Patch(c))
    BY <1>6, <1>7, <1>8, <1>9 DEF AreOf
  <2>. QED
    BY <2>1, PatchOne
<1>. QED
  BY <1>4, <1>10

ServerOf(after, failed) ==
  after = [n \in 0..Len(Changes) |->
             IF n = 0 THEN [base |-> {}, head |-> {}, entries |-> {}]
             ELSE IF Changes[n] \in Kept THEN NextFile(after[n - 1], Changes[n], failed)
             ELSE after[n - 1]]

LEMMA ServerExists ==
  ASSUME ChangesAssumption, NEW failed
  PROVE  \E after : ServerOf(after, failed)
<1> DEFINE names == {c.name : c \in ToSet(Changes)}
           all == {Entry(t[1], Computed(t[2], t[3])) :
                     t \in names \X (SUBSET names) \X (SUBSET names)}
           S == [base : SUBSET names, head : SUBSET names, entries : SUBSET all]
           zero == [base |-> {}, head |-> {}, entries |-> {}]
           m == Len(Changes)
           Goes(r, n) == IF n \in 1..m /\ Changes[n] \in Kept THEN NextFile(r, Changes[n], failed) ELSE r
           step == [p \in S \X Nat |-> Goes(p[1], p[2])]
<1>1. zero \in S /\ m \in Nat
  BY ChangesIndexed
<1>2. ASSUME NEW r \in S, NEW n \in Nat PROVE Goes(r, n) \in S
  <2>1. CASE ~(n \in 1..m /\ Changes[n] \in Kept)
    BY <2>1
  <2>2. CASE n \in 1..m /\ Changes[n] \in Kept
    <3> DEFINE c == Changes[n]
               base == IF c.type = "rename" THEN r.base ELSE BaseOr(c, failed)
               head == IF c.type = "rename" THEN r.head ELSE HeadOr(c, failed)
    <3>1. c \in ToSet(Changes) /\ c.name \in names
      BY <2>2, ChangesIndexed
    <3>2. r.base \in SUBSET names /\ r.head \in SUBSET names /\ r.entries \in SUBSET all
      OBVIOUS
    <3>3. base \in SUBSET names /\ head \in SUBSET names
      BY <3>1, <3>2 DEF BaseOr, HeadOr, Before, After
    <3>4. NextFile(r, c, failed)
            = [base |-> base, head |-> head, entries |-> r.entries \cup {Entry(c.name, Computed(base, head))}]
      BY DEF NextFile
    <3> HIDE DEF c, base, head
    <3>5. Entry(c.name, Computed(base, head)) \in all
      <4> DEFINE t == <<c.name, base, head>>
      <4>1. t \in names \X (SUBSET names) \X (SUBSET names)
            /\ t[1] = c.name /\ t[2] = base /\ t[3] = head
        BY <3>1, <3>3
      <4> HIDE DEF t
      <4>. QED
        BY <4>1
    <3> HIDE DEF all, names
    <3>. QED
      BY <2>2, <3>2, <3>3, <3>4, <3>5 DEF c
  <2>. QED
    BY <2>1, <2>2
<1> HIDE DEF S, Goes
<1>3. step \in [S \X Nat -> S] /\ \A r \in S, n \in Nat : step[<<r, n>>] = Goes(r, n)
  BY <1>2
<1> HIDE DEF step, zero, m
<1>4. PICK f \in [0..m -> S] : Follows(f, zero, step, m)
  BY <1>1, <1>3, Recursion
<1>5. ASSUME NEW n \in 0..m
      PROVE  f[n] = IF n = 0 THEN [base |-> {}, head |-> {}, entries |-> {}]
                    ELSE IF Changes[n] \in Kept THEN NextFile(f[n - 1], Changes[n], failed)
                    ELSE f[n - 1]
  <2>1. CASE n = 0
    BY <1>4, <2>1 DEF Follows, zero
  <2>2. CASE n # 0
    <3>1. n \in 1..m /\ n \in Nat /\ n - 1 \in 0..m /\ f[n - 1] \in S
      BY <1>1, <2>2
    <3>2. f[n] = Goes(f[n - 1], n)
      BY <1>3, <1>4, <3>1 DEF Follows
    <3>. QED
      BY <2>2, <3>1, <3>2 DEF Goes
  <2>. QED
    BY <2>1, <2>2
<1>6. ServerOf(f, failed)
  BY <1>4, <1>5 DEF ServerOf, m
<1>. QED
  BY <1>6

LEMMA BitbucketServerReads ==
  ASSUME ChangesAssumption, NEW failed, NEW o, ~ReadBitbucketServer(failed, o).raised,
         NEW c \in ToSet(Changes), Spared(failed, c), c.type # "rename"
  PROVE  PatchOf(ReadBitbucketServer(failed, o).entries, c.name)
           = IF c \in Kept THEN Patch(c) ELSE {}
<1> DEFINE after == CHOOSE g : ServerOf(g, failed)
           m == Len(Changes)
<1>1. ServerOf(after, failed)
  BY ServerExists
<1>2. ReadBitbucketServer(failed, o).entries = after[m].entries
  <2>1. ~(o = "lost" \/ failed \cap {Overall("list"), Overall("base")} # {})
    BY DEF ReadBitbucketServer, Raised
  <2>. QED
    BY <2>1 DEF ReadBitbucketServer, Returned, ServerOf
<1>3. m \in Nat /\ \A n \in 1..m : Changes[n] \in ToSet(Changes)
  BY ChangesIndexed
<1> HIDE DEF after, m
<1> DEFINE First(n) == {Changes[k] : k \in 1..n} \cap Kept
           Good(n) ==
             /\ \A e \in after[n].entries : \E d \in First(n) :
                  e.file = d.name /\ (d = c => e.patch = Patch(c))
             /\ c \in First(n) => \E e \in after[n].entries : e.file = c.name
           T == {n \in Nat : n <= m => Good(n)}
<1>4. 0 \in T
  <2>1. after[0].entries = {} /\ First(0) = {}
    BY <1>1, <1>3 DEF ServerOf, m
  <2>. QED
    BY <2>1
<1>5. ASSUME NEW n \in Nat, n \in T PROVE n + 1 \in T
  <2>1. SUFFICES ASSUME n + 1 <= m PROVE Good(n + 1)
    OBVIOUS
  <2> DEFINE d == Changes[n + 1]
  <2>2. Good(n)
    BY <1>3, <1>5, <2>1
  <2>3. First(n + 1) = First(n) \cup ({d} \cap Kept)
    <3>1. \A k : k \in 1..(n + 1) <=> k \in 1..n \/ k = n + 1
      OBVIOUS
    <3>. QED
      BY <3>1
  <2>4. after[n + 1] = IF d \in Kept THEN NextFile(after[n], d, failed) ELSE after[n]
    <3>1. n + 1 \in 0..m /\ n + 1 # 0 /\ (n + 1) - 1 = n
      BY <1>3, <2>1
    <3>. QED
      BY <1>1, <3>1 DEF ServerOf, m
  <2>7. d \in ToSet(Changes)
    BY <1>3, <2>1
  <2> HIDE DEF First, d
  <2>5. CASE d \notin Kept
    <3>1. First(n + 1) = First(n) /\ after[n + 1] = after[n]
      BY <2>3, <2>4, <2>5
    <3>. QED
      BY <2>2, <3>1
  <2>6. CASE d \in Kept
    <3>1. PICK p : after[n + 1].entries = after[n].entries \cup {Entry(d.name, p)}
                   /\ (d = c => p = Patch(c))
      <4> DEFINE base == IF d.type = "rename" THEN after[n].base ELSE BaseOr(d, failed)
                 head == IF d.type = "rename" THEN after[n].head ELSE HeadOr(d, failed)
      <4>1. after[n + 1].entries = after[n].entries \cup {Entry(d.name, Computed(base, head))}
        BY <2>4, <2>6 DEF NextFile
      <4>2. ASSUME d = c PROVE Computed(base, head) = Patch(c)
        BY <4>2, SparedCalls DEF Patch
      <4>. QED
        BY <4>1, <4>2
    <3>2. First(n + 1) = First(n) \cup {d}
      BY <2>3, <2>6
    <3>3. /\ Entry(d.name, p).file = d.name /\ Entry(d.name, p).patch = p
          /\ Entry(d.name, p) \in after[n + 1].entries
      BY <3>1 DEF Entry
    <3>4. ASSUME NEW e \in after[n + 1].entries
          PROVE  \E x \in First(n + 1) : e.file = x.name /\ (x = c => e.patch = Patch(c))
      <4>1. CASE e \in after[n].entries
        BY <2>2, <3>2, <4>1
      <4>2. CASE e = Entry(d.name, p)
        BY <3>1, <3>2, <3>3, <4>2
      <4>. QED
        BY <3>1, <4>1, <4>2
    <3>5. ASSUME c \in First(n + 1) PROVE \E e \in after[n + 1].entries : e.file = c.name
      <4>1. CASE c = d
        BY <3>3, <4>1
      <4>2. CASE c \in First(n)
        BY <2>2, <3>1, <4>2
      <4>. QED
        BY <3>2, <3>5, <4>1, <4>2
    <3>. QED
      BY <3>4, <3>5
  <2>. QED
    BY <2>5, <2>6
<1> HIDE DEF T
<1>6. \A n \in Nat : n \in T
  BY <1>4, <1>5, Numbers
<1>7. Good(m)
  <2>1. m \in T /\ m <= m
    BY <1>3, <1>6
  <2> HIDE DEF Good
  <2>. QED
    BY <2>1 DEF T
<1>8. First(m) = Kept /\ Kept \subseteq ToSet(Changes)
  BY ChangesIndexed DEF Kept, m
<1> HIDE DEF First
<1>9. ASSUME NEW e \in after[m].entries, e.file = c.name PROVE e.patch = Patch(c)
  <2>1. PICK d \in Kept : e.file = d.name /\ (d = c => e.patch = Patch(c))
    BY <1>7, <1>8
  <2>. QED
    BY <1>8, <1>9, <2>1, OneName
<1>10. \A e \in after[m].entries : \E d \in Kept : e.file = d.name
  BY <1>7, <1>8
<1>11. c \in Kept => \E e \in after[m].entries : e.file = c.name
  BY <1>7, <1>8
<1>12. PatchOf(after[m].entries, c.name) = IF c \in Kept THEN Patch(c) ELSE {}
  <2>1. AreOf(after[m].entries, Kept, c, Patch(c))
    BY <1>8, <1>9, <1>10, <1>11 DEF AreOf
  <2>. QED
    BY <2>1, PatchOne
<1>. QED
  BY <1>2, <1>12

LEMMA CodecommitReads ==
  ASSUME ChangesAssumption, NEW failed, ~ReadCodecommit(failed).raised,
         NEW c \in ToSet(Changes), c.type # "delete"
  PROVE  PatchOf(ReadCodecommit(failed).entries, c.name) = IF c.valid THEN Patch(c) ELSE {}
<1> DEFINE first == SelectInSeq(Changes, LAMBDA d : Contents(d) \cap failed # {})
           chosen == {j \in DOMAIN Changes :
                        /\ first = 0 \/ j < first
                        /\ Changes[j].valid /\ Changes[j].type # "delete"}
           E == {Entry(d.name, Patch(d)) : d \in {Changes[i] : i \in chosen}}
           C == {d \in ToSet(Changes) : d.valid /\ d.type # "delete"}
<1>1. first = 0 /\ ReadCodecommit(failed).entries = E
  BY DEF ReadCodecommit, Raised, Returned
<1>2. {Changes[i] : i \in chosen} = C
  <2> HIDE DEF first
  <2>1. ASSUME NEW i \in chosen PROVE Changes[i] \in C
    BY ChangesIndexed
  <2>2. ASSUME NEW d \in C PROVE \E i \in chosen : d = Changes[i]
    <3>1. PICK i \in 1..Len(Changes) : d = Changes[i]
      BY ChangesIndexed
    <3>2. i \in chosen
      BY <1>1, <3>1, ChangesIndexed
    <3>. QED
      BY <3>1, <3>2
  <2> HIDE DEF chosen, C
  <2>. QED
    BY <2>1, <2>2
<1> HIDE DEF first, chosen
<1>3. ASSUME NEW e \in E PROVE \E d \in C : e.file = d.name /\ e.patch = Patch(d)
  <2> HIDE DEF C
  <2>1. PICK d \in C : e = Entry(d.name, Patch(d))
    BY <1>2
  <2>. QED
    BY <2>1 DEF Entry
<1>4. ASSUME c \in C PROVE \E e \in E : e.file = c.name
  <2> DEFINE x == Entry(c.name, Patch(c))
  <2>1. x \in E /\ x.file = c.name
    BY <1>2, <1>4 DEF Entry
  <2> HIDE DEF x, E
  <2>. QED
    BY <2>1
<1>5. \A e \in E : e.file = c.name => e.patch = Patch(c)
  BY <1>3, OneName
<1>6. C \subseteq ToSet(Changes) /\ (c \in C <=> c.valid)
  OBVIOUS
<1>7. \A e \in E : \E d \in C : e.file = d.name
  BY <1>3
<1> HIDE DEF E, C
<1>8. PatchOf(E, c.name) = IF c \in C THEN Patch(c) ELSE {}
  <2>1. AreOf(E, C, c, Patch(c))
    BY <1>4, <1>5, <1>6, <1>7 DEF AreOf
  <2>. QED
    BY <2>1, PatchOne
<1>. QED
  BY <1>1, <1>6, <1>8

LEMMA EverythingReads ==
  ASSUME ChangesAssumption, NEW c \in ToSet(Changes)
  PROVE  PatchOf(Everything.entries, c.name) = Patch(c)
<1> DEFINE E == {Entry(d.name, Patch(d)) : d \in ToSet(Changes)}
<1>1. Everything.entries = E
  BY DEF Everything, Returned
<1>2. \A e \in E : \E d \in ToSet(Changes) : e.file = d.name /\ e.patch = Patch(d)
  BY DEF Entry
<1> DEFINE x == Entry(c.name, Patch(c))
<1>3. x \in E /\ x.file = c.name
  BY DEF Entry
<1>4. \A e \in E : e.file = c.name => e.patch = Patch(c)
  BY <1>2, OneName
<1> HIDE DEF E, x
<1>5. PatchOf(E, c.name) = Patch(c)
  <2>1. Reads(E, c.name, Patch(c))
    BY <1>3, <1>4 DEF Reads
  <2>. QED
    BY <2>1, PatchIs
<1>. QED
  BY <1>1, <1>5

-----------------------------------------------------------------------------
(* What TrueDiff says of the entries that a provider of the service k has,   *)
(* when the calls of its reading that failed are about the files in failed,  *)
(* and models models have failed.                                            *)

MistakenOn(k, models, c) ==
  \/ k = "gitea" /\ Len(c.hunks) > 1
  \/ k \in {"azure", "bitbucket", "bitbucket_server"} /\ c.type = "rename"
  \/ k = "codecommit" /\ (c.type = "delete" \/ models > 0)

ShownOn(k, c) ==
  IF k \in {"gerrit", "local"} \/ (c.valid /\ (~c.ignored \/ k = "codecommit"))
  THEN Patch(c) ELSE {}

\* A call that failed was about c, or about all files.
Concerns(failed, c) == failed \cap {c.name, ""} # {}

AsItIs(k, failed, models, entries) ==
  \A c \in ToSet(Changes) :
    ~Concerns(failed, c) /\ ~MistakenOn(k, models, c)
    => /\ PatchOf(entries, c.name) = ShownOn(k, c)
       /\ k = "gitlab" => \A f \in c.inside : PatchOf(entries, f) # {}

\* A reading that does not raise is true, up to what TrueDiff excepts.
LEMMA ReadingTrue ==
  ASSUME ChangesAssumption, NEW k \in AllServices, NEW failed, NEW o, NEW models,
         ~Reading(k, {}, failed, o).raised
  PROVE  AsItIs(k, {x[2] : x \in failed}, models, Reading(k, {}, failed, o).entries)
<1> DEFINE r == Reading(k, {}, failed, o)
<1>1. SUFFICES ASSUME NEW c \in ToSet(Changes), Spared(failed, c), ~MistakenOn(k, models, c)
               PROVE  /\ PatchOf(r.entries, c.name) = ShownOn(k, c)
                      /\ k = "gitlab" => \A f \in c.inside : PatchOf(r.entries, f) # {}
  <2>1. \A c : ~Concerns({x[2] : x \in failed}, c) <=> Spared(failed, c)
    BY DEF Concerns, Spared
  <2>. QED
    BY <2>1 DEF AsItIs
<1> DEFINE own == IF c \in Kept THEN Patch(c) ELSE {}
<1>2. own = IF c.valid /\ ~c.ignored THEN Patch(c) ELSE {}
  BY DEF Kept
<1>3. CASE k = "gitlab"
  <2>1. r = ReadGitlab(failed)
    BY <1>3 DEF Reading
  <2>2. /\ PatchOf(r.entries, c.name) = own
        /\ \A f \in c.inside : PatchOf(r.entries, f) # {}
    BY <1>1, <2>1, GitlabReads
  <2> HIDE DEF r, own
  <2>. QED
    BY <1>2, <1>3, <2>2 DEF ShownOn
<1>4. CASE k = "gitea"
  <2>1. r = ReadGitea(failed) /\ ~(Len(c.hunks) > 1)
    BY <1>1, <1>4 DEF Reading, MistakenOn
  <2>2. PatchOf(r.entries, c.name) = own
    BY <1>1, <2>1, GiteaReads
  <2> HIDE DEF r, own
  <2>. QED
    BY <1>2, <1>4, <2>2 DEF ShownOn
<1>5. CASE k = "azure"
  <2>1. r = ReadAzure(failed) /\ c.type # "rename"
    BY <1>1, <1>5 DEF Reading, MistakenOn
  <2>2. PatchOf(r.entries, c.name) = own
    BY <1>1, <2>1, AzureReads
  <2> HIDE DEF r, own
  <2>. QED
    BY <1>2, <1>5, <2>2 DEF ShownOn
<1>6. CASE k = "bitbucket"
  <2>1. r = ReadBitbucket(failed) /\ c.type # "rename"
    BY <1>1, <1>6 DEF Reading, MistakenOn
  <2>2. PatchOf(r.entries, c.name) = own
    BY <1>1, <2>1, BitbucketReads
  <2> HIDE DEF r, own
  <2>. QED
    BY <1>2, <1>6, <2>2 DEF ShownOn
<1>7. CASE k = "bitbucket_server"
  <2>1. r = ReadBitbucketServer(failed, o) /\ c.type # "rename"
    BY <1>1, <1>7 DEF Reading, MistakenOn
  <2>2. PatchOf(r.entries, c.name) = own
    BY <1>1, <2>1, BitbucketServerReads
  <2> HIDE DEF r, own
  <2>. QED
    BY <1>2, <1>7, <2>2 DEF ShownOn
<1>8. CASE k = "codecommit"
  <2>1. r = ReadCodecommit(failed) /\ c.type # "delete"
    BY <1>1, <1>8 DEF Reading, MistakenOn
  <2>2. PatchOf(r.entries, c.name) = IF c.valid THEN Patch(c) ELSE {}
    BY <2>1, CodecommitReads
  <2> HIDE DEF r, own
  <2>. QED
    BY <1>8, <2>2 DEF ShownOn
<1>9. CASE k \in {"gerrit", "local"}
  <2>1. r = Everything
    BY <1>9 DEF Reading, ReadGerrit, ReadLocal
  <2>2. PatchOf(r.entries, c.name) = Patch(c)
    BY <2>1, EverythingReads
  <2> HIDE DEF r, own
  <2>. QED
    BY <1>9, <2>2 DEF ShownOn
<1>. QED
  BY <1>3, <1>4, <1>5, <1>6, <1>7, <1>8, <1>9 DEF AllServices

\* What is true stays true when another model is tried, and so is all that
\* CodeCommit's provider has by then.
LEMMA TrueStill ==
  ASSUME NEW k, NEW failed, NEW models \in Nat, NEW entries,
         k = "codecommit" \/ AsItIs(k, failed, models, entries)
  PROVE  AsItIs(k, failed, models + 1, entries)
<1>1. models + 1 > 0
  OBVIOUS
<1>2. \A c : MistakenOn(k, models, c) => MistakenOn(k, models + 1, c)
  BY <1>1 DEF MistakenOn
<1>3. k = "codecommit" => \A c : MistakenOn(k, models + 1, c)
  BY <1>1 DEF MistakenOn
<1>. QED
  BY <1>2, <1>3 DEF AsItIs

-----------------------------------------------------------------------------
(* What the model is shown.                                                  *)

\* The calls that lead to the model.
DiffCalls ==
  {<<Op("progress"), Op("diff"), Op("think")>>, <<Op("temporary"), Op("diff"), Op("think")>>,
   <<Op("diff"), Op("think")>>, <<Op("think")>>}

\* The model is asked after the diff was read.
ThinkInv == \A s \in Sessions : "think" \in Names(todo[s]) => todo[s] \in DiffCalls

Shaped(d) ==
  /\ d = [entries |-> d.entries, kept |-> d.kept, failed |-> d.failed, models |-> d.models]
  /\ d.models \in Nat

\* What the model will be shown, and what is kept for the next one, is true.
DiffInv ==
  /\ diff = [s \in Sessions |-> diff[s]]
  /\ \A s \in Sessions : LET d == diff[s] IN
       /\ Shaped(d)
       /\ Calls(s, "think") => AsItIs(service, d.failed, d.models, d.entries)
       /\ d.kept # {} => AsItIs(service, d.failed, d.models, d.kept)

LEMMA DiffCallsFirst ==
  ASSUME NEW q \in DiffCalls
  PROVE  /\ q # <<>> /\ Head(q)[1] \in {"progress", "temporary", "diff", "think"}
         /\ Head(q)[1] \in {"progress", "temporary"} => Tail(q) = <<Op("diff"), Op("think")>>
         /\ Head(q)[1] = "diff" => Tail(q) = <<Op("think")>>
         /\ Head(q)[1] = "think" => q = <<Op("think")>> /\ Tail(q) = <<>>
<1>1. Head(<<Op("progress"), Op("diff"), Op("think")>>) = Op("progress")
      /\ Tail(<<Op("progress"), Op("diff"), Op("think")>>) = <<Op("diff"), Op("think")>>
  OBVIOUS
<1>2. Head(<<Op("temporary"), Op("diff"), Op("think")>>) = Op("temporary")
      /\ Tail(<<Op("temporary"), Op("diff"), Op("think")>>) = <<Op("diff"), Op("think")>>
  OBVIOUS
<1>3. Head(<<Op("diff"), Op("think")>>) = Op("diff") /\ Tail(<<Op("diff"), Op("think")>>) = <<Op("think")>>
  OBVIOUS
<1>4. Head(<<Op("think")>>) = Op("think") /\ Tail(<<Op("think")>>) = <<>>
  OBVIOUS
<1>5. \A n : Op(n)[1] = n
  BY DEF Op
<1>6. CASE q = <<Op("progress"), Op("diff"), Op("think")>>
  BY <1>1, <1>5, <1>6
<1>7. CASE q = <<Op("temporary"), Op("diff"), Op("think")>>
  BY <1>2, <1>5, <1>7
<1>8. CASE q = <<Op("diff"), Op("think")>>
  BY <1>3, <1>5, <1>8
<1>9. CASE q = <<Op("think")>>
  BY <1>4, <1>5, <1>9
<1>. QED
  BY <1>6, <1>7, <1>8, <1>9 DEF DiffCalls

LEMMA ExceptThinks ==
  ASSUME TypeOK, NEW s \in Sessions
  PROVE  "think" \notin Names(Except(s))
BY ExceptNames

\* The diff is read directly before the model is asked.
LEMMA ThinkCalls ==
  ASSUME TypeOK, ProvidersAssumption, ThinkInv, NEW s \in Sessions, Step(s),
         "think" \in Names(todo'[s])
  PROVE  todo'[s] \in DiffCalls /\ (todo'[s] = <<Op("think")>> => ReadDiff(s))
<1>1. /\ <<Op("diff"), Op("think")>> \in DiffCalls
      /\ <<Op("diff"), Op("think")>> # <<Op("think")>>
  <2>1. Len(<<Op("diff"), Op("think")>>) = 2 /\ Len(<<Op("think")>>) = 1
    OBVIOUS
  <2>. QED
    BY <2>1 DEF DiffCalls
<1>2. todo'[s] # Except(s)
  BY ExceptThinks
<1>3. \/ todo[s] = <<>>
      \/ Names(Tail(todo[s])) \subseteq Names(todo[s]) /\ Later(todo[s]) \subseteq Names(todo[s])
  BY LaterNames, NamesTail DEF TypeOK
<1>4. CASE Start(s)
  <2> DEFINE p == <<Op("progress"), Op("diff"), Op("think")>>
             t == <<Op("temporary"), Op("diff"), Op("think")>>
  <2>1. p \in DiffCalls /\ t \in DiffCalls /\ p # <<Op("think")>> /\ t # <<Op("think")>>
    <3>1. Len(p) = 3 /\ Len(t) = 3 /\ Len(<<Op("think")>>) = 1
      OBVIOUS
    <3>. QED
      BY <3>1 DEF DiffCalls
  <2>2. todo'[s] # <<>>
    BY NamesNil
  <2>3. todo'[s] = p \/ todo'[s] = t \/ todo'[s] = <<>>
    BY <1>4 DEF Start, Then, TypeOK
  <2>. QED
    BY <2>1, <2>2, <2>3
<1>5. CASE Anew(s)
  BY <1>1, <1>5 DEF Anew
<1>6. CASE ReadDiff(s) /\ ~Anew(s)
  <2>1. Head(todo[s])[1] = "diff" /\ todo[s] # <<>> /\ todo'[s] = Tail(todo[s])
    BY <1>2, <1>6, ReadDiffEffect DEF Calls
  <2>2. todo[s] \in DiffCalls
    BY <1>3, <2>1 DEF ThinkInv
  <2>3. todo'[s] = <<Op("think")>>
    BY <2>1, <2>2, DiffCallsFirst
  <2>. QED
    BY <1>6, <2>3 DEF DiffCalls
<1>7. CASE Temporary(s) \/ Progress(s)
  <2>1. todo[s] # <<>> /\ Head(todo[s])[1] \in {"progress", "temporary"}
    BY <1>7 DEF Temporary, Progress, Calls
  <2>2. todo'[s] = Tail(todo[s])
    BY <1>2, <1>7, TemporaryEffect, ProgressEffect DEF Continues
  <2>3. todo[s] \in DiffCalls
    BY <1>3, <2>1, <2>2 DEF ThinkInv
  <2>4. todo'[s] = <<Op("diff"), Op("think")>>
    BY <2>1, <2>2, <2>3, DiffCallsFirst
  <2>. QED
    BY <1>1, <2>4
<1>8. CASE Think(s) /\ ~Anew(s)
  BY <1>2, <1>8, ThinkEffect, CourseNames
<1>9. CASE ~Start(s) /\ ~Anew(s) /\ ~ReadDiff(s) /\ ~Think(s) /\ ~Temporary(s) /\ ~Progress(s)
  <2>1. \A n \in {"progress", "temporary", "diff", "think"} : ~Calls(s, n)
    BY <1>9 DEF Step, EditProgress, Say, SayFailed, Clean, RemoveProgress, List, Edit, Update,
       NewReview, GetLabels, PutLabels, PublishDescription, DescribeCodecommit, Suggest,
       NoteGitlab, UploadGerrit, SuggestGerrit, Calls
  <2>2. todo[s] \notin DiffCalls
    BY <2>1, DiffCallsFirst DEF Calls
  <2>3. "think" \notin Names(todo[s])
    BY <2>2 DEF ThinkInv
  <2>4. "think" \notin Later(todo[s])
    BY <2>3, LaterNames
  <2>5. Names(todo'[s]) \subseteq Later(todo[s]) \cup Recovery
        \/ \E a \in {"answer", "empty"} : todo'[s] = Course(s, a)
    BY <1>9, NextNames
  <2>. QED
    BY <2>4, <2>5, CourseNames DEF Recovery
<1>. QED
  BY <1>4, <1>5, <1>6, <1>7, <1>8, <1>9

LEMMA ThinkStep ==
  ASSUME TypeOK, ProvidersAssumption, ThinkInv, [Next]_vars
  PROVE  ThinkInv'
<1>1. ASSUME NEW s \in Sessions, Step(s) PROVE ThinkInv'
  <2>1. \A t \in Sessions : t # s => todo'[t] = todo[t]
    BY <1>1, FrameHolds DEF Frame, Alone
  <2>2. "think" \in Names(todo'[s]) => todo'[s] \in DiffCalls
    BY <1>1, ThinkCalls
  <2>. QED
    BY <2>1, <2>2 DEF ThinkInv
<1>2. UNCHANGED todo => ThinkInv'
  BY DEF ThinkInv
<1>. QED
  BY <1>1, <1>2, AddLabelEffect, RewriteEffect DEF Next, Quiescent, vars

\* The model is asked next only once the diff was read.
LEMMA ThinkNext ==
  ASSUME TypeOK, ProvidersAssumption, ThinkInv, NEW s \in Sessions, Step(s), Calls(s, "think")'
  PROVE  ReadDiff(s)
<1>1. todo'[s] \in Seq(AllCalls) /\ todo'[s] # <<>> /\ Head(todo'[s])[1] = "think"
  BY FrameHolds DEF Frame, Alone, Calls
<1>2. "think" \in Names(todo'[s])
  BY <1>1, FirstName
<1>3. todo'[s] \in DiffCalls
  BY <1>2, ThinkCalls
<1>4. todo'[s] = <<Op("think")>>
  BY <1>1, <1>3, DiffCallsFirst
<1>. QED
  BY <1>2, <1>4, ThinkCalls

LEMMA DiffKept ==
  ASSUME NEW s \in Sessions, Step(s), ~ReadDiff(s), ~Think(s)
  PROVE  diff' = diff
<1>1. CASE \/ Start(s) \/ Temporary(s) \/ Progress(s) \/ EditProgress(s) \/ Say(s) \/ SayFailed(s)
           \/ Clean(s) \/ RemoveProgress(s)
  BY <1>1 DEF Start, Temporary, Progress, EditProgress, Say, SayFailed, Clean, RemoveProgress
<1>2. CASE \/ List(s) \/ Edit(s) \/ Update(s) \/ NewReview(s) \/ GetLabels(s) \/ PutLabels(s)
  BY <1>2 DEF List, Edit, Update, NewReview, GetLabels, PutLabels
<1>3. CASE \/ PublishDescription(s) \/ DescribeCodecommit(s) \/ Suggest(s) \/ NoteGitlab(s)
           \/ UploadGerrit(s) \/ SuggestGerrit(s)
  BY <1>3 DEF PublishDescription, DescribeCodecommit, Suggest, NoteGitlab, UploadGerrit,
     SuggestGerrit
<1>. QED
  BY <1>1, <1>2, <1>3 DEF Step

\* What s read of the diff is x.
Now(s, x) ==
  /\ diff' = [t \in Sessions |-> diff'[t]]
  /\ \A t \in Sessions : t # s => diff'[t] = diff[t]
  /\ diff'[s] = x

LEMMA NowCases ==
  ASSUME DiffInv, NEW s \in Sessions, NEW x, diff' = [diff EXCEPT ![s] = x]
  PROVE  Now(s, x)
BY DEF DiffInv, Now

LEMMA NextModelDiff ==
  ASSUME DiffInv, NEW s \in Sessions, NEW entries, NEW kept, NEW failed, NEW models \in Nat,
         NextModel(s, [entries |-> entries, kept |-> kept, failed |-> failed, models |-> models])
  PROVE  \/ Now(s, [entries |-> {}, kept |-> kept, failed |-> failed, models |-> models + 1])
         \/ Now(s, Unread)
<1> DEFINE d == [entries |-> entries, kept |-> kept, failed |-> failed, models |-> models]
           e == [entries |-> {}, kept |-> kept, failed |-> failed, models |-> models + 1]
<1>1. [d EXCEPT !.models = @ + 1, !.entries = {}] = e
  <2> DEFINE more == [d EXCEPT !.models = @ + 1]
  <2>1. more = [entries |-> entries, kept |-> kept, failed |-> failed, models |-> models + 1]
    OBVIOUS
  <2>2. [d EXCEPT !.models = @ + 1, !.entries = {}] = [more EXCEPT !.entries = {}]
    OBVIOUS
  <2> HIDE DEF more
  <2>3. [more EXCEPT !.entries = {}] = e
    BY <2>1
  <2> HIDE DEF d, e
  <2>. QED
    BY <2>2, <2>3
<1>2. diff' = [diff EXCEPT ![s] = [d EXCEPT !.models = @ + 1, !.entries = {}]]
      \/ diff' = [diff EXCEPT ![s] = Unread]
  BY DEF NextModel, GiveUp
<1> HIDE DEF d, e
<1>3. diff' = [diff EXCEPT ![s] = e] \/ diff' = [diff EXCEPT ![s] = Unread]
  BY <1>1, <1>2
<1>4. Now(s, e) \/ Now(s, Unread)
  BY <1>3, NowCases
<1>. QED
  BY <1>4 DEF e

\* How a reading ends.  Only CodeCommit's provider keeps anything of one that raised.
LEMMA ReadingEnds ==
  ASSUME NEW k \in AllServices, NEW kept, NEW failed, NEW o
  PROVE  LET r == Reading(k, kept, failed, o) IN
         \/ ~r.raised /\ (r.kept = r.entries \/ r.kept = {})
         \/ r.raised /\ kept = {} /\ (k = "codecommit" \/ r.kept = {})
<1>1. \A x : Raised(x).kept = x /\ Raised(x).raised
  BY DEF Raised
<1>2. \A x : ~Returned(x).raised /\ Returned(x).kept = Returned(x).entries
  BY DEF Returned
<1>3. ~Swallowed.raised /\ Swallowed.kept = {}
  BY DEF Swallowed
<1>4. CASE kept # {}
  BY <1>2, <1>4 DEF Reading
<1> DEFINE r == Reading(k, kept, failed, o)
<1>5. CASE kept = {} /\ k = "gitlab"
  <2>1. r = ReadGitlab(failed)
    BY <1>5 DEF Reading
  <2>2. r = Raised({}) \/ \E x : r = Returned(x)
    BY <2>1 DEF ReadGitlab
  <2>. QED
    BY <1>1, <1>2, <1>5, <2>2
<1>6. CASE kept = {} /\ k = "gitea"
  <2>1. r = ReadGitea(failed)
    BY <1>6 DEF Reading
  <2>2. r = Swallowed \/ \E x : r = Returned(x)
    BY <2>1 DEF ReadGitea
  <2>. QED
    BY <1>2, <1>3, <2>2
<1>7. CASE kept = {} /\ k = "azure"
  <2>1. r = ReadAzure(failed)
    BY <1>7 DEF Reading
  <2>2. r = Swallowed \/ \E x : r = Returned(x)
    BY <2>1 DEF ReadAzure
  <2>. QED
    BY <1>2, <1>3, <2>2
<1>8. CASE kept = {} /\ k = "bitbucket"
  <2>1. r = ReadBitbucket(failed)
    BY <1>8 DEF Reading
  <2>2. r = Raised({}) \/ r = Swallowed \/ \E x : r = Returned(x)
    BY <2>1 DEF ReadBitbucket
  <2>. QED
    BY <1>1, <1>2, <1>3, <1>8, <2>2
<1>9. CASE kept = {} /\ k = "bitbucket_server"
  <2>1. r = ReadBitbucketServer(failed, o)
    BY <1>9 DEF Reading
  <2>2. r = Raised({}) \/ \E x : r = Returned(x)
    BY <2>1 DEF ReadBitbucketServer
  <2>. QED
    BY <1>1, <1>2, <1>9, <2>2
<1>10. CASE kept = {} /\ k = "codecommit"
  <2>1. r = ReadCodecommit(failed)
    BY <1>10 DEF Reading
  <2>2. \E x : r = Raised(x) \/ r = Returned(x)
    BY <2>1 DEF ReadCodecommit
  <2>. QED
    BY <1>1, <1>2, <1>10, <2>2
<1>11. CASE kept = {} /\ k \in {"gerrit", "local"}
  <2>1. r = Everything
    BY <1>11 DEF Reading, ReadGerrit, ReadLocal
  <2>. QED
    BY <1>2, <2>1 DEF Everything
<1>. QED
  BY <1>4, <1>5, <1>6, <1>7, <1>8, <1>9, <1>10, <1>11 DEF AllServices

\* What DiffInv says of one command.
TrueFor(s) ==
  /\ Shaped(diff[s])
  /\ Calls(s, "think") => AsItIs(service, diff[s].failed, diff[s].models, diff[s].entries)
  /\ diff[s].kept # {} => AsItIs(service, diff[s].failed, diff[s].models, diff[s].kept)

LEMMA UnreadTrue ==
  ASSUME NEW s \in Sessions, Now(s, Unread), ~Calls(s, "think")'
  PROVE  TrueFor(s)'
BY DEF Now, Unread, TrueFor, Shaped

\* The next model is shown nothing yet; what is kept stays true.
LEMMA NextModelTrue ==
  ASSUME TypeOK, DiffInv, NEW s \in Sessions, NEW kept, NEW d,
         d = [diff[s] EXCEPT !.kept = kept], NextModel(s, d), service' = service,
         kept # {} => service = "codecommit" \/ AsItIs(service, diff[s].failed, diff[s].models, kept)
  PROVE  TrueFor(s)' /\ \E x : Now(s, x)
<1> DEFINE failed == diff[s].failed
           models == diff[s].models
           e == [entries |-> {}, kept |-> kept, failed |-> failed, models |-> models + 1]
<1>1. Shaped(diff[s]) /\ models \in Nat
  BY DEF DiffInv, Shaped
<1>2. d = [entries |-> diff[s].entries, kept |-> kept, failed |-> failed, models |-> models]
  BY <1>1 DEF Shaped
<1>3. ~Calls(s, "think")'
  <2>1. CASE Anew(s)
    <3>1. Head(<<Op("diff"), Op("think")>>)[1] = "diff"
      BY DEF Op
    <3>. QED
      BY <2>1, <3>1 DEF Anew, Calls
  <2>2. CASE todo'[s] = Except(s)
    <3>1. todo'[s] \in Seq(AllCalls) /\ "think" \notin Names(todo'[s])
      BY <2>2, NextModelEffect, ExceptThinks
    <3>. QED
      BY <3>1, FirstName DEF Calls
  <2>. QED
    BY <2>1, <2>2, NextModelEffect
<1> HIDE DEF failed, models
<1>4. Now(s, e) \/ Now(s, Unread)
  BY <1>1, <1>2, NextModelDiff
<1>5. CASE Now(s, e)
  <2>1. kept # {} => AsItIs(service, failed, models + 1, kept)
    BY <1>1, TrueStill DEF failed, models
  <2>2. diff'[s] = e /\ e.kept = kept /\ e.failed = failed /\ e.models = models + 1 /\ Shaped(e)
    BY <1>1, <1>5 DEF Now, Shaped
  <2> HIDE DEF e
  <2>. QED
    BY <1>3, <1>5, <2>1, <2>2 DEF TrueFor
<1>. QED
  BY <1>3, <1>4, <1>5, UnreadTrue

LEMMA DiffRead ==
  ASSUME TypeOK, ProvidersAssumption, ChangesAssumption, DiffInv,
         NEW s \in Sessions, ReadDiff(s)
  PROVE  TrueFor(s)' /\ \E x : Now(s, x)
<1>1. PICK failed \in IF diff[s].kept = {} THEN ReadFailures(service) ELSE {{}} :
        \E o \in IF failed # {} /\ On({"bitbucket_server"}) THEN {"refused", "lost"} ELSE {"refused"} :
          LET r == Reading(service, diff[s].kept, failed, o) IN
          /\ failures + Cardinality(failed) <= MaxFailures
          /\ failures' = failures + Cardinality(failed)
          /\ IF r.raised
             THEN NextModel(s, [diff[s] EXCEPT !.kept = r.kept])
             ELSE /\ diff' = [diff EXCEPT ![s].entries = r.entries, ![s].kept = r.kept,
                               ![s].failed = IF diff[s].kept = {} THEN {c[2] : c \in failed} ELSE @]
                  /\ Continue(s) /\ UNCHANGED answer
  BY Zenon DEF ReadDiff
<1>2. PICK o : LET r == Reading(service, diff[s].kept, failed, o) IN
        IF r.raised
        THEN NextModel(s, [diff[s] EXCEPT !.kept = r.kept])
        ELSE diff' = [diff EXCEPT ![s].entries = r.entries, ![s].kept = r.kept,
                       ![s].failed = IF diff[s].kept = {} THEN {c[2] : c \in failed} ELSE @]
  BY <1>1, Zenon
<1> DEFINE kept == diff[s].kept
           r == Reading(service, kept, failed, o)
<1>3. service' = service /\ service \in AllServices
  BY DEF ReadDiff, TypeOK
<1>4. CASE r.raised
  <2> DEFINE d == [diff[s] EXCEPT !.kept = r.kept]
  <2>1. NextModel(s, d)
    BY <1>2, <1>4
  <2>2. r.kept # {} => service = "codecommit"
    BY <1>3, <1>4, ReadingEnds
  <2> HIDE DEF r
  <2>4. d = [diff[s] EXCEPT !.kept = r.kept]
    OBVIOUS
  <2> HIDE DEF d
  <2>. QED
    BY <1>3, <2>1, <2>2, <2>4, NextModelTrue
<1>5. CASE ~r.raised
  <2> DEFINE names == IF kept = {} THEN {c[2] : c \in failed} ELSE diff[s].failed
             models == diff[s].models
             e == [entries |-> r.entries, kept |-> r.kept, failed |-> names, models |-> models]
  <2>1. Shaped(diff[s]) /\ diff = [t \in Sessions |-> diff[t]] /\ models \in Nat
    BY DEF DiffInv, Shaped
  <2>2. diff' = [diff EXCEPT ![s].entries = r.entries, ![s].kept = r.kept,
                   ![s].failed = names]
    BY <1>2, <1>5
  <2>3. Now(s, e)
    <3> HIDE DEF r, names
    <3>1. diff'[s] = [diff[s] EXCEPT !.entries = r.entries, !.kept = r.kept, !.failed = names]
      BY <2>1, <2>2
    <3>2. diff'[s] = e
      BY <2>1, <3>1 DEF Shaped
    <3>3. diff' = [t \in Sessions |-> diff'[t]] /\ \A t \in Sessions : t # s => diff'[t] = diff[t]
      BY <2>1, <2>2
    <3>. QED
      BY <3>2, <3>3 DEF Now
  <2>4. AsItIs(service, names, models, r.entries)
    <3>1. CASE kept = {}
      <4>1. AsItIs(service, {c[2] : c \in failed}, models, Reading(service, {}, failed, o).entries)
        <5>1. ~Reading(service, {}, failed, o).raised
          BY <1>5, <3>1
        <5>. QED
          BY <1>3, <5>1, ReadingTrue
      <4>. QED
        BY <3>1, <4>1
    <3>2. CASE kept # {}
      <4>1. r.entries = kept
        BY <3>2 DEF Reading, Returned
      <4>2. AsItIs(service, diff[s].failed, models, kept)
        BY <3>2 DEF DiffInv
      <4> HIDE DEF r, kept
      <4>. QED
        BY <3>2, <4>1, <4>2
    <3>. QED
      BY <3>1, <3>2
  <2>5. r.kept # {} => r.kept = r.entries
    BY <1>3, <1>5, ReadingEnds
  <2>6. /\ diff'[s] = e /\ e.entries = r.entries /\ e.kept = r.kept
        /\ e.failed = names /\ e.models = models /\ Shaped(e)
    BY <2>1, <2>3 DEF Now, Shaped
  <2> HIDE DEF e, r, names, models
  <2>. QED
    BY <1>3, <2>3, <2>4, <2>5, <2>6 DEF TrueFor
<1>. QED
  BY <1>4, <1>5

LEMMA DiffThought ==
  ASSUME TypeOK, ProvidersAssumption, ThinkInv, DiffInv, NEW s \in Sessions, Think(s)
  PROVE  TrueFor(s)' /\ \E x : Now(s, x)
<1>1. service' = service /\ Calls(s, "think")
  BY DEF Think
<1>2. CASE NextModel(s, diff[s])
  <2> DEFINE kept == diff[s].kept
             d == diff[s]
  <2>1. d = [diff[s] EXCEPT !.kept = kept]
    BY DEF DiffInv, Shaped
  <2>2. kept # {} => AsItIs(service, diff[s].failed, diff[s].models, kept)
    BY DEF DiffInv
  <2>3. NextModel(s, d)
    BY <1>2
  <2> HIDE DEF kept, d
  <2>. QED
    BY <1>1, <2>1, <2>2, <2>3, NextModelTrue
<1>3. CASE ~NextModel(s, diff[s])
  <2>1. diff' = [diff EXCEPT ![s] = Unread]
    BY <1>3 DEF Think, GiveUp
  <2>2. ~ReadDiff(s)
    <3>1. ReadDiff(s) => Calls(s, "diff")
      BY DEF ReadDiff
    <3>. QED
      BY <1>1, <3>1 DEF Calls
  <2>3. ~Calls(s, "think")'
    BY <2>2, ThinkNext DEF Step
  <2>. QED
    BY <2>1, <2>3, NowCases, UnreadTrue
<1>. QED
  BY <1>2, <1>3

LEMMA DiffStep ==
  ASSUME TypeOK, ProvidersAssumption, ChangesAssumption, ThinkInv, DiffInv, [Next]_vars
  PROVE  DiffInv'
<1>1. ASSUME NEW s \in Sessions, Step(s) PROVE DiffInv'
  <2>1. service' = service /\ \A t \in Sessions : t # s => todo'[t] = todo[t]
    BY <1>1, FrameHolds DEF Frame, Alone
  <2>2. CASE ReadDiff(s) \/ Think(s)
    <3>1. TrueFor(s)' /\ \E x : Now(s, x)
      BY <2>2, DiffRead, DiffThought
    <3>2. ASSUME NEW t \in Sessions PROVE TrueFor(t)'
      <4>1. CASE t = s
        BY <3>1, <4>1
      <4>2. CASE t # s
        <5>1. diff'[t] = diff[t] /\ todo'[t] = todo[t]
          BY <2>1, <3>1, <4>2 DEF Now
        <5>. QED
          BY <2>1, <5>1 DEF TrueFor, DiffInv, Calls
      <4>. QED
        BY <4>1, <4>2
    <3>3. diff' = [t \in Sessions |-> diff'[t]]
      BY <3>1 DEF Now
    <3>. QED
      BY <3>2, <3>3 DEF DiffInv, TrueFor
  <2>3. CASE ~(ReadDiff(s) \/ Think(s))
    <3>1. diff' = diff
      BY <1>1, <2>3, DiffKept
    <3>2. ~Calls(s, "think")'
      BY <1>1, <2>3, ThinkNext
    <3>3. \A t \in Sessions : Calls(t, "think")' => Calls(t, "think")
      BY <2>1, <3>2 DEF Calls
    <3>. QED
      BY <2>1, <3>1, <3>3 DEF DiffInv
  <2>. QED
    BY <2>2, <2>3
<1>2. UNCHANGED <<service, todo, diff>> => DiffInv'
  BY DEF DiffInv, Calls
<1>3. \A u \in UserLabels : AddLabel(u) => UNCHANGED <<service, todo, diff>>
  BY DEF AddLabel
<1>4. Rewrite => UNCHANGED <<service, todo, diff>>
  BY DEF Rewrite
<1>. QED
  BY <1>1, <1>2, <1>3, <1>4 DEF Next, Quiescent, vars

\* The model is shown every change as it is, unless a call that concerns it failed,
\* and except what the providers get wrong.
THEOREM TrueDiffHolds == Spec => []TrueDiff
<1> DEFINE Inv == TypeOK /\ ThinkInv /\ DiffInv
<1>1. Init => Inv
  <2>1. SUFFICES ASSUME Init PROVE Inv
    OBVIOUS
  <2>2. TypeOK
    BY <2>1, InitTypes, ProvidersAssumption
  <2>3. ASSUME NEW s \in Sessions
        PROVE  "think" \notin Names(todo[s]) /\ ~Calls(s, "think") /\ diff[s] = Unread
    <3>1. todo[s] = <<Op("start")>> /\ Names(<<Op("start")>>) = {"start"} /\ diff[s] = Unread
      BY <2>1, NamesOne DEF Init, Plain
    <3>2. Head(<<Op("start")>>)[1] = "start"
      BY DEF Op
    <3>. QED
      BY <3>1, <3>2 DEF Calls
  <2>4. diff = [s \in Sessions |-> diff[s]]
    BY <2>1 DEF Init
  <2>5. Shaped(Unread) /\ Unread.kept = {}
    BY DEF Shaped, Unread
  <2>. QED
    BY <2>2, <2>3, <2>4, <2>5 DEF ThinkInv, DiffInv
<1>2. Inv /\ [Next]_vars => Inv'
  BY NextTypes, ThinkStep, DiffStep, ProvidersAssumption, ChangesAssumption
<1>3. Inv => TrueDiff
  <2>1. SUFFICES ASSUME Inv, NEW s \in Sessions, NEW c \in ToSet(Changes), Calls(s, "think"),
                        ~Disturbed(s, c), ~Mistaken(s, c)
                 PROVE  /\ PatchOf(diff[s].entries, c.name) =
                             IF \/ On({"gerrit", "local"})
                                \/ c.valid /\ (~c.ignored \/ On({"codecommit"}))
                             THEN Patch(c) ELSE {}
                        /\ On({"gitlab"}) => \A f \in c.inside : PatchOf(diff[s].entries, f) # {}
    BY DEF TrueDiff
  <2>2. AsItIs(service, diff[s].failed, diff[s].models, diff[s].entries)
    BY <2>1 DEF DiffInv
  <2>3. ~Concerns(diff[s].failed, c)
    <3>1. Disturbed(s, c) = Concerns(diff[s].failed, c)
      BY Zenon DEF Disturbed, Concerns
    <3>. QED
      BY <2>1, <3>1
  <2>4. Mistaken(s, c) <=> MistakenOn(service, diff[s].models, c)
    BY DEF Mistaken, MistakenOn, On
  <2>5. /\ PatchOf(diff[s].entries, c.name) = ShownOn(service, c)
        /\ service = "gitlab" => \A f \in c.inside : PatchOf(diff[s].entries, f) # {}
    BY <2>1, <2>2, <2>3, <2>4 DEF AsItIs
  <2>. QED
    BY <2>5 DEF ShownOn, On
<1> HIDE DEF Inv
<1>. QED
  BY <1>1, <1>2, <1>3, PTL DEF Spec
=============================================================================
