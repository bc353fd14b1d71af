------------------------- MODULE ImproveSessionProofs -------------------------
(***************************************************************************)
(* Proofs about ImproveSession, for any number of requests, workers,       *)
(* failures and length of the history.                                     *)
(*                                                                         *)
(* The heart of the invariant is the form of a comment's body: only the    *)
(* oldest section of a history may not name its commit.  It is built into  *)
(* the set Bodies, so that a step preserves it by preserving the types.    *)
(***************************************************************************)
EXTENDS ImproveSession, SequenceTheorems, WellFoundedInduction, TLAPS

Sections == [table : Requests \cup {None}, labelled : BOOLEAN]

WellFormed(b) ==
  /\ b.kind # "suggestions" => ~HasTable(b) /\ ~HasHistory(b)
  /\ HasHistory(b) => b.latest.labelled
  /\ \A i \in 1..(Len(b.older) - 1) : b.older[i].labelled
  /\ MaxHistory >= 2 => Len(b.older) <= MaxHistory

Bodies ==
  {b \in [kind : {"progress", "suggestions", "failed"}, latest : Sections,
          older : Seq(Sections)] : WellFormed(b)}

Comments == [by : Requests, live : BOOLEAN, body : Bodies]

Locals ==
  [progress : Nat, outcome : OutcomeKinds, listed : Seq(Comments),
   next : Nat \ {0}]

Records ==
  [published : Seq(Requests), dropped : SUBSET Requests, lost : SUBSET Requests,
   refused : SUBSET Requests]

States == {"idle", "waiting"} \cup Synchronous \cup Ended

TypeInv ==
  /\ worker \in [Requests -> Workers]
  /\ thread \in Seq(Comments)
  /\ pc \in [Requests -> States]
  /\ local \in [Requests -> Locals]
  /\ failures \in 0..MaxFailures
  /\ record \in Records

\* The task that keeps a worker's loop is one that does not await the model.
LoopInv ==
  /\ loop \in [Workers -> Requests \cup {None}]
  /\ \A r \in Requests : pc[r] \in Synchronous <=> loop[worker[r]] = r

\* What a task knows of the comments is about comments that there are.
BoundInv ==
  \A r \in Requests :
    /\ local[r].progress <= Len(thread)
    /\ Len(local[r].listed) <= Len(thread)
    /\ local[r].next <= Len(local[r].listed) + 1
    /\ pc[r] = "removing" => Candidates(r) # {}

IsProgress(c) == thread[c].live /\ thread[c].body.kind = "progress"

\* A progress comment is the one its task knows of, or its replacement was
\* refused.
ProgressInv ==
  /\ \A r \in Requests : pc[r] = "idle" => local[r].progress = 0
  /\ \A r \in Requests : pc[r] = "removing" =>
       \/ r \in record.refused
       \/ \A c \in 1..Len(thread) : c = local[r].progress => ~IsProgress(c)
  /\ \A c \in 1..Len(thread) : IsProgress(c) =>
       LET r == thread[c].by
       IN  /\ pc[r] \notin Ended => local[r].progress = c
           /\ pc[r] \in Ended \cup {"removing"} => r \in record.refused

IInv == TypeInv /\ LoopInv /\ BoundInv /\ ProgressInv

-----------------------------------------------------------------------------
(***************************************************************************)
(* Operators.                                                              *)
(***************************************************************************)
LEMMA Least ==
  ASSUME NEW T \in SUBSET Nat, T # {}
  PROVE  \E m \in T : \A k \in T : m <= k
<1> DEFINE R == {ss \in Nat \X Nat : ss[1] < ss[2]}
<1>1. IsWellFoundedOn(R, Nat)
  BY NatLessThanWellFounded DEF OpToRel
<1> HIDE DEF R
<1>2. PICK m \in T : \A k \in T : ~(<<k, m>> \in R)
  BY <1>1, WFMin
<1>3. \A k \in T : ~(k < m)
  BY <1>2 DEF R
<1>. QED
  BY <1>2, <1>3

(***************************************************************************)
(* A set of numbers up to n has a greatest one: the distance to n is least.*)
(***************************************************************************)
LEMMA Greatest ==
  ASSUME NEW n \in Nat, NEW T \in SUBSET (1..n), T # {}
  PROVE  \E m \in T : \A k \in T : k <= m
<1> DEFINE D == {d \in Nat : n - d \in T}
<1>1. D \in SUBSET Nat
  OBVIOUS
<1>2. D # {}
  <2>1. PICK k \in T : TRUE
    OBVIOUS
  <2>2. n - k \in Nat /\ n - (n - k) = k
    BY <2>1
  <2>3. n - k \in D
    BY <2>1, <2>2
  <2>. QED
    BY <2>3
<1>3. PICK d \in D : \A e \in D : d <= e
  <2> HIDE DEF D
  <2>. QED
    BY <1>1, <1>2, Least
<1>4. ASSUME NEW k \in T PROVE k <= n - d
  <2>1. k \in 1..n /\ n - k \in Nat /\ n - (n - k) = k
    OBVIOUS
  <2>2. n - k \in D
    BY <2>1
  <2>3. d <= n - k /\ d \in Nat
    BY <1>3, <2>2
  <2>4. k \in Int /\ n \in Int
    BY <2>1
  <2> HIDE DEF D
  <2>. QED
    BY <2>3, <2>4
<1>. QED
  BY <1>3, <1>4

(***************************************************************************)
(* The walk picks one of the comments that are left to look at, which is   *)
(* in the snapshot.                                                        *)
(***************************************************************************)
LEMMA CandidateOK ==
  ASSUME TypeInv, NEW r \in Requests, Candidates(r) # {}
  PROVE  Candidate(r) \in Candidates(r) /\ Candidate(r) \in 1..Len(local[r].listed)
<1>1. local[r] \in Locals
  BY DEF TypeInv
<1>2. local[r].next \in Nat \ {0} /\ Len(local[r].listed) \in Nat
  BY <1>1, LenProperties DEF Locals
<1>3. Candidates(r) \in SUBSET (1..Len(local[r].listed))
  BY <1>2 DEF Candidates
<1>4. \E m \in Candidates(r) : \A k \in Candidates(r) : m <= k
  BY <1>3, Least
<1>5. Candidate(r) \in Candidates(r)
  BY <1>4 DEF Candidate
<1>. QED
  BY <1>3, <1>5

(***************************************************************************)
(* Trimming a full history leaves room for one more section, because the   *)
(* last section that names its commit is the oldest or the one before it.  *)
(***************************************************************************)
LEMMA TrimmedOK ==
  ASSUME NEW h \in Seq(Sections), h # <<>>,
         \A i \in 1..(Len(h) - 1) : h[i].labelled,
         MaxHistory >= 2 => Len(h) <= MaxHistory
  PROVE  /\ Trimmed(h) \in Seq(Sections)
         /\ Len(Trimmed(h)) <= Len(h)
         /\ \A i \in 1..Len(Trimmed(h)) : Trimmed(h)[i] = h[i]
         /\ MaxHistory >= 2 => Len(Trimmed(h)) < MaxHistory
<1> DEFINE named == {i \in DOMAIN h : h[i].labelled}
           last == CHOOSE i \in named : \A j \in named : j <= i
<1>1. Len(h) \in Nat \ {0} /\ DOMAIN h = 1..Len(h)
  BY LenProperties, EmptySeq
<1>2. Trimmed(h) = IF Len(h) < MaxHistory \/ named = {} THEN h
                   ELSE SubSeq(h, 1, last - 1)
  BY DEF Trimmed
<1>3. MaxHistory \in Nat \ {0}
  BY ImproveSessionAssumption
<1>4. CASE Len(h) < MaxHistory
  BY <1>1, <1>2, <1>3, <1>4
<1>5. CASE ~(Len(h) < MaxHistory) /\ named = {}
  <2>1. Trimmed(h) = h
    BY <1>2, <1>5
  <2>2. Len(h) < 2
    <3>1. Len(h) - 1 >= 1 => 1 \in named
      BY <1>1
    <3>. QED
      BY <1>1, <1>5, <3>1
  <2>. QED
    BY <1>1, <1>3, <1>5, <2>1, <2>2
<1>6. CASE ~(Len(h) < MaxHistory) /\ named # {}
  <2>1. named \in SUBSET (1..Len(h))
    BY <1>1
  <2>2. \E m \in named : \A k \in named : k <= m
    <3> HIDE DEF named
    <3>. QED
      BY <1>1, <1>6, <2>1, Greatest
  <2>3. last \in named
    BY <2>2
  <2>4. last \in 1..Len(h)
    BY <2>1, <2>3
  <2>5. Trimmed(h) = SubSeq(h, 1, last - 1)
    BY <1>2, <1>6
  <2> HIDE DEF last, named
  <2>6. \A i \in 1..(last - 1) : h[i] \in Sections
    BY <1>1, <2>4, ElementOfSeq
  <2>7. /\ SubSeq(h, 1, last - 1) \in Seq(Sections)
        /\ Len(SubSeq(h, 1, last - 1)) = IF 1 <= last - 1 THEN last - 1 - 1 + 1 ELSE 0
        /\ \A i \in 1..(last - 1 - 1 + 1) : SubSeq(h, 1, last - 1)[i] = h[1 + i - 1]
    BY <2>4, <2>6, SubSeqProperties
  <2>8. Len(Trimmed(h)) = last - 1
    BY <2>4, <2>5, <2>7
  <2>9. \A i \in 1..Len(Trimmed(h)) : Trimmed(h)[i] = h[i]
    BY <1>1, <2>4, <2>5, <2>7, <2>8
  <2>. QED
    BY <1>1, <1>3, <1>6, <2>4, <2>5, <2>7, <2>8, <2>9
<1>. QED
  BY <1>4, <1>5, <1>6

(***************************************************************************)
(* The values that the actions write are well formed.                      *)
(***************************************************************************)
LEMMA BodiesOK ==
  /\ Progress \in Bodies /\ NoSuggestions \in Bodies /\ Failed \in Bodies
  /\ \A t \in Requests \cup {None}, b \in BOOLEAN :
       Body("suggestions", Section(t, b), <<>>) \in Bodies
<1>1. <<>> \in Seq(Sections) /\ Len(<<>>) = 0
  BY EmptySeq
<1>2. ASSUME NEW k \in {"progress", "suggestions", "failed"}, NEW t \in Requests \cup {None},
             NEW b \in BOOLEAN, k # "suggestions" => t = None
      PROVE  Body(k, Section(t, b), <<>>) \in Bodies
  <2>1. Section(t, b) \in Sections
    BY DEF Section, Sections
  <2>2. MaxHistory \in Nat
    BY ImproveSessionAssumption
  <2>. QED
    BY <1>1, <1>2, <2>1, <2>2
    DEF Bodies, Body, WellFormed, HasTable, HasHistory, Section
<1>3. Progress \in Bodies /\ NoSuggestions \in Bodies /\ Failed \in Bodies
  BY <1>2 DEF Progress, NoSuggestions, Failed, NoSection
<1>. QED
  BY <1>2, <1>3

\* What the form of a body says of its parts.
LEMMA BodyParts ==
  ASSUME NEW b \in Bodies
  PROVE  /\ b.latest \in Sections
         /\ b.older \in Seq(Sections)
         /\ WellFormed(b)
BY DEF Bodies

(***************************************************************************)
(* A comment that is merged into the next has a history of the same form.  *)
(***************************************************************************)
LEMMA OlderOK ==
  ASSUME NEW b \in Bodies, NEW t \in Requests \cup {None}
  PROVE  Body("suggestions", Section(t, TRUE), Older(b)) \in Bodies
<1> DEFINE new == Body("suggestions", Section(t, TRUE), Older(b))
           first == <<b.latest>>
<1>1. b.latest \in Sections /\ b.older \in Seq(Sections) /\ WellFormed(b)
  BY BodyParts
<1>2. /\ first \in Seq(Sections)
      /\ Len(first) = 1
      /\ first[1] = b.latest
  BY <1>1
<1>3. MaxHistory \in Nat \ {0}
  BY ImproveSessionAssumption
<1>4. /\ Older(b) \in Seq(Sections)
      /\ \A i \in 1..(Len(Older(b)) - 1) : Older(b)[i].labelled
      /\ MaxHistory >= 2 => Len(Older(b)) <= MaxHistory
  <2>1. CASE ~HasHistory(b)
    <3>1. Older(b) = first
      BY <2>1 DEF Older
    <3>. QED
      BY <1>2, <1>3, <3>1
  <2>2. CASE HasHistory(b)
    <3> DEFINE rest == Trimmed(b.older)
    <3>1. /\ rest \in Seq(Sections)
          /\ Len(rest) <= Len(b.older)
          /\ \A i \in 1..Len(rest) : rest[i] = b.older[i]
          /\ MaxHistory >= 2 => Len(rest) < MaxHistory
      BY <1>1, <2>2, TrimmedOK DEF WellFormed, HasHistory
    <3>2. Older(b) = first \o rest
      BY <2>2 DEF Older
    <3> HIDE DEF first, rest
    <3>3. /\ Older(b) \in Seq(Sections)
          /\ Len(Older(b)) = 1 + Len(rest)
          /\ \A i \in 1..(1 + Len(rest)) :
               Older(b)[i] = IF i <= 1 THEN first[i] ELSE rest[i - 1]
      BY <1>2, <3>1, <3>2, ConcatProperties
    <3>4. Len(rest) \in Nat /\ Len(b.older) \in Nat
      BY <1>1, <3>1, LenProperties
    <3>5. ASSUME NEW i \in 1..(Len(Older(b)) - 1) PROVE Older(b)[i].labelled
      <4>1. CASE i = 1
        <5>1. Older(b)[i] = b.latest
          BY <1>2, <3>3, <3>4, <4>1
        <5>. QED
          BY <1>1, <2>2, <5>1 DEF WellFormed
      <4>2. CASE i # 1
        <5>1. i - 1 \in 1..Len(rest) /\ i - 1 \in 1..(Len(b.older) - 1)
          BY <3>1, <3>3, <3>4, <4>2
        <5>2. Older(b)[i] = b.older[i - 1]
          BY <3>1, <3>3, <3>4, <4>2, <5>1
        <5>. QED
          BY <1>1, <5>1, <5>2 DEF WellFormed
      <4>. QED
        BY <4>1, <4>2
    <3>. QED
      BY <1>3, <3>1, <3>3, <3>4, <3>5
  <2>. QED
    BY <2>1, <2>2
<1>5. Section(t, TRUE) \in Sections /\ Section(t, TRUE).labelled
  BY DEF Section, Sections
<1>. QED
  BY <1>4, <1>5 DEF Bodies, Body, WellFormed

\* A section's table is a request's, or there is none.
LEMMA TableOK ==
  ASSUME TypeInv, NEW r \in Requests
  PROVE  Table(r) \in Requests \cup {None}
BY DEF Table

-----------------------------------------------------------------------------
(***************************************************************************)
(* What happens to the comments: none goes away, and no progress comment   *)
(* appears where none was.                                                 *)
(***************************************************************************)
ThreadOK ==
  /\ thread' \in Seq(Comments)
  /\ Len(thread') \in Nat
  /\ Len(thread) <= Len(thread')

NoNewProgress ==
  \A c \in 1..Len(thread') : IsProgress(c)' =>
    /\ c \in 1..Len(thread)
    /\ IsProgress(c)
    /\ thread'[c].by = thread[c].by

\* The comment is a progress comment no more.
Stopped(c) == ~(thread'[c].live /\ thread'[c].body.kind = "progress")

\* A comment is added: those before it are as they were.
LEMMA PublishOK ==
  ASSUME thread \in Seq(Comments), NEW r \in Requests, NEW b \in Bodies, Publish(r, b)
  PROVE  /\ ThreadOK
         /\ Len(thread') = Len(thread) + 1
         /\ thread'[Len(thread')] = Comment(r, b)
         /\ \A c \in 1..Len(thread) : thread'[c] = thread[c]
         /\ b.kind # "progress" => NoNewProgress
<1>1. Comment(r, b) \in Comments
  BY DEF Comment, Comments
<1>2. /\ thread' \in Seq(Comments)
      /\ Len(thread') = Len(thread) + 1
      /\ \A c \in 1..Len(thread) : thread'[c] = thread[c]
      /\ thread'[Len(thread) + 1] = Comment(r, b)
  BY <1>1, AppendProperties DEF Publish
<1>3. Len(thread) \in Nat
  BY LenProperties
<1>4. b.kind # "progress" => NoNewProgress
  BY <1>2, <1>3 DEF NoNewProgress, IsProgress, Comment
<1>. QED
  BY <1>2, <1>3, <1>4 DEF ThreadOK

\* A comment is replaced by one of its author's that shows no progress.
LEMMA ReplaceOK ==
  ASSUME thread \in Seq(Comments), NEW c \in 1..Len(thread), NEW new \in Comments,
         new.by = thread[c].by, ~(new.live /\ new.body.kind = "progress"),
         thread' = [thread EXCEPT ![c] = new]
  PROVE  /\ ThreadOK
         /\ NoNewProgress
         /\ Stopped(c)
<1>1. /\ thread' \in Seq(Comments)
      /\ Len(thread') = Len(thread)
      /\ \A d \in 1..Len(thread) : thread'[d] = IF d = c THEN new ELSE thread[d]
  BY ExceptSeq
<1>2. Len(thread) \in Nat
  BY LenProperties
<1>. QED
  BY <1>1, <1>2 DEF ThreadOK, NoNewProgress, IsProgress, Stopped

\* A comment is edited; a deleted one stays as it is.
LEMMA RewriteOK ==
  ASSUME thread \in Seq(Comments), NEW c \in 1..Len(thread), NEW b \in Bodies,
         b.kind # "progress", Rewrite(c, b)
  PROVE  /\ ThreadOK
         /\ NoNewProgress
         /\ Stopped(c)
<1> DEFINE new == [thread[c] EXCEPT !.body = IF thread[c].live THEN b ELSE @]
<1>1. thread[c] \in Comments
  BY ElementOfSeq
<1>2. /\ new \in Comments
      /\ new.by = thread[c].by
      /\ ~(new.live /\ new.body.kind = "progress")
  BY <1>1 DEF Comments
<1>3. thread' = [thread EXCEPT ![c] = new]
  BY DEF Rewrite
<1> HIDE DEF new
<1>. QED
  BY <1>2, <1>3, ReplaceOK

Removed(c) == thread' = [thread EXCEPT ![c].live = FALSE]

\* A comment is deleted.
LEMMA RemoveOK ==
  ASSUME thread \in Seq(Comments), NEW c \in 1..Len(thread), Removed(c)
  PROVE  /\ ThreadOK
         /\ NoNewProgress
         /\ Stopped(c)
<1> DEFINE new == [thread[c] EXCEPT !.live = FALSE]
<1>1. thread[c] \in Comments
  BY ElementOfSeq
<1>2. new \in Comments /\ new.by = thread[c].by /\ ~new.live
  BY <1>1 DEF Comments
<1>3. thread' = [thread EXCEPT ![c] = new]
  BY DEF Removed
<1> HIDE DEF new
<1>. QED
  BY <1>2, <1>3, ReplaceOK

\* No comment is touched.
LEMMA SameThreadOK ==
  ASSUME thread \in Seq(Comments), UNCHANGED thread
  PROVE  ThreadOK /\ NoNewProgress
<1>1. Len(thread) \in Nat
  BY LenProperties
<1>. QED
  BY <1>1 DEF ThreadOK, NoNewProgress, IsProgress

-----------------------------------------------------------------------------
(***************************************************************************)
(* Going on: if a task that holds the loop, or finds it free, goes on with *)
(* well-typed variables, the types and the loops are in order.             *)
(***************************************************************************)
LEMMA GotoStep ==
  ASSUME TypeInv, LoopInv, NEW r \in Requests, NEW state \in States,
         NEW locals \in Locals, GotoWith(r, state, locals), UNCHANGED worker,
         ThreadOK, failures' \in 0..MaxFailures, record' \in Records,
         LoopFree(r) \/ pc[r] \in Synchronous
  PROVE  TypeInv' /\ LoopInv'
<1>1. NoLocals \in Locals
  BY EmptySeq DEF NoLocals, Locals, OutcomeKinds
<1>2. pc' \in [Requests -> States] /\ local' \in [Requests -> Locals]
  BY <1>1 DEF GotoWith, TypeInv
<1>3. TypeInv'
  BY <1>2 DEF TypeInv, ThreadOK
<1>4. worker[r] \in Workers /\ loop[worker[r]] \in {r, None} /\ r # None
  BY ImproveSessionAssumption DEF TypeInv, LoopInv, LoopFree
<1>5. loop' \in [Workers -> Requests \cup {None}]
  BY <1>4 DEF GotoWith, LoopInv
<1>6. ASSUME NEW q \in Requests PROVE (pc[q] \in Synchronous <=> loop[worker[q]] = q)'
  <2>1. CASE q = r
    BY <1>4, <2>1 DEF GotoWith, TypeInv, LoopInv
  <2>2. CASE q # r /\ worker[q] = worker[r]
    <3>1. loop[worker[q]] # q
      BY <1>4, <2>2, ImproveSessionAssumption
    <3>2. loop'[worker[q]] # q
      BY <1>4, <2>2, ImproveSessionAssumption DEF GotoWith, LoopInv
    <3>3. pc'[q] = pc[q] /\ worker' = worker
      BY <2>2 DEF GotoWith, TypeInv
    <3>. QED
      BY <3>1, <3>2, <3>3 DEF LoopInv
  <2>3. CASE q # r /\ worker[q] # worker[r]
    BY <1>4, <2>3 DEF GotoWith, TypeInv, LoopInv
  <2>. QED
    BY <2>1, <2>2, <2>3
<1>. QED
  BY <1>3, <1>5, <1>6 DEF LoopInv

(***************************************************************************)
(* The other tasks know as much as before, and the one that goes on knows  *)
(* what it was given.                                                      *)
(***************************************************************************)
LEMMA BoundStep ==
  ASSUME TypeInv, BoundInv, ThreadOK, NEW r \in Requests, NEW state \in States,
         NEW locals \in Locals, GotoWith(r, state, locals),
         locals.progress <= Len(thread'),
         Len(locals.listed) <= Len(thread'),
         locals.next <= Len(locals.listed) + 1,
         state = "removing" => locals = local[r] /\ Candidates(r) # {}
  PROVE  BoundInv'
<1>1. Len(thread) \in Nat /\ Len(thread') \in Nat /\ Len(thread) <= Len(thread')
  BY LenProperties DEF TypeInv, ThreadOK
<1>2. ASSUME NEW q \in Requests
      PROVE  /\ local[q] \in Locals
             /\ local[q].progress \in Nat
             /\ Len(local[q].listed) \in Nat
  BY LenProperties DEF TypeInv, Locals
<1>3. ASSUME NEW q \in Requests, q # r
      PROVE  pc'[q] = pc[q] /\ local'[q] = local[q]
  BY <1>3 DEF GotoWith, TypeInv
<1>4. /\ pc'[r] = state
      /\ local'[r] = IF state \in Ended THEN NoLocals ELSE locals
  BY DEF GotoWith, TypeInv
<1>5. ASSUME NEW q \in Requests
      PROVE  (/\ local[q].progress <= Len(thread)
              /\ Len(local[q].listed) <= Len(thread)
              /\ local[q].next <= Len(local[q].listed) + 1
              /\ pc[q] = "removing" => Candidates(q) # {})'
  <2>1. CASE q # r
    <3>1. Candidates(q)' = Candidates(q)
      BY <1>3, <2>1 DEF Candidates
    <3>2. /\ local[q].progress <= Len(thread)
          /\ Len(local[q].listed) <= Len(thread)
          /\ local[q].next <= Len(local[q].listed) + 1
          /\ pc[q] = "removing" => Candidates(q) # {}
      BY DEF BoundInv
    <3>3. /\ local'[q].progress <= Len(thread')
          /\ Len(local'[q].listed) <= Len(thread')
          /\ local'[q].next <= Len(local'[q].listed) + 1
      <4>1. local'[q] = local[q]
        BY <1>3, <2>1
      <4>2. local[q].progress \in Nat /\ Len(local[q].listed) \in Nat
        BY <1>2
      <4>3. local[q].progress <= Len(thread') /\ Len(local[q].listed) <= Len(thread')
        BY <1>1, <3>2, <4>2
      <4>. QED
        BY <3>2, <4>1, <4>3
    <3>4. pc'[q] = "removing" => Candidates(q)' # {}
      BY <1>3, <2>1, <3>1, <3>2
    <3>. QED
      BY <3>3, <3>4
  <2>2. CASE q = r /\ state \in Ended
    <3>1. local'[q] = NoLocals /\ pc'[q] # "removing"
      BY <1>4, <2>2 DEF Ended
    <3>. QED
      BY <1>1, <3>1, EmptySeq DEF NoLocals
  <2>3. CASE q = r /\ state \notin Ended
    <3>1. local'[q] = locals /\ pc'[q] = state
      BY <1>4, <2>3
    <3>2. state = "removing" => Candidates(q)' # {}
      BY <2>3, <3>1 DEF Candidates
    <3>. QED
      BY <1>1, <3>1, <3>2
  <2>. QED
    BY <2>1, <2>2, <2>3
<1>. QED
  BY <1>5 DEF BoundInv

(***************************************************************************)
(* A task that ends, or goes on to delete an old comment, has replaced its *)
(* progress comment, or was refused to.                                    *)
(***************************************************************************)
LEMMA ProgressStep ==
  ASSUME TypeInv, ProgressInv, ThreadOK, NoNewProgress,
         NEW r \in Requests, NEW state \in States \ {"idle"},
         NEW locals \in Locals, GotoWith(r, state, locals),
         locals.progress = local[r].progress,
         pc[r] \notin Ended,
         record.refused \subseteq record'.refused,
         state \in Ended \cup {"removing"} =>
           \/ r \in record'.refused
           \/ local[r].progress = 0
           \/ Stopped(local[r].progress)
  PROVE  ProgressInv'
<1>1. ASSUME NEW q \in Requests, q # r
      PROVE  pc'[q] = pc[q] /\ local'[q] = local[q]
  BY <1>1 DEF GotoWith, TypeInv
<1>2. /\ pc'[r] = state
      /\ local'[r] = IF state \in Ended THEN NoLocals ELSE locals
  BY DEF GotoWith, TypeInv
<1>3. \A q \in Requests : pc'[q] = "idle" => local'[q].progress = 0
  BY <1>1, <1>2 DEF ProgressInv
<1>4. ASSUME NEW c \in 1..Len(thread'), IsProgress(c)'
      PROVE  LET q == thread'[c].by
             IN  /\ pc'[q] \notin Ended => local'[q].progress = c
                 /\ pc'[q] \in Ended \cup {"removing"} => q \in record'.refused
  <2> DEFINE q == thread[c].by
  <2>1. /\ c \in 1..Len(thread)
        /\ IsProgress(c)
        /\ thread'[c].by = q
    BY <1>4 DEF NoNewProgress
  <2>2. q \in Requests
    <3>1. thread[c] \in Comments
      BY <2>1, ElementOfSeq DEF TypeInv
    <3>. QED
      BY <3>1 DEF Comments
  <2>3. /\ pc[q] \notin Ended => local[q].progress = c
        /\ pc[q] \in Ended \cup {"removing"} => q \in record.refused
    BY <2>1 DEF ProgressInv
  <2>4. c # 0
    BY <2>1
  <2> HIDE DEF q
  <2>5. CASE q # r
    BY <1>1, <2>1, <2>2, <2>3, <2>5
  <2>6. CASE q = r
    <3>1. local[r].progress = c
      BY <2>3, <2>6
    <3>2. pc'[r] \in Ended \cup {"removing"} => r \in record'.refused
      BY <1>2, <1>4, <2>4, <3>1 DEF IsProgress, Stopped
    <3>3. pc'[r] \notin Ended => local'[r].progress = c
      BY <1>2, <3>1
    <3>. QED
      BY <2>1, <2>6, <3>2, <3>3
  <2>. QED
    BY <2>5, <2>6
<1>5. ASSUME NEW q \in Requests, pc'[q] = "removing", q \notin record'.refused,
             NEW c \in 1..Len(thread'), c = local'[q].progress, IsProgress(c)'
      PROVE  FALSE
  <2>1. c \in 1..Len(thread) /\ IsProgress(c)
    BY <1>5 DEF NoNewProgress
  <2>2. CASE q # r
    <3>1. pc[q] = "removing" /\ q \notin record.refused /\ c = local[q].progress
      BY <1>1, <1>5, <2>2
    <3>. QED
      BY <2>1, <3>1 DEF ProgressInv
  <2>3. CASE q = r
    <3>1. state = "removing" /\ c = local[r].progress /\ c # 0
      BY <1>2, <1>5, <2>1, <2>3 DEF Ended
    <3>2. Stopped(c)
      BY <1>5, <2>3, <3>1
    <3>. QED
      BY <1>5, <3>2 DEF IsProgress, Stopped
  <2>. QED
    BY <2>2, <2>3
<1>. QED
  BY <1>3, <1>4, <1>5 DEF ProgressInv

-----------------------------------------------------------------------------
(***************************************************************************)
(* What every action has in common: a task that is not through goes on     *)
(* with its variables, and the properties' record only grows.              *)
(***************************************************************************)
Locally(r, state, locals) ==
  /\ GotoWith(r, state, locals)
  /\ UNCHANGED worker
  /\ failures' \in 0..MaxFailures
  /\ record' \in Records
  /\ record.refused \subseteq record'.refused

\* A call that fails is one of those that may.
LEMMA CallOK ==
  ASSUME failures \in 0..MaxFailures, Succeed \/ Fail
  PROVE  failures' \in 0..MaxFailures
BY ImproveSessionAssumption DEF Succeed, Fail

\* A refused call is recorded, and no other is forgotten.
LEMMA RefusedOK ==
  ASSUME record \in Records, NEW r \in Requests, Refused(r)
  PROVE  /\ record' \in Records
         /\ record.refused \subseteq record'.refused
         /\ r \in record'.refused
BY DEF Refused, Records

\* A published table is recorded, with those it drops.
LEMMA PublishedOK ==
  ASSUME TypeInv, NEW r \in Requests, NEW dropped \in SUBSET Requests,
         Published(r, dropped)
  PROVE  record' \in Records /\ record'.refused = record.refused
<1>1. record \in Records
  BY DEF TypeInv
<1>2. Append(record.published, r) \in Seq(Requests)
  BY <1>1, AppendProperties DEF Records
<1>. QED
  BY <1>1, <1>2 DEF Published, Records

\* The tables of a history are requests'.
LEMMA TablesOK ==
  ASSUME NEW sections \in Seq(Sections)
  PROVE  TablesOf(sections) \in SUBSET Requests
<1>1. DOMAIN sections = 1..Len(sections)
  BY LenProperties
<1>2. \A i \in DOMAIN sections : sections[i] \in Sections
  BY <1>1, ElementOfSeq
<1>. QED
  BY <1>2 DEF TablesOf, Sections

(***************************************************************************)
(* A step that leaves the progress comment to the task that goes on, which *)
(* neither ends nor is about to.                                           *)
(***************************************************************************)
LEMMA GoesOn ==
  ASSUME IInv, NEW r \in Requests, NEW state \in States \ {"idle"}, NEW locals \in Locals,
         Locally(r, state, locals),
         ThreadOK, NoNewProgress,
         LoopFree(r) \/ pc[r] \in Synchronous, pc[r] \notin Ended,
         locals.progress = local[r].progress,
         Len(locals.listed) <= Len(thread), locals.next <= Len(locals.listed) + 1,
         state = "removing" => locals = local[r] /\ Candidates(r) # {},
         state \in Ended \cup {"removing"} =>
           \/ r \in record'.refused
           \/ local[r].progress = 0
           \/ Stopped(local[r].progress)
  PROVE  IInv'
<1>1. TypeInv' /\ LoopInv'
  BY GotoStep DEF IInv, Locally
<1>2. ProgressInv'
  BY ProgressStep DEF IInv, Locally
<1>3. /\ Len(thread) \in Nat /\ Len(thread') \in Nat /\ Len(thread) <= Len(thread')
      /\ Len(locals.listed) \in Nat /\ locals.progress \in Nat
      /\ local[r].progress <= Len(thread)
  BY LenProperties DEF IInv, TypeInv, BoundInv, ThreadOK, Locals
<1>4. locals.progress <= Len(thread') /\ Len(locals.listed) <= Len(thread')
  BY <1>3
<1>5. BoundInv'
  BY <1>4, BoundStep DEF IInv, Locally
<1>. QED
  BY <1>1, <1>2, <1>5 DEF IInv

\* A task's variables have their types and are within the thread.
LEMMA LocalOK ==
  ASSUME IInv, NEW r \in Requests
  PROVE  /\ local[r] \in Locals
         /\ local[r].progress \in Nat
         /\ local[r].progress <= Len(thread)
         /\ Len(thread) \in Nat
         /\ local[r].progress # 0 => local[r].progress \in 1..Len(thread)
         /\ Len(local[r].listed) <= Len(thread)
         /\ local[r].next <= Len(local[r].listed) + 1
<1>1. local[r] \in Locals /\ Len(thread) \in Nat
  BY LenProperties DEF IInv, TypeInv
<1>. QED
  BY <1>1 DEF IInv, BoundInv, Locals

\* The common case: the task goes on with the variables it has.
LEMMA GoesOnAlike ==
  ASSUME IInv, NEW r \in Requests, NEW state \in States \ {"idle"},
         Goto(r, state), UNCHANGED worker, failures' \in 0..MaxFailures,
         record' \in Records, record.refused \subseteq record'.refused,
         ThreadOK, NoNewProgress,
         LoopFree(r) \/ pc[r] \in Synchronous, pc[r] \notin Ended,
         state = "removing" => Candidates(r) # {},
         state \in Ended \cup {"removing"} =>
           \/ r \in record'.refused
           \/ local[r].progress = 0
           \/ Stopped(local[r].progress)
  PROVE  IInv'
<1>1. Locally(r, state, local[r])
  BY DEF Locally, Goto
<1>. QED
  BY <1>1, LocalOK, GoesOn

\* The invariant holds at first.
LEMMA InitIInv == Init => IInv
<1> SUFFICES ASSUME Init PROVE IInv
  OBVIOUS
<1>1. NoLocals \in Locals
  BY EmptySeq DEF NoLocals, Locals, OutcomeKinds
<1>2. worker \in [Requests -> Workers] /\ thread = <<>>
  BY DEF Init
<1>3. TypeInv
  BY <1>1, EmptySeq, ImproveSessionAssumption DEF Init, TypeInv, States, Records
<1>4. LoopInv
  BY ImproveSessionAssumption DEF Init, LoopInv, Synchronous
<1>5. Len(thread) = 0
  BY <1>2, EmptySeq
<1>6. BoundInv
  BY <1>5, EmptySeq DEF Init, BoundInv, NoLocals
<1>7. ProgressInv
  BY <1>5 DEF Init, ProgressInv, NoLocals
<1>. QED
  BY <1>3, <1>4, <1>6, <1>7 DEF IInv

-----------------------------------------------------------------------------
(***************************************************************************)
(* The steps of a request.                                                 *)
(***************************************************************************)
LEMMA PredictStep ==
  ASSUME IInv, NEW r \in Requests, Predict(r)
  PROVE  IInv'
<1>1. PICK o \in Outcomes : GotoWith(r, After(o), [local[r] EXCEPT !.outcome = o])
  BY DEF Predict
<1> DEFINE locals == [local[r] EXCEPT !.outcome = o]
<1>2. o \in OutcomeKinds
  BY ImproveSessionAssumption
<1>3. local[r] \in Locals
  BY LocalOK
<1>4. /\ locals \in Locals
      /\ locals.progress = local[r].progress
      /\ locals.listed = local[r].listed
      /\ locals.next = local[r].next
  BY <1>2, <1>3 DEF Locals
<1>5. After(o) \in States \ {"idle"} /\ After(o) \notin Ended \cup {"removing"}
  BY DEF After, States, Synchronous, Ended
<1>6. ThreadOK /\ NoNewProgress
  BY SameThreadOK DEF Predict, IInv, TypeInv
<1>7. Locally(r, After(o), locals)
  BY <1>1 DEF Predict, Locally, IInv, TypeInv
<1>8. LoopFree(r) /\ pc[r] \notin Ended
  BY DEF Predict, Ended
<1> HIDE DEF locals
<1>. QED
  BY <1>4, <1>5, <1>6, <1>7, <1>8, LocalOK, GoesOn

\* The model had no suggestions: the comment says so, or is deleted.
LEMMA TellNoneStep ==
  ASSUME IInv, NEW r \in Requests, TellNone(r)
  PROVE  IInv'
<1>1. /\ pc[r] \in Synchronous /\ pc[r] \notin Ended
      /\ UNCHANGED worker
  BY DEF TellNone, Synchronous, Ended
<1>2. thread \in Seq(Comments) /\ failures \in 0..MaxFailures /\ record \in Records
  BY DEF IInv, TypeInv
<1>3. {"done", "failing"} \subseteq States \ {"idle"} /\ "failing" \notin Ended \cup {"removing"}
  BY DEF States, Synchronous, Ended
<1>4. CASE /\ local[r].progress # 0
           /\ Succeed
           /\ Rewrite(local[r].progress, NoSuggestions)
           /\ Goto(r, "done")
           /\ UNCHANGED record
  <2>1. ThreadOK /\ NoNewProgress /\ Stopped(local[r].progress)
    BY <1>2, <1>4, LocalOK, BodiesOK, RewriteOK DEF NoSuggestions, Body
  <2>. QED
    BY <1>1, <1>2, <1>3, <1>4, <2>1, CallOK, GoesOnAlike
<1>5. CASE /\ local[r].progress # 0
           /\ Fail
           /\ Refused(r)
           /\ Goto(r, "done")
           /\ UNCHANGED thread
  <2>1. ThreadOK /\ NoNewProgress
    BY <1>2, <1>5, SameThreadOK
  <2>. QED
    BY <1>1, <1>2, <1>3, <1>5, <2>1, CallOK, RefusedOK, GoesOnAlike
<1>6. CASE /\ local[r].progress = 0
           /\ Succeed
           /\ Publish(r, NoSuggestions)
           /\ Goto(r, "done")
           /\ UNCHANGED record
  <2>1. ThreadOK /\ NoNewProgress
    BY <1>2, <1>6, BodiesOK, PublishOK DEF NoSuggestions, Body
  <2>. QED
    BY <1>1, <1>2, <1>3, <1>6, <2>1, CallOK, GoesOnAlike
<1>7. CASE /\ local[r].progress = 0
           /\ Fail
           /\ Goto(r, "failing")
           /\ UNCHANGED <<thread, record>>
  <2>1. ThreadOK /\ NoNewProgress
    BY <1>2, <1>7, SameThreadOK
  <2>. QED
    BY <1>1, <1>2, <1>3, <1>7, <2>1, CallOK, GoesOnAlike
<1>. QED
  BY <1>4, <1>5, <1>6, <1>7 DEF TellNone

(***************************************************************************)
(* A request begins: the comment it publishes is the one it knows of.      *)
(***************************************************************************)
LEMMA BeginStep ==
  ASSUME IInv, NEW r \in Requests, NEW auto \in Modes, Begin(r, auto)
  PROVE  IInv'
<1>1. /\ pc[r] = "idle" /\ LoopFree(r) /\ pc[r] \notin Ended
      /\ UNCHANGED <<worker, record>>
      /\ local[r].progress = 0
  BY DEF Begin, Ended, IInv, ProgressInv
<1>2. thread \in Seq(Comments) /\ failures \in 0..MaxFailures /\ record \in Records
  BY DEF IInv, TypeInv
<1>3. /\ {"failed", "waiting", "failing"} \subseteq States \ {"idle"}
      /\ "waiting" \notin Ended \cup {"removing"}
      /\ "failing" \notin Ended \cup {"removing"}
      /\ "failed" # "removing"
  BY DEF States, Synchronous, Ended
<1>4. CASE /\ UNCHANGED thread
           /\ \E state \in {"failed", "waiting", "failing"} :
                Goto(r, state) /\ (Succeed \/ Fail)
  <2>1. ThreadOK /\ NoNewProgress
    BY <1>2, <1>4, SameThreadOK
  <2>2. PICK state \in {"failed", "waiting", "failing"} :
          Goto(r, state) /\ (Succeed \/ Fail)
    BY <1>4
  <2>. QED
    BY <1>1, <1>2, <1>3, <2>1, <2>2, CallOK, GoesOnAlike
<1>5. CASE /\ Succeed
           /\ Publish(r, Progress)
           /\ GotoWith(r, "waiting", [local[r] EXCEPT !.progress = Len(thread) + 1])
  <2> DEFINE locals == [local[r] EXCEPT !.progress = Len(thread) + 1]
  <2>1. /\ ThreadOK
        /\ Len(thread') = Len(thread) + 1
        /\ thread'[Len(thread')] = Comment(r, Progress)
        /\ \A c \in 1..Len(thread) : thread'[c] = thread[c]
    BY <1>2, <1>5, BodiesOK, PublishOK
  <2>2. /\ locals \in Locals
        /\ locals.progress = Len(thread')
        /\ locals.listed = local[r].listed
        /\ locals.next = local[r].next
    BY <2>1, LocalOK DEF Locals
  <2>3. /\ locals.progress <= Len(thread')
        /\ Len(locals.listed) <= Len(thread')
        /\ locals.next <= Len(locals.listed) + 1
    <3>1. Len(local[r].listed) \in Nat
      BY LocalOK, LenProperties DEF Locals
    <3>. QED
      BY <2>1, <2>2, <3>1, LocalOK
  <2>4. GotoWith(r, "waiting", locals)
    BY <1>5
  <2> HIDE DEF locals
  <2>5. failures' \in 0..MaxFailures /\ record' \in Records
    BY <1>1, <1>2, <1>5, CallOK
  <2>6. TypeInv' /\ LoopInv'
    BY <1>1, <1>3, <2>1, <2>2, <2>4, <2>5, GotoStep DEF IInv
  <2>7. BoundInv'
    BY <1>3, <2>1, <2>2, <2>3, <2>4, BoundStep DEF IInv
  <2>8. /\ pc' = [pc EXCEPT ![r] = "waiting"]
        /\ local' = [local EXCEPT ![r] = locals]
        /\ record' = record
    BY <1>1, <1>3, <2>4 DEF GotoWith
  <2>9. \A q \in Requests : pc'[q] = "idle" => local'[q].progress = 0
    BY <2>8 DEF IInv, TypeInv, ProgressInv
  <2>10. ASSUME NEW c \in 1..Len(thread'), IsProgress(c)'
         PROVE  LET q == thread'[c].by
                IN  /\ pc'[q] \notin Ended => local'[q].progress = c
                    /\ pc'[q] \in Ended \cup {"removing"} => q \in record'.refused
    <3>1. CASE c \in 1..Len(thread)
      <4>1. thread'[c] = thread[c]
        BY <2>1, <3>1
      <4>2. IsProgress(c)
        BY <2>10, <4>1 DEF IsProgress
      <4>3. thread[c] \in Comments /\ thread[c].by \in Requests
        <5>1. thread[c] \in Comments
          BY <1>2, <3>1, ElementOfSeq
        <5>. QED
          BY <5>1 DEF Comments
      <4>4. /\ pc[thread[c].by] \notin Ended => local[thread[c].by].progress = c
            /\ pc[thread[c].by] \in Ended \cup {"removing"} => thread[c].by \in record.refused
        BY <3>1, <4>2 DEF IInv, ProgressInv
      <4>5. thread[c].by # r
        BY <1>1, <3>1, <4>4
      <4>. QED
        BY <2>8, <4>1, <4>3, <4>4, <4>5 DEF IInv, TypeInv
    <3>2. CASE c = Len(thread')
      <4>1. thread'[c].by = r
        BY <2>1, <3>2 DEF Comment
      <4>2. pc'[r] = "waiting" /\ local'[r].progress = c
        BY <2>2, <2>8, <3>2 DEF IInv, TypeInv
      <4>. QED
        BY <1>3, <4>1, <4>2
    <3>3. Len(thread) \in Nat
      BY LocalOK
    <3>. QED
      BY <2>1, <3>1, <3>2, <3>3
  <2>11. ASSUME NEW q \in Requests, pc'[q] = "removing", q \notin record'.refused,
                NEW c \in 1..Len(thread'), c = local'[q].progress, IsProgress(c)'
         PROVE  FALSE
    <3>1. q # r /\ pc[q] = "removing" /\ q \notin record.refused /\ c = local[q].progress
      BY <2>8, <2>11 DEF IInv, TypeInv
    <3>2. c \in 1..Len(thread)
      BY <2>11, <3>1, LocalOK
    <3>3. IsProgress(c)
      BY <2>1, <2>11, <3>2 DEF IsProgress
    <3>. QED
      BY <3>1, <3>2, <3>3 DEF IInv, ProgressInv
  <2>12. ProgressInv'
    BY <2>9, <2>10, <2>11 DEF ProgressInv
  <2>. QED
    BY <2>6, <2>7, <2>12 DEF IInv
<1>. QED
  BY <1>4, <1>5 DEF Begin

\* The comments are listed: the snapshot is the thread, or nothing.
LEMMA ListStep ==
  ASSUME IInv, NEW r \in Requests, List(r)
  PROVE  IInv'
<1>1. /\ pc[r] \in Synchronous /\ pc[r] \notin Ended
      /\ UNCHANGED <<worker, thread, record>>
  BY DEF List, Synchronous, Ended
<1>2. thread \in Seq(Comments) /\ failures \in 0..MaxFailures /\ record \in Records
  BY DEF IInv, TypeInv
<1>3. /\ {"walking", "appending"} \subseteq States \ {"idle"}
      /\ "walking" \notin Ended \cup {"removing"}
      /\ "appending" \notin Ended \cup {"removing"}
  BY DEF States, Synchronous, Ended
<1>4. ThreadOK /\ NoNewProgress
  BY <1>1, <1>2, SameThreadOK
<1>5. CASE /\ Succeed
           /\ GotoWith(r, "walking", [local[r] EXCEPT !.listed = thread])
  <2> DEFINE locals == [local[r] EXCEPT !.listed = thread]
  <2>1. /\ locals \in Locals
        /\ locals.progress = local[r].progress
        /\ locals.listed = thread
        /\ locals.next = local[r].next
    BY <1>2, LocalOK DEF Locals
  <2>2. Len(locals.listed) <= Len(thread) /\ locals.next <= Len(locals.listed) + 1
    <3>1. Len(local[r].listed) \in Nat /\ local[r].next \in Nat
      BY LocalOK, LenProperties DEF Locals
    <3>. QED
      BY <2>1, <3>1, LocalOK
  <2>3. Locally(r, "walking", locals)
    BY <1>1, <1>2, <1>5, CallOK DEF Locally
  <2> HIDE DEF locals
  <2>. QED
    BY <1>1, <1>3, <1>4, <2>1, <2>2, <2>3, GoesOn
<1>6. CASE Fail /\ Goto(r, "appending")
  BY <1>1, <1>2, <1>3, <1>4, <1>6, CallOK, GoesOnAlike
<1>. QED
  BY <1>5, <1>6 DEF List

(***************************************************************************)
(* What the walk finds is well formed, and a comment that there is.        *)
(***************************************************************************)
LEMMA FoundOK ==
  ASSUME IInv, NEW r \in Requests, Candidates(r) # {}
  PROVE  /\ Candidate(r) \in 1..Len(local[r].listed)
         /\ Candidate(r) \in 1..Len(thread)
         /\ Found(r) \in Bodies
<1>1. Candidate(r) \in 1..Len(local[r].listed)
  BY CandidateOK DEF IInv
<1>2. local[r].listed \in Seq(Comments) /\ Len(local[r].listed) \in Nat
  BY LocalOK, LenProperties DEF Locals
<1>3. local[r].listed[Candidate(r)] \in Comments
  BY <1>1, <1>2, ElementOfSeq
<1>4. Found(r) \in Bodies
  BY <1>3 DEF Found, Comments
<1>5. Candidate(r) \in 1..Len(thread)
  BY <1>1, <1>2, LocalOK
<1>. QED
  BY <1>1, <1>4, <1>5

\* A comment without suggestions is filled.
LEMMA RefillStep ==
  ASSUME IInv, NEW r \in Requests, Refill(r)
  PROVE  IInv'
<1> DEFINE locals == [local[r] EXCEPT !.next = Candidate(r) + 1]
           new == Body("suggestions", Section(Table(r), FALSE), <<>>)
<1>1. /\ pc[r] \in Synchronous /\ pc[r] \notin Ended
      /\ UNCHANGED worker
      /\ Candidates(r) # {}
      /\ GotoWith(r, "walking", locals)
  BY DEF Refill, Synchronous, Ended
<1>2. /\ thread \in Seq(Comments) /\ failures \in 0..MaxFailures /\ record \in Records
      /\ TypeInv
  BY DEF IInv, TypeInv
<1>3. "walking" \in States \ {"idle"} /\ "walking" \notin Ended \cup {"removing"}
  BY DEF States, Synchronous, Ended
<1>4. Candidate(r) \in 1..Len(local[r].listed) /\ Candidate(r) \in 1..Len(thread)
  BY <1>1, FoundOK
<1>5. /\ locals \in Locals
      /\ locals.progress = local[r].progress
      /\ locals.listed = local[r].listed
      /\ locals.next = Candidate(r) + 1
  BY <1>4, LocalOK DEF Locals
<1>6. Len(locals.listed) <= Len(thread) /\ locals.next <= Len(locals.listed) + 1
  <2>1. Len(local[r].listed) \in Nat
    BY LocalOK, LenProperties DEF Locals
  <2>. QED
    BY <1>4, <1>5, <2>1, LocalOK
<1>7. /\ failures' \in 0..MaxFailures
      /\ ThreadOK /\ NoNewProgress
      /\ record' \in Records /\ record.refused \subseteq record'.refused
  <2>1. CASE /\ Succeed
             /\ Rewrite(Candidate(r), new)
             /\ Published(r, {})
    <3>1. new \in Bodies /\ new.kind # "progress"
      BY <1>2, TableOK, BodiesOK DEF Body
    <3> HIDE DEF new
    <3>2. ThreadOK /\ NoNewProgress
      BY <1>2, <1>4, <2>1, <3>1, RewriteOK
    <3>3. {} \in SUBSET Requests
      OBVIOUS
    <3>. QED
      BY <1>2, <2>1, <3>2, <3>3, PublishedOK, CallOK
  <2>2. CASE (Succeed \/ Fail) /\ UNCHANGED <<thread, record>>
    BY <1>2, <2>2, SameThreadOK, CallOK
  <2>. QED
    BY <2>1, <2>2 DEF Refill
<1> HIDE DEF locals
<1>8. Locally(r, "walking", locals)
  BY <1>1, <1>7 DEF Locally
<1>. QED
  BY <1>1, <1>3, <1>5, <1>6, <1>7, <1>8, GoesOn

\* An earlier comment's history is merged.
LEMMA MergeStep ==
  ASSUME IInv, NEW r \in Requests, Merge(r)
  PROVE  IInv'
<1> DEFINE new == Body("suggestions", Section(Table(r), TRUE), Older(Found(r)))
           target == IF local[r].progress = 0 THEN Candidate(r) ELSE local[r].progress
           state == IF local[r].progress = 0 THEN "done" ELSE "removing"
           dropped == TablesOf(Found(r).older) \ TablesOf(Trimmed(Found(r).older))
<1>1. /\ pc[r] \in Synchronous /\ pc[r] \notin Ended
      /\ UNCHANGED worker
      /\ Candidates(r) # {}
      /\ Goto(r, state)
  BY DEF Merge, Synchronous, Ended
<1>2. /\ thread \in Seq(Comments) /\ failures \in 0..MaxFailures /\ record \in Records
      /\ TypeInv
  BY DEF IInv, TypeInv
<1>3. state \in States \ {"idle"}
  BY DEF States, Synchronous, Ended
<1>4. Found(r) \in Bodies /\ target \in 1..Len(thread)
  BY <1>1, FoundOK, LocalOK
<1>5. CASE /\ Succeed
           /\ Rewrite(target, new)
           /\ Published(r, dropped)
  <2>1. new \in Bodies /\ new.kind # "progress"
    BY <1>2, <1>4, TableOK, OlderOK DEF Body
  <2>2. dropped \in SUBSET Requests
    BY <1>4, BodyParts, TablesOK
  <2> HIDE DEF new, dropped
  <2>3. ThreadOK /\ NoNewProgress /\ Stopped(target)
    <3> HIDE DEF target
    <3>. QED
      BY <1>2, <1>4, <1>5, <2>1, RewriteOK
  <2>4. local[r].progress = 0 \/ Stopped(local[r].progress)
    BY <2>3
  <2>5. record' \in Records /\ record'.refused = record.refused
    BY <1>2, <1>5, <2>2, PublishedOK
  <2>6. failures' \in 0..MaxFailures
    BY <1>2, <1>5, CallOK
  <2> HIDE DEF target, state
  <2>. QED
    BY <1>1, <1>3, <2>3, <2>4, <2>5, <2>6, GoesOnAlike
<1>6. CASE Fail /\ Refused(r) /\ UNCHANGED thread
  <2>1. ThreadOK /\ NoNewProgress
    BY <1>2, <1>6, SameThreadOK
  <2> HIDE DEF state
  <2>. QED
    BY <1>1, <1>2, <1>3, <1>6, <2>1, CallOK, RefusedOK, GoesOnAlike
<1>. QED
  BY <1>5, <1>6 DEF Merge

\* The comment that was merged is deleted.
LEMMA RemoveOldStep ==
  ASSUME IInv, NEW r \in Requests, RemoveOld(r)
  PROVE  IInv'
<1>1. /\ pc[r] = "removing"
      /\ pc[r] \in Synchronous /\ pc[r] \notin Ended
      /\ UNCHANGED worker
      /\ Goto(r, "done")
  BY DEF RemoveOld, Synchronous, Ended
<1>2. thread \in Seq(Comments) /\ failures \in 0..MaxFailures /\ record \in Records
  BY DEF IInv, TypeInv
<1>3. "done" \in States \ {"idle"} /\ "done" # "removing"
  BY DEF States, Synchronous, Ended
<1>4. Candidates(r) # {}
  BY <1>1 DEF IInv, BoundInv
<1>5. Candidate(r) \in 1..Len(thread) /\ Found(r) \in Bodies
  BY <1>4, FoundOK
<1>6. /\ failures' \in 0..MaxFailures
      /\ ThreadOK /\ NoNewProgress
      /\ record' \in Records /\ record'.refused = record.refused
  <2>1. CASE /\ Succeed
             /\ Removed(Candidate(r))
             /\ record' = [record EXCEPT !.lost =
                  IF r \in record.refused THEN @ \cup Tables(Found(r)) ELSE @]
    <3>1. Tables(Found(r)) \in SUBSET Requests
      <4>1. Found(r).latest \in Sections /\ Found(r).older \in Seq(Sections)
        BY <1>5, BodyParts
      <4>2. <<Found(r).latest>> \in Seq(Sections)
        BY <4>1
      <4>3. <<Found(r).latest>> \o Found(r).older \in Seq(Sections)
        BY <4>1, <4>2, ConcatProperties
      <4>. QED
        BY <4>3, TablesOK DEF Tables
    <3>2. ThreadOK /\ NoNewProgress
      BY <1>2, <1>5, <2>1, RemoveOK
    <3>3. record' \in Records /\ record'.refused = record.refused
      BY <1>2, <2>1, <3>1 DEF Records
    <3>. QED
      BY <1>2, <2>1, <3>2, <3>3, CallOK
  <2>2. CASE Fail /\ UNCHANGED <<thread, record>>
    BY <1>2, <2>2, SameThreadOK, CallOK
  <2>. QED
    BY <2>1, <2>2 DEF RemoveOld, Removed
<1>7. r \in record.refused \/ local[r].progress = 0 \/ Stopped(local[r].progress)
  <2> SUFFICES ASSUME NEW p \in 1..Len(thread), p = local[r].progress,
                      r \notin record.refused
               PROVE  Stopped(p)
    BY LocalOK
  <2>1. ~IsProgress(p)
    BY <1>1 DEF IInv, ProgressInv
  <2>2. p \in 1..Len(thread')
    BY <1>6, LocalOK DEF ThreadOK
  <2>. QED
    BY <1>6, <2>1, <2>2 DEF NoNewProgress, IsProgress, Stopped
<1>. QED
  BY <1>1, <1>3, <1>6, <1>7, GoesOnAlike

\* No earlier comment was found: a first table is published.
LEMMA PublishNewStep ==
  ASSUME IInv, NEW r \in Requests, PublishNew(r)
  PROVE  IInv'
<1> DEFINE new == Body("suggestions", Section(Table(r), TRUE), <<>>)
<1>1. /\ pc[r] \in Synchronous /\ pc[r] \notin Ended
      /\ UNCHANGED worker
  BY DEF PublishNew, Synchronous, Ended
<1>2. /\ thread \in Seq(Comments) /\ failures \in 0..MaxFailures /\ record \in Records
      /\ TypeInv
  BY DEF IInv, TypeInv
<1>3. {"done", "failing"} \subseteq States \ {"idle"} /\ "failing" \notin Ended \cup {"removing"}
      /\ "done" # "removing"
  BY DEF States, Synchronous, Ended
<1>4. new \in Bodies /\ new.kind # "progress"
  BY <1>2, TableOK, BodiesOK DEF Body
<1>5. {} \in SUBSET Requests
  OBVIOUS
<1>6. CASE /\ local[r].progress # 0
           /\ Succeed
           /\ Rewrite(local[r].progress, new)
           /\ Published(r, {})
           /\ Goto(r, "done")
  <2> HIDE DEF new
  <2>1. ThreadOK /\ NoNewProgress /\ Stopped(local[r].progress)
    BY <1>2, <1>4, <1>6, LocalOK, RewriteOK
  <2>2. record' \in Records /\ record'.refused = record.refused
    BY <1>2, <1>5, <1>6, PublishedOK
  <2>. QED
    BY <1>1, <1>2, <1>3, <1>6, <2>1, <2>2, CallOK, GoesOnAlike
<1>7. CASE /\ local[r].progress # 0
           /\ Fail
           /\ Refused(r)
           /\ Goto(r, "done")
           /\ UNCHANGED thread
  <2>1. ThreadOK /\ NoNewProgress
    BY <1>2, <1>7, SameThreadOK
  <2>. QED
    BY <1>1, <1>2, <1>3, <1>7, <2>1, CallOK, RefusedOK, GoesOnAlike
<1>8. CASE /\ local[r].progress = 0
           /\ Succeed
           /\ Publish(r, new)
           /\ Published(r, {})
           /\ Goto(r, "done")
  <2> HIDE DEF new
  <2>1. ThreadOK /\ NoNewProgress
    BY <1>2, <1>4, <1>8, PublishOK
  <2>2. record' \in Records /\ record'.refused = record.refused
    BY <1>2, <1>5, <1>8, PublishedOK
  <2>. QED
    BY <1>1, <1>2, <1>3, <1>8, <2>1, <2>2, CallOK, GoesOnAlike
<1>9. CASE /\ local[r].progress = 0
           /\ Fail
           /\ Goto(r, "failing")
           /\ UNCHANGED <<thread, record>>
  <2>1. ThreadOK /\ NoNewProgress
    BY <1>2, <1>9, SameThreadOK
  <2>. QED
    BY <1>1, <1>2, <1>3, <1>9, <2>1, CallOK, GoesOnAlike
<1>. QED
  BY <1>6, <1>7, <1>8, <1>9 DEF PublishNew

\* The handler of exceptions.
LEMMA RecoverStep ==
  ASSUME IInv, NEW r \in Requests, Recover(r)
  PROVE  IInv'
<1>1. /\ pc[r] \in Synchronous /\ pc[r] \notin Ended
      /\ UNCHANGED worker
      /\ Goto(r, "failed")
  BY DEF Recover, Synchronous, Ended
<1>2. thread \in Seq(Comments) /\ failures \in 0..MaxFailures /\ record \in Records
  BY DEF IInv, TypeInv
<1>3. "failed" \in States \ {"idle"} /\ "failed" # "removing"
  BY DEF States, Synchronous, Ended
<1>4. CASE /\ local[r].progress # 0
           /\ Succeed
           /\ Removed(local[r].progress)
           /\ UNCHANGED record
  <2>1. ThreadOK /\ NoNewProgress /\ Stopped(local[r].progress)
    BY <1>2, <1>4, LocalOK, RemoveOK
  <2>. QED
    BY <1>1, <1>2, <1>3, <1>4, <2>1, CallOK, GoesOnAlike
<1>5. CASE /\ local[r].progress # 0
           /\ Fail
           /\ Refused(r)
           /\ UNCHANGED thread
  <2>1. ThreadOK /\ NoNewProgress
    BY <1>2, <1>5, SameThreadOK
  <2>. QED
    BY <1>1, <1>2, <1>3, <1>5, <2>1, CallOK, RefusedOK, GoesOnAlike
<1>6. CASE /\ local[r].progress = 0
           /\ Succeed
           /\ Publish(r, Failed)
           /\ UNCHANGED record
  <2>1. ThreadOK /\ NoNewProgress
    BY <1>2, <1>6, BodiesOK, PublishOK DEF Failed, Body
  <2>. QED
    BY <1>1, <1>2, <1>3, <1>6, <2>1, CallOK, GoesOnAlike
<1>7. CASE /\ local[r].progress = 0
           /\ Fail
           /\ UNCHANGED <<thread, record>>
  <2>1. ThreadOK /\ NoNewProgress
    BY <1>2, <1>7, SameThreadOK
  <2>. QED
    BY <1>1, <1>2, <1>3, <1>7, <2>1, CallOK, GoesOnAlike
<1>. QED
  BY <1>4, <1>5, <1>6, <1>7 DEF Recover, Removed

\* A step that changes nothing keeps the invariant.
LEMMA StutterStep ==
  ASSUME IInv, UNCHANGED vars
  PROVE  IInv'
<1>1. \A r \in Requests : Candidates(r)' = Candidates(r)
  BY DEF vars, Candidates
<1>2. TypeInv' /\ LoopInv'
  BY DEF vars, IInv, TypeInv, LoopInv
<1>3. BoundInv'
  BY <1>1 DEF vars, IInv, BoundInv
<1>4. ProgressInv'
  BY DEF vars, IInv, ProgressInv, IsProgress
<1>. QED
  BY <1>2, <1>3, <1>4 DEF IInv

\* Every step keeps the invariant.
LEMMA IInvStep == IInv /\ [Next]_vars => IInv'
<1> SUFFICES ASSUME IInv, [Next]_vars PROVE IInv'
  OBVIOUS
<1>1. ASSUME NEW r \in Requests, RequestStep(r) PROVE IInv'
  BY <1>1, BeginStep, PredictStep, TellNoneStep, ListStep, RefillStep, MergeStep,
     RemoveOldStep, PublishNewStep, RecoverStep DEF RequestStep
<1>. QED
  BY <1>1, StutterStep DEF Next, Quiescent

\* The inductive invariant holds at every step.
LEMMA IInvAlways == Spec => []IInv
BY InitIInv, IInvStep, PTL DEF Spec

-----------------------------------------------------------------------------
(***************************************************************************)
(* The theorems.                                                           *)
(***************************************************************************)

\* The type invariant: in particular a task awaits nothing but the model, and
\* whoever does not await holds its worker's event loop.
THEOREM TypeCorrect == Spec => []TypeOK
<1>1. IInv => TypeOK
  <2> SUFFICES ASSUME IInv PROVE TypeOK
    OBVIOUS
  <2>1. TypeInv /\ LoopInv /\ BoundInv /\ Len(thread) \in Nat /\ DOMAIN thread = 1..Len(thread)
    BY LenProperties DEF IInv, TypeInv
  <2>2. ASSUME NEW c \in DOMAIN thread
        PROVE  thread[c].by \in Requests /\ BodyOK(thread[c].body)
    <3>1. thread[c] \in Comments
      BY <2>1, ElementOfSeq DEF TypeInv
    <3>2. thread[c].body \in Bodies /\ thread[c].by \in Requests
      BY <3>1 DEF Comments
    <3>3. ASSUME NEW b \in Bodies PROVE BodyOK(b)
      <4>1. /\ b.kind \in {"progress", "suggestions", "failed"}
            /\ b.latest \in Sections /\ b.older \in Seq(Sections)
            /\ WellFormed(b)
        BY DEF Bodies
      <4>2. DOMAIN b.older = 1..Len(b.older)
        BY <4>1, LenProperties
      <4>3. \A i \in DOMAIN b.older : b.older[i] \in Sections
        BY <4>1, <4>2, ElementOfSeq
      <4>4. \A s \in Sections : SectionOK(s)
        BY DEF Sections, SectionOK
      <4>. QED
        BY <4>1, <4>3, <4>4 DEF BodyOK, WellFormed
    <3>. QED
      BY <3>2, <3>3
  <2>3. ASSUME NEW r \in Requests
        PROVE  /\ local[r].progress \in 0..Len(thread)
               /\ Len(local[r].listed) <= Len(thread)
               /\ local[r].next \in 1..(Len(local[r].listed) + 1)
    <3>1. local[r].listed \in Seq(Comments) /\ local[r].next \in Nat \ {0}
      BY LocalOK DEF Locals
    <3>2. Len(local[r].listed) \in Nat
      BY <3>1, LenProperties
    <3>. QED
      BY <3>1, <3>2, LocalOK
  <2>. QED
    BY <2>1, <2>2, <2>3 DEF TypeOK, TypeInv, LoopInv, States
<1>. QED
  BY <1>1, IInvAlways, PTL

\* However requests interleave and calls fail, a history of suggestions never
\* exceeds its limit of two or more (pr_code_suggestions.py:313-319).
THEOREM HistoryBounded == Spec => []HistoryBound
<1>1. IInv => HistoryBound
  <2> SUFFICES ASSUME IInv, MaxHistory >= 2, NEW c \in Suggestions
               PROVE  Len(thread[c].body.older) <= MaxHistory
    BY DEF HistoryBound
  <2>1. thread \in Seq(Comments) /\ c \in DOMAIN thread
    BY DEF IInv, TypeInv, Suggestions
  <2>2. thread[c] \in Comments
    BY <2>1, LenProperties, ElementOfSeq
  <2>3. WellFormed(thread[c].body)
    BY <2>2, BodyParts DEF Comments
  <2>. QED
    BY <2>3 DEF WellFormed
<1>. QED
  BY <1>1, IInvAlways, PTL

\* "Work in progress ..." is gone when its request ends, however it ends, but
\* for a refused call (pr_code_suggestions.py:93-195).
THEOREM ProgressRemoved == Spec => []ProgressEnds
<1>1. IInv => ProgressEnds
  <2> SUFFICES ASSUME IInv, NEW c \in DOMAIN thread, IsProgress(c), pc[thread[c].by] \in Ended
               PROVE  thread[c].by \in record.refused
    BY DEF ProgressEnds, IsProgress
  <2>1. c \in 1..Len(thread)
    BY LenProperties DEF IInv, TypeInv
  <2>. QED
    BY <2>1 DEF IInv, ProgressInv
<1>. QED
  BY <1>1, IInvAlways, PTL

-----------------------------------------------------------------------------
(***************************************************************************)
(* Newest first, for any number of workers: the tables of a body are in    *)
(* the reverse order of their first publication, and what a task merges    *)
(* was published before its own table.                                     *)
(***************************************************************************)
Seen(p) == {p[i] : i \in DOMAIN p}
Distinct(p) == \A i, j \in DOMAIN p : p[i] = p[j] => i = j
Newer(p, t, u) == \E i, j \in DOMAIN p : j < i /\ p[i] = t /\ p[j] = u

InOrder(p, b) ==
  /\ Tables(b) \subseteq Seen(p)
  /\ \A i \in 1..Len(b.older) :
       b.latest.table # None /\ b.older[i].table # None =>
         Newer(p, b.latest.table, b.older[i].table)
  /\ \A i, j \in 1..Len(b.older) :
       i < j /\ b.older[i].table # None /\ b.older[j].table # None =>
         Newer(p, b.older[i].table, b.older[j].table)

\* The states in which a task has not published its table.
Unpublished == {"idle", "waiting", "telling", "publishing", "appending"}

OrderInv ==
  /\ Distinct(record.published)
  /\ \A c \in 1..Len(thread) : InOrder(record.published, thread[c].body)
  /\ \A r \in Requests :
       /\ pc[r] \in Unpublished => r \notin Seen(record.published)
       /\ \A c \in 1..Len(local[r].listed) :
            /\ InOrder(record.published, local[r].listed[c].body)
            /\ pc[r] = "walking" /\ r \in Seen(record.published) =>
                 \A t \in Tables(local[r].listed[c].body) : Newer(record.published, r, t)

\* One section and those after it.
LEMMA Prepended ==
  ASSUME NEW x \in Sections, NEW rest \in Seq(Sections)
  PROVE  /\ Len(rest) \in Nat
         /\ DOMAIN (<<x>> \o rest) = 1..(1 + Len(rest))
         /\ \A i \in 1..(1 + Len(rest)) :
              (<<x>> \o rest)[i] = IF i <= 1 THEN x ELSE rest[i - 1]
<1> DEFINE first == <<x>>
           all == first \o rest
<1>1. first \in Seq(Sections) /\ Len(first) = 1 /\ first[1] = x
  OBVIOUS
<1>2. Len(rest) \in Nat
  BY LenProperties
<1>3. all = first \o rest /\ all = <<x>> \o rest
  OBVIOUS
<1> HIDE DEF first, all
<1>4. /\ all \in Seq(Sections)
      /\ Len(all) = 1 + Len(rest)
      /\ \A i \in 1..(1 + Len(rest)) :
           all[i] = IF i <= 1 THEN first[i] ELSE rest[i - 1]
  BY <1>1, <1>3, ConcatProperties
<1>5. DOMAIN all = 1..(1 + Len(rest))
  BY <1>4, LenProperties
<1>6. \A i \in 1..(1 + Len(rest)) : all[i] = IF i <= 1 THEN x ELSE rest[i - 1]
  BY <1>1, <1>2, <1>4
<1>. QED
  BY <1>2, <1>3, <1>5, <1>6

\* A body's sections, the latest first.
LEMMA SectionsAre ==
  ASSUME NEW b \in Bodies, NEW all, all = <<b.latest>> \o b.older
  PROVE  /\ b.older \in Seq(Sections) /\ Len(b.older) \in Nat
         /\ DOMAIN all = 1..(1 + Len(b.older))
         /\ \A i \in 1..(1 + Len(b.older)) :
              all[i] = IF i <= 1 THEN b.latest ELSE b.older[i - 1]
BY BodyParts, Prepended

\* The tables of a body are those of its sections.
LEMMA TablesAre ==
  ASSUME NEW b \in Bodies
  PROVE  /\ b.older \in Seq(Sections) /\ Len(b.older) \in Nat
         /\ Tables(b) = ({b.latest.table} \cup {b.older[i].table : i \in 1..Len(b.older)})
                          \ {None}
         /\ \A i \in 1..Len(b.older) : b.older[i] \in Sections
<1> DEFINE all == <<b.latest>> \o b.older
           n == Len(b.older)
           A == {all[i].table : i \in 1..(1 + n)}
           B == {b.older[i].table : i \in 1..n}
<1>1. Tables(b) = TablesOf(all)
  BY DEF Tables
<1>2. all = <<b.latest>> \o b.older
  OBVIOUS
<1> HIDE DEF all
<1>3. /\ b.older \in Seq(Sections) /\ n \in Nat
      /\ DOMAIN all = 1..(1 + n)
      /\ \A i \in 1..(1 + n) : all[i] = IF i <= 1 THEN b.latest ELSE b.older[i - 1]
  BY <1>2, SectionsAre
<1>4. Tables(b) = A \ {None}
  BY <1>1, <1>3 DEF TablesOf
<1>5. b.latest.table \in A
  BY <1>3
<1>6. ASSUME NEW i \in 1..n PROVE b.older[i].table \in A
  <2>1. i + 1 \in 1..(1 + n) /\ all[i + 1] = b.older[i]
    BY <1>3
  <2>. QED
    BY <2>1
<1>7. ASSUME NEW i \in 1..(1 + n) PROVE all[i].table \in {b.latest.table} \cup B
  <2>1. i = 1 \/ i - 1 \in 1..n
    BY <1>3
  <2>. QED
    BY <1>3, <2>1
<1>8. \A i \in 1..n : b.older[i] \in Sections
  BY <1>3, ElementOfSeq
<1>. QED
  BY <1>3, <1>4, <1>5, <1>6, <1>7, <1>8

\* A table that was not published becomes the newest.
LEMMA Grows ==
  ASSUME NEW p \in Seq(Requests), NEW r \in Requests, Distinct(p), r \notin Seen(p),
         NEW q, q = Append(p, r)
  PROVE  /\ Distinct(q)
         /\ Seen(q) = Seen(p) \cup {r}
         /\ \A t, u : Newer(p, t, u) => Newer(q, t, u)
         /\ \A t \in Seen(p) : Newer(q, r, t)
<1>1. /\ Len(p) \in Nat /\ DOMAIN p = 1..Len(p)
      /\ q \in Seq(Requests) /\ Len(q) = Len(p) + 1 /\ DOMAIN q = 1..(Len(p) + 1)
      /\ \A i \in 1..Len(p) : q[i] = p[i]
      /\ q[Len(p) + 1] = r
  BY LenProperties, AppendProperties
<1>2. Seen(q) = Seen(p) \cup {r}
  <2>1. \A i \in 1..(Len(p) + 1) : i \in 1..Len(p) \/ i = Len(p) + 1
    BY <1>1
  <2>2. \A i \in 1..Len(p) : i \in 1..(Len(p) + 1)
    BY <1>1
  <2>3. Len(p) + 1 \in 1..(Len(p) + 1)
    BY <1>1
  <2>. QED
    BY <1>1, <2>1, <2>2, <2>3 DEF Seen
<1>3. Distinct(q)
  <2>1. \A i \in 1..Len(p) : p[i] # r
    BY <1>1 DEF Seen
  <2>. QED
    BY <1>1, <2>1 DEF Distinct
<1>4. \A t, u : Newer(p, t, u) => Newer(q, t, u)
  <2> SUFFICES ASSUME NEW i \in DOMAIN p, NEW j \in DOMAIN p, j < i
               PROVE  Newer(q, p[i], p[j])
    BY DEF Newer
  <2>. QED
    BY <1>1 DEF Newer
<1>5. ASSUME NEW j \in DOMAIN p PROVE Newer(q, r, p[j])
  BY <1>1 DEF Newer
<1>. QED
  BY <1>2, <1>3, <1>4, <1>5 DEF Seen

\* Bodies stay in order when more is published.
LEMMA StaysInOrder ==
  ASSUME NEW p, NEW q, Seen(p) \subseteq Seen(q),
         \A t, u : Newer(p, t, u) => Newer(q, t, u),
         NEW b, InOrder(p, b)
  PROVE  InOrder(q, b)
BY DEF InOrder

\* A body without a history is in order.
LEMMA FreshInOrder ==
  ASSUME NEW p, NEW k \in {"progress", "suggestions", "failed"},
         NEW t \in Requests \cup {None}, NEW l \in BOOLEAN,
         NEW b, b = Body(k, Section(t, l), <<>>), b \in Bodies,
         t # None => t \in Seen(p)
  PROVE  InOrder(p, b)
<1>1. b.latest.table = t /\ b.older = <<>> /\ Len(b.older) = 0
  BY EmptySeq DEF Body, Section
<1>2. Tables(b) \subseteq {t} \ {None}
  BY <1>1, TablesAre
<1>. QED
  BY <1>1, <1>2 DEF InOrder

\* The sections of the merged history are the body's, in the same order; what is
\* missing was trimmed.
LEMMA OlderIs ==
  ASSUME NEW b \in Bodies, NEW older, older = Older(b)
  PROVE  /\ older \in Seq(Sections) /\ Len(older) \in Nat
         /\ 1 \in 1..Len(older) /\ older[1] = b.latest
         /\ \A i \in 1..Len(older) : i = 1 \/
              (i - 1 \in 1..Len(b.older) /\ older[i] = b.older[i - 1])
         /\ \A i \in 1..Len(b.older) :
              \/ b.older[i].table \in
                   {None} \cup (TablesOf(b.older) \ TablesOf(Trimmed(b.older)))
              \/ \E j \in 1..Len(older) : older[j].table = b.older[i].table
<1> DEFINE first == <<b.latest>>
           rest == Trimmed(b.older)
<1>1. b.latest \in Sections /\ b.older \in Seq(Sections) /\ WellFormed(b)
  BY BodyParts
<1>2. Len(b.older) \in Nat /\ DOMAIN b.older = 1..Len(b.older)
  BY <1>1, LenProperties
<1>3. first \in Seq(Sections) /\ Len(first) = 1 /\ first[1] = b.latest
  BY <1>1
<1>4. CASE ~HasHistory(b)
  <2>1. older = first
    BY <1>4 DEF Older
  <2>2. Len(b.older) = 0
    BY <1>4, EmptySeq DEF HasHistory
  <2>. QED
    BY <1>3, <2>1, <2>2
<1>5. CASE HasHistory(b)
  <2>1. /\ rest \in Seq(Sections)
        /\ Len(rest) <= Len(b.older)
        /\ \A i \in 1..Len(rest) : rest[i] = b.older[i]
    BY <1>1, <1>5, TrimmedOK DEF WellFormed, HasHistory
  <2>2. older = first \o rest
    BY <1>5 DEF Older
  <2>3. TablesOf(Trimmed(b.older)) = TablesOf(rest)
    OBVIOUS
  <2> HIDE DEF first, rest
  <2>4. /\ older \in Seq(Sections)
        /\ Len(older) = 1 + Len(rest)
        /\ \A i \in 1..(1 + Len(rest)) :
             older[i] = IF i <= 1 THEN first[i] ELSE rest[i - 1]
    <3>1. /\ first \o rest \in Seq(Sections)
          /\ Len(first \o rest) = Len(first) + Len(rest)
          /\ \A i \in 1..(Len(first) + Len(rest)) :
               (first \o rest)[i] = IF i <= Len(first) THEN first[i]
                                   ELSE rest[i - Len(first)]
      BY <1>3, <2>1, ConcatProperties
    <3>. QED
      BY <1>3, <2>2, <3>1
  <2>5. Len(rest) \in Nat /\ DOMAIN rest = 1..Len(rest)
    BY <2>1, LenProperties
  <2>6. 1 \in 1..Len(older) /\ older[1] = b.latest
    BY <1>3, <2>4, <2>5
  <2>7. \A i \in 1..Len(older) : i = 1 \/
          (i - 1 \in 1..Len(b.older) /\ older[i] = b.older[i - 1])
    <3>1. SUFFICES ASSUME NEW i \in 1..Len(older), i # 1
                   PROVE  i - 1 \in 1..Len(b.older) /\ older[i] = b.older[i - 1]
      OBVIOUS
    <3>2. i \in Nat /\ i - 1 \in 1..Len(rest) /\ ~(i <= 1) /\ i \in 1..(1 + Len(rest))
      BY <2>4, <2>5, <3>1
    <3>3. older[i] = rest[i - 1] /\ rest[i - 1] = b.older[i - 1]
      BY <2>1, <2>4, <3>2
    <3>4. i - 1 \in 1..Len(b.older)
      BY <1>2, <2>1, <2>5, <3>2
    <3>. QED
      BY <3>3, <3>4
  <2>8. \A i \in 1..Len(rest) : i + 1 \in 1..Len(older) /\ older[i + 1] = rest[i]
    BY <2>4, <2>5
  <2>9. ASSUME NEW i \in 1..Len(b.older),
               b.older[i].table \notin {None} \cup (TablesOf(b.older) \ TablesOf(rest))
        PROVE  \E j \in 1..Len(older) : older[j].table = b.older[i].table
    <3>1. b.older[i].table \in TablesOf(b.older)
      BY <1>2, <2>9 DEF TablesOf
    <3>2. b.older[i].table \in TablesOf(rest)
      BY <2>9, <3>1
    <3>3. PICK j \in 1..Len(rest) : rest[j].table = b.older[i].table
      BY <2>5, <3>2 DEF TablesOf
    <3>. QED
      BY <2>8, <3>3
  <2>10. Len(older) \in Nat
    BY <2>4, <2>5
  <2>. QED
    BY <2>3, <2>4, <2>6, <2>7, <2>9, <2>10
<1>. QED
  BY <1>4, <1>5

\* Merging under a newer table keeps the order.
LEMMA MergedInOrder ==
  ASSUME NEW p, NEW b \in Bodies, InOrder(p, b),
         NEW t \in Requests \cup {None},
         t # None => t \in Seen(p) /\ \A u \in Tables(b) : Newer(p, t, u),
         NEW new, new = Body("suggestions", Section(t, TRUE), Older(b))
  PROVE  InOrder(p, new)
<1> DEFINE older == new.older
<1>1. new \in Bodies /\ older = Older(b) /\ new.latest.table = t
  BY OlderOK DEF Body, Section
<1> HIDE DEF older
<1>2. /\ Len(older) \in Nat /\ older[1] = b.latest
      /\ \A i \in 1..Len(older) : i = 1 \/
           (i - 1 \in 1..Len(b.older) /\ older[i] = b.older[i - 1])
  BY <1>1, OlderIs
<1>3. /\ Tables(b) = ({b.latest.table} \cup {b.older[i].table : i \in 1..Len(b.older)})
                       \ {None}
      /\ Len(b.older) \in Nat
  BY TablesAre
<1>4. \A i \in 1..Len(older) : older[i].table # None => older[i].table \in Tables(b)
  BY <1>2, <1>3
<1>5. Tables(new) = ({t} \cup {older[i].table : i \in 1..Len(older)}) \ {None}
  BY <1>1, TablesAre DEF older
<1>6. Tables(b) \subseteq Seen(p)
  BY DEF InOrder
<1>7. Tables(new) \subseteq Seen(p)
  BY <1>4, <1>5, <1>6
<1>8. ASSUME NEW i \in 1..Len(older), NEW j \in 1..Len(older), i < j,
             older[i].table # None, older[j].table # None
      PROVE  Newer(p, older[i].table, older[j].table)
  <2>1. j # 1 /\ j - 1 \in 1..Len(b.older) /\ older[j] = b.older[j - 1]
    BY <1>2, <1>8
  <2>2. CASE i = 1
    BY <1>2, <1>8, <2>1, <2>2 DEF InOrder
  <2>3. CASE i # 1
    <3>1. i - 1 \in 1..Len(b.older) /\ older[i] = b.older[i - 1] /\ i - 1 < j - 1
      BY <1>2, <1>8, <2>3
    <3>. QED
      BY <1>8, <2>1, <3>1 DEF InOrder
  <2>. QED
    BY <2>2, <2>3
<1>9. \A i \in 1..Len(older) :
        t # None /\ older[i].table # None => Newer(p, t, older[i].table)
  BY <1>4
<1>. QED
  BY <1>1, <1>7, <1>8, <1>9 DEF InOrder, older

\* What the step of r leaves to the other tasks.
LEMMA OthersStay ==
  ASSUME TypeInv, NEW r \in Requests, NEW state \in States, NEW locals,
         GotoWith(r, state, locals)
  PROVE  /\ \A q \in Requests \ {r} : pc'[q] = pc[q] /\ local'[q] = local[q]
         /\ pc'[r] = state
         /\ local'[r] = IF state \in Ended THEN NoLocals ELSE locals
BY DEF TypeInv, GotoWith

\* r's table is published with this step, if it was not before.
Publishes(r) ==
  \/ r \in Seen(record.published) /\ record'.published = record.published
  \/ r \notin Seen(record.published) /\ record'.published = Append(record.published, r)

\* What a step does to the order of publication.
LEMMA OrderGrows ==
  ASSUME TypeInv, OrderInv, NEW r \in Requests,
         record'.published = record.published \/ Publishes(r)
  PROVE  /\ Distinct(record'.published)
         /\ Seen(record.published) \subseteq Seen(record'.published)
         /\ Seen(record'.published) \subseteq Seen(record.published) \cup {r}
         /\ \A t, u : Newer(record.published, t, u) => Newer(record'.published, t, u)
         /\ Publishes(r) => r \in Seen(record'.published)
         /\ r \notin Seen(record.published) /\ r \in Seen(record'.published) =>
              \A t \in Seen(record.published) : Newer(record'.published, r, t)
<1> DEFINE p == record.published
           q == record'.published
<1>1. p \in Seq(Requests) /\ Distinct(p)
  BY DEF TypeInv, Records, OrderInv
<1>2. \/ q = p /\ (Publishes(r) => r \in Seen(p))
      \/ r \notin Seen(p) /\ q = Append(p, r)
  BY DEF Publishes
<1> HIDE DEF p, q
<1>3. CASE r \notin Seen(p) /\ q = Append(p, r)
  <2>1. /\ Distinct(q)
        /\ Seen(q) = Seen(p) \cup {r}
        /\ \A t, u : Newer(p, t, u) => Newer(q, t, u)
        /\ \A t \in Seen(p) : Newer(q, r, t)
    BY <1>1, <1>3, Grows
  <2>. QED
    BY <2>1 DEF p, q
<1>4. CASE q = p /\ (Publishes(r) => r \in Seen(p))
  BY <1>1, <1>4 DEF p, q
<1>. QED
  BY <1>2, <1>3, <1>4

(***************************************************************************)
(* A step that publishes no table but r's, and leaves every body in order. *)
(***************************************************************************)
LEMMA OrderStep ==
  ASSUME IInv, IInv', OrderInv, NEW r \in Requests, NEW state \in States, NEW locals \in Locals,
         GotoWith(r, state, locals),
         record'.published = record.published \/ Publishes(r),
         state \in Unpublished =>
           pc[r] \in Unpublished /\ record'.published = record.published,
         \A c \in 1..Len(thread') :
           \/ c \in 1..Len(thread) /\ thread'[c].body = thread[c].body
           \/ InOrder(record'.published, thread'[c].body),
         \/ locals.listed = local[r].listed /\ (state = "walking" => pc[r] = "walking")
         \/ locals.listed = thread /\ pc[r] \in Unpublished
              /\ record'.published = record.published
  PROVE  OrderInv'
<1> DEFINE p == record.published
           q == record'.published
<1>1. TypeInv
  BY DEF IInv
<1>2. /\ Distinct(q)
      /\ Seen(p) \subseteq Seen(q)
      /\ Seen(q) \subseteq Seen(p) \cup {r}
      /\ \A t, u : Newer(p, t, u) => Newer(q, t, u)
      /\ r \notin Seen(p) /\ r \in Seen(q) => \A t \in Seen(p) : Newer(q, r, t)
  BY <1>1, OrderGrows
<1>3. /\ \A s \in Requests \ {r} : pc'[s] = pc[s] /\ local'[s] = local[s]
      /\ pc'[r] = state
      /\ local'[r] = IF state \in Ended THEN NoLocals ELSE locals
  BY <1>1, OthersStay
<1>4. /\ \A c \in 1..Len(thread) : InOrder(p, thread[c].body)
      /\ \A s \in Requests :
           /\ pc[s] \in Unpublished => s \notin Seen(p)
           /\ \A c \in 1..Len(local[s].listed) :
                /\ InOrder(p, local[s].listed[c].body)
                /\ pc[s] = "walking" /\ s \in Seen(p) =>
                     \A t \in Tables(local[s].listed[c].body) : Newer(p, s, t)
  BY DEF OrderInv
<1> HIDE DEF p, q
<1>5. \A b : InOrder(p, b) => InOrder(q, b)
  BY <1>2, StaysInOrder
<1>6. ASSUME NEW c \in 1..Len(thread') PROVE InOrder(q, thread'[c].body)
  BY <1>4, <1>5 DEF q
<1>7. ASSUME NEW s \in Requests \ {r}
      PROVE  /\ pc'[s] \in Unpublished => s \notin Seen(q)
             /\ \A c \in 1..Len(local'[s].listed) :
                  /\ InOrder(q, local'[s].listed[c].body)
                  /\ pc'[s] = "walking" /\ s \in Seen(q) =>
                       \A t \in Tables(local'[s].listed[c].body) : Newer(q, s, t)
  <2>1. s \in Seen(q) => s \in Seen(p)
    BY <1>2
  <2>2. pc'[s] = pc[s] /\ local'[s] = local[s]
    BY <1>3
  <2>. QED
    BY <1>2, <1>4, <1>5, <2>1, <2>2
<1>8. pc'[r] \in Unpublished => r \notin Seen(q)
  BY <1>3, <1>4 DEF p, q
<1>9. ASSUME NEW c \in 1..Len(local'[r].listed)
      PROVE  /\ InOrder(q, local'[r].listed[c].body)
             /\ pc'[r] = "walking" /\ r \in Seen(q) =>
                  \A t \in Tables(local'[r].listed[c].body) : Newer(q, r, t)
  <2>1. CASE state \in Ended
    <3>1. local'[r].listed = <<>>
      BY <1>3, <2>1 DEF NoLocals
    <3>2. Len(local'[r].listed) = 0
      BY <3>1, EmptySeq
    <3>. QED
      BY <3>2
  <2>2. CASE /\ state \notin Ended
             /\ locals.listed = local[r].listed
             /\ state = "walking" => pc[r] = "walking"
    <3>1. local'[r].listed = local[r].listed
      BY <1>3, <2>2
    <3>2. /\ InOrder(p, local[r].listed[c].body)
          /\ pc[r] = "walking" /\ r \in Seen(p) =>
               \A t \in Tables(local[r].listed[c].body) : Newer(p, r, t)
      BY <1>4, <3>1
    <3>3. Tables(local[r].listed[c].body) \subseteq Seen(p)
      BY <3>2 DEF InOrder
    <3>. QED
      BY <1>2, <1>3, <1>5, <2>2, <3>1, <3>2, <3>3
  <2>3. CASE /\ state \notin Ended
             /\ locals.listed = thread /\ pc[r] \in Unpublished /\ q = p
    BY <1>3, <1>4, <2>3
  <2>. QED
    BY <2>1, <2>2, <2>3 DEF p, q
<1>. QED
  BY <1>2, <1>6, <1>7, <1>8, <1>9 DEF OrderInv, q

\* What is recorded when a table is published.
LEMMA PublishedIs ==
  ASSUME TypeInv, NEW r \in Requests, NEW dropped \in SUBSET Requests,
         Published(r, dropped)
  PROVE  /\ record'.published = record.published \/ Publishes(r)
         /\ Table(r) # None => Table(r) = r /\ Publishes(r)
         /\ record'.dropped = record.dropped \cup dropped
         /\ record'.lost = record.lost /\ record'.refused = record.refused
<1>1. record \in Records
  BY DEF TypeInv
<1>2. /\ record'.dropped = record.dropped \cup dropped
      /\ record'.lost = record.lost /\ record'.refused = record.refused
      /\ record'.published = IF Table(r) = None \/ r \in Seen(record.published)
                             THEN record.published ELSE Append(record.published, r)
  BY <1>1 DEF Published, Records, Seen
<1>3. Table(r) \in {r, None}
  BY DEF Table
<1>. QED
  BY <1>2, <1>3 DEF Publishes

\* What an edit does to the comments.
LEMMA RewriteIs ==
  ASSUME thread \in Seq(Comments), NEW c \in 1..Len(thread), NEW b, Rewrite(c, b)
  PROVE  /\ Len(thread') = Len(thread)
         /\ \A d \in 1..Len(thread) : d # c => thread'[d] = thread[d]
         /\ thread'[c].live = thread[c].live /\ thread'[c].by = thread[c].by
         /\ thread'[c].body = IF thread[c].live THEN b ELSE thread[c].body
<1> DEFINE new == [thread[c] EXCEPT !.body = IF thread[c].live THEN b ELSE @]
<1>1. thread[c] \in Comments
  BY ElementOfSeq
<1>2. /\ new.live = thread[c].live /\ new.by = thread[c].by
      /\ new.body = IF thread[c].live THEN b ELSE thread[c].body
  BY <1>1 DEF Comments
<1>3. thread' = [thread EXCEPT ![c] = new]
  BY DEF Rewrite
<1> HIDE DEF new
<1>4. DOMAIN thread = 1..Len(thread) /\ DOMAIN thread' = 1..Len(thread') /\ Len(thread) \in Nat
  BY <1>3, LenProperties
<1>5. \A d \in 1..Len(thread) : thread'[d] = IF d = c THEN new ELSE thread[d]
  BY <1>3, <1>4
<1>6. Len(thread') = Len(thread)
  BY <1>3, LenProperties
<1>. QED
  BY <1>2, <1>5, <1>6

\* What a deletion does to the comments.
LEMMA RemoveIs ==
  ASSUME thread \in Seq(Comments), NEW c \in 1..Len(thread), Removed(c)
  PROVE  /\ Len(thread') = Len(thread)
         /\ \A d \in 1..Len(thread) : d # c => thread'[d] = thread[d]
         /\ ~thread'[c].live /\ thread'[c].by = thread[c].by
         /\ thread'[c].body = thread[c].body
<1> DEFINE new == [thread[c] EXCEPT !.live = FALSE]
<1>1. thread[c] \in Comments
  BY ElementOfSeq
<1>2. ~new.live /\ new.by = thread[c].by /\ new.body = thread[c].body
  BY <1>1 DEF Comments
<1>3. thread' = [thread EXCEPT ![c] = new]
  BY DEF Removed
<1> HIDE DEF new
<1>4. DOMAIN thread = 1..Len(thread) /\ Len(thread) \in Nat
  BY LenProperties
<1>5. \A d \in 1..Len(thread) : thread'[d] = IF d = c THEN new ELSE thread[d]
  BY <1>3, <1>4
<1>6. Len(thread') = Len(thread)
  BY <1>3, LenProperties
<1>. QED
  BY <1>2, <1>5, <1>6

\* The steps after which every body is the one it was, or fresh.
OrderKept ==
  \A c \in 1..Len(thread') :
    \/ c \in 1..Len(thread) /\ thread'[c].body = thread[c].body
    \/ InOrder(record'.published, thread'[c].body)

LEMMA SameKept ==
  ASSUME UNCHANGED thread
  PROVE  OrderKept
BY DEF OrderKept

LEMMA PublishKept ==
  ASSUME thread \in Seq(Comments), NEW r \in Requests, NEW b \in Bodies, Publish(r, b),
         InOrder(record'.published, b)
  PROVE  OrderKept
<1>1. /\ Len(thread') = Len(thread) + 1
      /\ thread'[Len(thread')] = Comment(r, b)
      /\ \A c \in 1..Len(thread) : thread'[c] = thread[c]
      /\ Len(thread) \in Nat
  BY PublishOK, LenProperties
<1>2. ASSUME NEW c \in 1..Len(thread'), c \notin 1..Len(thread)
      PROVE  thread'[c].body = b
  BY <1>1, <1>2 DEF Comment
<1>. QED
  BY <1>1, <1>2 DEF OrderKept

LEMMA RewriteKept ==
  ASSUME thread \in Seq(Comments), NEW c \in 1..Len(thread), NEW b \in Bodies,
         Rewrite(c, b), InOrder(record'.published, b)
  PROVE  OrderKept
<1>1. /\ Len(thread') = Len(thread)
      /\ \A d \in 1..Len(thread) : d # c => thread'[d] = thread[d]
      /\ thread'[c].body = IF thread[c].live THEN b ELSE thread[c].body
  BY RewriteIs
<1>. QED
  BY <1>1 DEF OrderKept

LEMMA RemoveKept ==
  ASSUME thread \in Seq(Comments), NEW c \in 1..Len(thread), Removed(c)
  PROVE  OrderKept
<1>1. /\ Len(thread') = Len(thread)
      /\ \A d \in 1..Len(thread) : d # c => thread'[d] = thread[d]
      /\ thread'[c].body = thread[c].body
  BY RemoveIs
<1>. QED
  BY <1>1 DEF OrderKept

\* The comments without a table are in order.
LEMMA NoticesInOrder ==
  ASSUME NEW p
  PROVE  InOrder(p, Progress) /\ InOrder(p, NoSuggestions) /\ InOrder(p, Failed)
BY BodiesOK, FreshInOrder DEF Progress, NoSuggestions, Failed, NoSection

\* The common case: the task keeps its variables.
LEMMA OrderGoes ==
  ASSUME IInv, IInv', OrderInv, NEW r \in Requests, NEW state \in States \ {"walking"},
         Goto(r, state),
         record'.published = record.published \/ Publishes(r),
         state \in Unpublished =>
           pc[r] \in Unpublished /\ record'.published = record.published,
         OrderKept
  PROVE  OrderInv'
<1>1. local[r] \in Locals
  BY LocalOK
<1>2. GotoWith(r, state, local[r])
  BY DEF Goto
<1>. QED
  BY <1>1, <1>2, OrderStep DEF OrderKept

\* The steps that publish no table.
LEMMA QuietOrder ==
  ASSUME IInv, IInv', OrderInv, NEW r \in Requests,
         \/ \E auto \in Modes : Begin(r, auto)
         \/ Predict(r) \/ TellNone(r) \/ List(r) \/ RemoveOld(r) \/ Recover(r)
  PROVE  OrderInv'
<1> DEFINE p == record.published
<1>1. thread \in Seq(Comments) /\ local[r] \in Locals /\ DOMAIN thread = 1..Len(thread)
  BY LocalOK, LenProperties DEF IInv, TypeInv
<1>2. /\ {"failed", "waiting", "failing", "done", "walking", "appending", "telling",
          "publishing"} \subseteq States
      /\ {"failed", "failing", "done", "walking"} \cap Unpublished = {}
  BY DEF States, Synchronous, Ended, Unpublished
<1>3. local[r].progress # 0 => local[r].progress \in 1..Len(thread)
  BY LocalOK
<1>4. Progress \in Bodies /\ NoSuggestions \in Bodies /\ Failed \in Bodies
  BY BodiesOK
<1>5. ASSUME NEW auto \in Modes, Begin(r, auto) PROVE OrderInv'
  <2>1. record' = record /\ pc[r] \in Unpublished
    BY <1>5 DEF Begin, Unpublished
  <2>2. CASE /\ UNCHANGED thread
             /\ \E state \in {"failed", "waiting", "failing"} : Goto(r, state)
    <3>1. PICK state \in {"failed", "waiting", "failing"} : Goto(r, state)
      BY <2>2
    <3>2. state \in States \ {"walking"}
      BY <1>2
    <3>. QED
      BY <2>1, <2>2, <3>1, <3>2, SameKept, OrderGoes
  <2>3. CASE /\ Publish(r, Progress)
             /\ GotoWith(r, "waiting", [local[r] EXCEPT !.progress = Len(thread) + 1])
    <3> DEFINE locals == [local[r] EXCEPT !.progress = Len(thread) + 1]
    <3>1. OrderKept
      BY <1>1, <1>4, <2>3, NoticesInOrder, PublishKept
    <3>2. locals \in Locals /\ locals.listed = local[r].listed
      BY <1>1, LenProperties DEF Locals
    <3>3. GotoWith(r, "waiting", locals)
      BY <2>3
    <3> HIDE DEF locals
    <3>. QED
      BY <1>2, <2>1, <3>1, <3>2, <3>3, OrderStep DEF OrderKept
  <2>. QED
    BY <1>5, <2>2, <2>3 DEF Begin
<1>6. ASSUME Predict(r) PROVE OrderInv'
  <2>1. PICK o \in Outcomes : GotoWith(r, After(o), [local[r] EXCEPT !.outcome = o])
    BY <1>6 DEF Predict
  <2> DEFINE locals == [local[r] EXCEPT !.outcome = o]
  <2>2. record' = record /\ thread' = thread /\ pc[r] \in Unpublished
    BY <1>6 DEF Predict, Unpublished
  <2>3. After(o) \in {"telling", "failing", "publishing"}
    BY DEF After
  <2>4. o \in OutcomeKinds
    BY ImproveSessionAssumption
  <2>5. locals \in Locals /\ locals.listed = local[r].listed
    BY <1>1, <2>4 DEF Locals
  <2>6. GotoWith(r, After(o), locals)
    BY <2>1
  <2>7. After(o) \in States /\ After(o) # "walking"
    BY <1>2, <2>3
  <2> HIDE DEF locals
  <2>. QED
    BY <2>2, <2>5, <2>6, <2>7, SameKept, OrderStep DEF OrderKept
<1>7. ASSUME TellNone(r) PROVE OrderInv'
  <2>1. PICK state \in {"done", "failing"} : Goto(r, state)
    BY <1>7 DEF TellNone
  <2>2. record'.published = record.published
    BY <1>7 DEF TellNone, Refused, IInv, TypeInv, Records
  <2>3. OrderKept
    <3>1. CASE local[r].progress # 0 /\ Rewrite(local[r].progress, NoSuggestions)
      BY <1>1, <1>3, <1>4, <3>1, NoticesInOrder, RewriteKept
    <3>2. CASE Publish(r, NoSuggestions)
      BY <1>1, <1>4, <3>2, NoticesInOrder, PublishKept
    <3>. QED
      BY <1>7, <3>1, <3>2, SameKept DEF TellNone
  <2>4. state \in States \ {"walking"} /\ state \notin Unpublished
    BY <1>2
  <2>. QED
    BY <2>1, <2>2, <2>3, <2>4, OrderGoes
<1>8. ASSUME List(r) PROVE OrderInv'
  <2>1. record' = record /\ thread' = thread /\ pc[r] \in Unpublished
    BY <1>8 DEF List, Unpublished
  <2>2. CASE GotoWith(r, "walking", [local[r] EXCEPT !.listed = thread])
    <3> DEFINE locals == [local[r] EXCEPT !.listed = thread]
    <3>1. locals \in Locals /\ locals.listed = thread
      BY <1>1 DEF Locals
    <3>2. GotoWith(r, "walking", locals)
      BY <2>2
    <3> HIDE DEF locals
    <3>. QED
      BY <1>2, <2>1, <3>1, <3>2, SameKept, OrderStep DEF OrderKept
  <2>3. CASE Goto(r, "appending")
    BY <1>2, <2>1, <2>3, SameKept, OrderGoes
  <2>. QED
    BY <1>8, <2>2, <2>3 DEF List
<1>9. ASSUME RemoveOld(r) PROVE OrderInv'
  <2>1. pc[r] = "removing" /\ Goto(r, "done")
    BY <1>9 DEF RemoveOld
  <2>2. record'.published = record.published
    BY <1>9 DEF RemoveOld, IInv, TypeInv, Records
  <2>3. Candidate(r) \in 1..Len(thread)
    BY <2>1, FoundOK DEF IInv, BoundInv
  <2>4. OrderKept
    BY <1>1, <1>9, <2>3, SameKept, RemoveKept DEF RemoveOld, Removed
  <2>. QED
    BY <1>2, <2>1, <2>2, <2>4, OrderGoes
<1>10. ASSUME Recover(r) PROVE OrderInv'
  <2>1. Goto(r, "failed")
    BY <1>10 DEF Recover
  <2>2. record'.published = record.published
    BY <1>10 DEF Recover, Refused, IInv, TypeInv, Records
  <2>3. OrderKept
    <3>1. CASE local[r].progress # 0 /\ Removed(local[r].progress)
      BY <1>1, <1>3, <3>1, RemoveKept
    <3>2. CASE Publish(r, Failed)
      BY <1>1, <1>4, <3>2, NoticesInOrder, PublishKept
    <3>. QED
      BY <1>10, <3>1, <3>2, SameKept DEF Recover, Removed
  <2>. QED
    BY <1>2, <2>1, <2>2, <2>3, OrderGoes
<1>. QED
  BY <1>5, <1>6, <1>7, <1>8, <1>9, <1>10

\* The comment that a task fills, merges or writes shows its table as the newest.
LEMMA TellingOrder ==
  ASSUME IInv, IInv', OrderInv, NEW r \in Requests, Refill(r) \/ Merge(r) \/ PublishNew(r)
  PROVE  OrderInv'
<1> DEFINE p == record.published
           q == record'.published
<1>1. /\ thread \in Seq(Comments) /\ local[r] \in Locals /\ TypeInv /\ record \in Records
      /\ Table(r) \in Requests \cup {None}
  BY LocalOK, TableOK DEF IInv, TypeInv
<1>2. /\ {"failing", "done", "walking", "removing"} \subseteq States
      /\ {"failing", "done", "walking", "removing"} \cap Unpublished = {}
  BY DEF States, Synchronous, Ended, Unpublished
<1>3. local[r].progress # 0 => local[r].progress \in 1..Len(thread)
  BY LocalOK
<1>4. {} \in SUBSET Requests
  OBVIOUS
<1>5. ASSUME NEW dropped \in SUBSET Requests, Published(r, dropped)
      PROVE  /\ q = p \/ Publishes(r)
             /\ Table(r) # None => Table(r) \in Seen(q) /\ Table(r) = r
  <2>1. /\ q = p \/ Publishes(r)
        /\ Table(r) # None => Table(r) = r /\ Publishes(r)
    BY <1>1, <1>5, PublishedIs
  <2>2. Publishes(r) => r \in Seen(q)
    BY <1>1, OrderGrows
  <2>. QED
    BY <2>1, <2>2
<1>6. ASSUME NEW l \in BOOLEAN, Published(r, {}),
             NEW b, b = Body("suggestions", Section(Table(r), l), <<>>)
      PROVE  b \in Bodies /\ InOrder(q, b)
  <2>1. b \in Bodies
    BY <1>1, <1>6, BodiesOK
  <2>2. Table(r) # None => Table(r) \in Seen(q)
    BY <1>4, <1>5, <1>6
  <2> HIDE DEF q
  <2>. QED
    BY <1>1, <1>6, <2>1, <2>2, FreshInOrder
<1>7. ASSUME Refill(r) PROVE OrderInv'
  <2> DEFINE locals == [local[r] EXCEPT !.next = Candidate(r) + 1]
             new == Body("suggestions", Section(Table(r), FALSE), <<>>)
  <2>1. pc[r] = "walking" /\ Candidates(r) # {} /\ GotoWith(r, "walking", locals)
    BY <1>7 DEF Refill
  <2>2. Candidate(r) \in 1..Len(thread)
    BY <2>1, FoundOK
  <2>3. locals \in Locals /\ locals.listed = local[r].listed
    BY <1>1, <2>2 DEF Locals
  <2>4. (q = p \/ Publishes(r)) /\ OrderKept
    <3>1. CASE Rewrite(Candidate(r), new) /\ Published(r, {})
      <4>1. new \in Bodies /\ InOrder(q, new)
        BY <1>6, <3>1
      <4> HIDE DEF new
      <4>2. OrderKept
        BY <1>1, <2>2, <3>1, <4>1, RewriteKept
      <4>. QED
        BY <1>4, <1>5, <3>1, <4>2
    <3>2. CASE UNCHANGED <<thread, record>>
      BY <3>2, SameKept
    <3>. QED
      BY <1>7, <3>1, <3>2 DEF Refill
  <2> HIDE DEF locals
  <2>. QED
    BY <1>2, <2>1, <2>3, <2>4, OrderStep DEF OrderKept
<1>8. ASSUME Merge(r) PROVE OrderInv'
  <2> DEFINE found == Found(r)
             new == Body("suggestions", Section(Table(r), TRUE), Older(Found(r)))
             target == IF local[r].progress = 0 THEN Candidate(r) ELSE local[r].progress
             dropped == TablesOf(Found(r).older) \ TablesOf(Trimmed(Found(r).older))
  <2>1. pc[r] = "walking" /\ Candidates(r) # {}
    BY <1>8 DEF Merge
  <2>2. /\ found \in Bodies /\ target \in 1..Len(thread)
        /\ Candidate(r) \in 1..Len(local[r].listed)
        /\ found = local[r].listed[Candidate(r)].body
    BY <1>3, <2>1, FoundOK DEF Found
  <2>3. PICK state \in {"done", "removing"} : Goto(r, state)
    BY <1>8 DEF Merge
  <2>4. (q = p \/ Publishes(r)) /\ OrderKept
    <3>1. CASE Rewrite(target, new) /\ Published(r, dropped)
      <4>1. dropped \in SUBSET Requests
        BY <2>2, BodyParts, TablesOK
      <4> HIDE DEF dropped
      <4>2. /\ q = p \/ Publishes(r)
            /\ Table(r) # None => Table(r) \in Seen(q) /\ Table(r) = r
        BY <1>5, <3>1, <4>1
      <4>3. /\ Seen(p) \subseteq Seen(q)
            /\ \A t, u : Newer(p, t, u) => Newer(q, t, u)
            /\ r \notin Seen(p) /\ r \in Seen(q) => \A t \in Seen(p) : Newer(q, r, t)
        BY <1>1, <4>2, OrderGrows
      <4>4. /\ InOrder(p, found)
            /\ r \in Seen(p) => \A t \in Tables(found) : Newer(p, r, t)
        BY <2>1, <2>2 DEF OrderInv
      <4> HIDE DEF p, q, found
      <4>5. Tables(found) \subseteq Seen(p)
        BY <4>4 DEF InOrder
      <4>6. InOrder(q, found)
        BY <4>3, <4>4, StaysInOrder
      <4>7. Table(r) # None => Table(r) \in Seen(q) /\ \A u \in Tables(found) : Newer(q, Table(r), u)
        BY <4>2, <4>3, <4>4, <4>5
      <4>8. new = Body("suggestions", Section(Table(r), TRUE), Older(found))
        BY DEF found
      <4> HIDE DEF new
      <4>9. InOrder(q, new)
        BY <1>1, <2>2, <4>6, <4>7, <4>8, MergedInOrder
      <4>10. new \in Bodies
        BY <1>1, <2>2, <4>8, OlderOK
      <4> HIDE DEF target
      <4>11. OrderKept
        BY <1>1, <2>2, <3>1, <4>9, <4>10, RewriteKept DEF q
      <4>. QED
        BY <4>2, <4>11
    <3>2. CASE Refused(r) /\ UNCHANGED thread
      BY <1>1, <3>2, SameKept DEF Refused, Records
    <3>. QED
      BY <1>8, <3>1, <3>2 DEF Merge
  <2>5. state \in States \ {"walking"} /\ state \notin Unpublished
    BY <1>2, <2>3
  <2>. QED
    BY <2>3, <2>4, <2>5, OrderGoes
<1>9. ASSUME PublishNew(r) PROVE OrderInv'
  <2> DEFINE new == Body("suggestions", Section(Table(r), TRUE), <<>>)
  <2>1. PICK state \in {"done", "failing"} : Goto(r, state)
    BY <1>9 DEF PublishNew
  <2>2. (q = p \/ Publishes(r)) /\ OrderKept
    <3>1. CASE /\ Published(r, {})
               /\ \/ local[r].progress # 0 /\ Rewrite(local[r].progress, new)
                  \/ Publish(r, new)
      <4>1. new \in Bodies /\ InOrder(q, new)
        BY <1>6, <3>1
      <4> HIDE DEF new
      <4>2. OrderKept
        BY <1>1, <1>3, <3>1, <4>1, RewriteKept, PublishKept
      <4>. QED
        BY <1>4, <1>5, <3>1, <4>2
    <3>2. CASE (Refused(r) \/ UNCHANGED record) /\ UNCHANGED thread
      BY <1>1, <3>2, SameKept DEF Refused, Records
    <3>. QED
      BY <1>9, <3>1, <3>2 DEF PublishNew
  <2>3. state \in States \ {"walking"} /\ state \notin Unpublished
    BY <1>2, <2>1
  <2>. QED
    BY <2>1, <2>2, <2>3, OrderGoes
<1>. QED
  BY <1>7, <1>8, <1>9

\* Nothing is published at first.
LEMMA InitOrder == Init => OrderInv
<1> SUFFICES ASSUME Init PROVE OrderInv
  OBVIOUS
<1>1. /\ thread = <<>> /\ record.published = <<>>
      /\ \A r \in Requests : local[r].listed = <<>>
  BY DEF Init, NoLocals
<1>2. Len(<<>>) = 0 /\ DOMAIN record.published = {}
  BY <1>1, EmptySeq
<1>. QED
  BY <1>1, <1>2 DEF OrderInv, Distinct, Seen

\* Every step keeps the order.
LEMMA OrderNext == IInv /\ IInv' /\ OrderInv /\ [Next]_vars => OrderInv'
<1> SUFFICES ASSUME IInv, IInv', OrderInv, [Next]_vars PROVE OrderInv'
  OBVIOUS
<1>1. ASSUME NEW r \in Requests, RequestStep(r) PROVE OrderInv'
  BY <1>1, QuietOrder, TellingOrder DEF RequestStep
<1>2. CASE UNCHANGED vars
  BY <1>2 DEF vars, OrderInv
<1>. QED
  BY <1>1, <1>2 DEF Next, Quiescent

\* The rank of a table that was published is its place.
LEMMA RankIs ==
  ASSUME Distinct(record.published), NEW i \in DOMAIN record.published
  PROVE  Rank(record.published[i]) = i
BY DEF Distinct, Rank

\* Whichever worker merges or fills a comment, from however old a snapshot, it
\* shows its suggestions newest first and none of them twice
\* (pr_code_suggestions.py:229-338).
THEOREM NewestFirstHolds == Spec => []NewestFirst
<1>1. ASSUME IInv, OrderInv, NEW c \in Suggestions, NEW b, b = thread[c].body,
             NEW all, all = <<b.latest>> \o b.older,
             NEW i \in DOMAIN all, NEW j \in DOMAIN all,
             i < j, all[i].table # None, all[j].table # None
      PROVE  Rank(all[i].table) > Rank(all[j].table)
  <2>1. thread \in Seq(Comments) /\ c \in 1..Len(thread)
    BY <1>1, LenProperties DEF IInv, TypeInv, Suggestions
  <2>2. thread[c] \in Comments
    BY <2>1, ElementOfSeq
  <2>3. b \in Bodies /\ InOrder(record.published, b)
    BY <1>1, <2>1, <2>2 DEF Comments, OrderInv
  <2>4. /\ Len(b.older) \in Nat /\ DOMAIN all = 1..(1 + Len(b.older))
        /\ \A k \in 1..(1 + Len(b.older)) :
             all[k] = IF k <= 1 THEN b.latest ELSE b.older[k - 1]
    BY <1>1, <2>3, SectionsAre
  <2>5. j - 1 \in 1..Len(b.older) /\ all[j] = b.older[j - 1]
    BY <1>1, <2>4
  <2>6. Newer(record.published, all[i].table, all[j].table)
    <3>1. CASE i = 1
      <4>1. all[i] = b.latest
        BY <2>4, <3>1
      <4>. QED
        BY <1>1, <2>3, <2>5, <4>1 DEF InOrder
    <3>2. CASE i # 1
      <4>1. i - 1 \in 1..Len(b.older) /\ all[i] = b.older[i - 1] /\ i - 1 < j - 1
        BY <1>1, <2>4, <3>2
      <4>. QED
        BY <1>1, <2>3, <2>5, <4>1 DEF InOrder
    <3>. QED
      BY <3>1, <3>2
  <2>7. PICK m, n \in DOMAIN record.published :
          n < m /\ record.published[m] = all[i].table /\ record.published[n] = all[j].table
    BY <2>6 DEF Newer
  <2>8. Rank(all[i].table) = m /\ Rank(all[j].table) = n
    BY <1>1, <2>7, RankIs DEF OrderInv
  <2>9. m \in Nat /\ n \in Nat
    BY <1>1, <2>7, LenProperties DEF IInv, TypeInv, Records
  <2>. QED
    BY <2>7, <2>8, <2>9
<1>2. IInv /\ OrderInv => NewestFirst
  BY <1>1 DEF NewestFirst
<1>3. Spec => []OrderInv
  BY InitIInv, IInvStep, InitOrder, OrderNext, PTL DEF Spec
<1>. QED
  BY <1>2, <1>3, IInvAlways, PTL

-----------------------------------------------------------------------------
(***************************************************************************)
(* Nothing is lost, with one worker: a task walks a snapshot that is still *)
(* the thread, because no other task runs before it is through, and the    *)
(* progress comment it writes to is live and its own.                      *)
(***************************************************************************)
OneWorker == \E w \in Workers : Workers = {w}

Working == {"waiting", "telling", "publishing", "walking", "appending", "failing"}

OwnInv ==
  \A r \in Requests : pc[r] \in Working /\ local[r].progress # 0 =>
    /\ thread[local[r].progress].live
    /\ thread[local[r].progress].by = r
    /\ thread[local[r].progress].body.kind = "progress"

\* Before it is deleted, a comment was merged into another one, or the edit
\* that was to do so was refused.
SnapshotInv ==
  \A r \in Requests :
    /\ pc[r] = "walking" =>
         \A c \in local[r].next .. Len(local[r].listed) : thread[c] = local[r].listed[c]
    /\ pc[r] = "removing" =>
         /\ thread[Candidate(r)].body = Found(r)
         /\ r \notin record.refused =>
              /\ local[r].progress \in 1..Len(thread) \ {Candidate(r)}
              /\ thread[local[r].progress].live
              /\ thread[local[r].progress].body.kind = "suggestions"
              /\ Tables(Found(r)) \subseteq
                   record.dropped \cup Tables(thread[local[r].progress].body)

Kept(t) ==
  \/ t \in record.dropped \cup record.lost
  \/ \E c \in 1..Len(thread) : /\ thread[c].live /\ thread[c].body.kind = "suggestions"
                               /\ t \in Tables(thread[c].body)

KeptInv == \A t \in Seen(record.published) : Kept(t)

KeepInv == OwnInv /\ SnapshotInv /\ KeptInv

\* No table goes away.
Keeps ==
  \A c \in 1..Len(thread) :
    thread[c].live /\ thread[c].body.kind = "suggestions" =>
      \A t \in Tables(thread[c].body) : Kept(t)'

\* A comment was edited or deleted, and its tables are to be found elsewhere.
LEMMA EditKeeps ==
  ASSUME Len(thread') = Len(thread), NEW c \in 1..Len(thread),
         \A d \in 1..Len(thread) : d # c => thread'[d] = thread[d],
         thread[c].live /\ thread[c].body.kind = "suggestions" =>
           \A t \in Tables(thread[c].body) : Kept(t)'
  PROVE  Keeps
<1>1. ASSUME NEW d \in 1..Len(thread), d # c,
             thread[d].live /\ thread[d].body.kind = "suggestions",
             NEW t \in Tables(thread[d].body)
      PROVE  Kept(t)'
  BY <1>1 DEF Kept
<1>. QED
  BY <1>1 DEF Keeps

\* No comment was touched, though one may be new.
LEMMA AddKeeps ==
  ASSUME ThreadOK, \A d \in 1..Len(thread) : thread'[d] = thread[d], Len(thread) \in Nat
  PROVE  Keeps
<1>1. ASSUME NEW d \in 1..Len(thread),
             thread[d].live /\ thread[d].body.kind = "suggestions",
             NEW t \in Tables(thread[d].body)
      PROVE  Kept(t)'
  <2>1. d \in 1..Len(thread')
    BY DEF ThreadOK
  <2>. QED
    BY <1>1, <2>1 DEF Kept
<1>. QED
  BY <1>1 DEF Keeps

\* In one worker, a task that holds the loop or finds it free is the only one
\* that does not await the model.
LEMMA Alone ==
  ASSUME OneWorker, IInv, NEW r \in Requests, LoopFree(r) \/ pc[r] \in Synchronous,
         NEW q \in Requests \ {r}
  PROVE  pc[q] \notin Synchronous
<1>1. worker[q] = worker[r]
  BY DEF OneWorker, IInv, TypeInv
<1>2. loop[worker[r]] \in {r, None}
  BY DEF LoopFree, IInv, LoopInv
<1>. QED
  BY <1>1, <1>2, ImproveSessionAssumption DEF IInv, LoopInv

(***************************************************************************)
(* A step that keeps every table and no other task's progress comment from *)
(* being what it was.                                                      *)
(***************************************************************************)
LEMMA KeepStep ==
  ASSUME OneWorker, IInv, KeepInv, NEW r \in Requests, NEW state \in States,
         NEW locals \in Locals, GotoWith(r, state, locals),
         LoopFree(r) \/ pc[r] \in Synchronous,
         \A c \in 1..Len(thread) :
           thread'[c] = thread[c] \/ thread[c].by = r \/ thread[c].body.kind # "progress",
         record.dropped \subseteq record'.dropped, record.lost \subseteq record'.lost,
         Keeps,
         \A t \in Seen(record'.published) : t \in Seen(record.published) \/ Kept(t)',
         state \in Working /\ locals.progress # 0 =>
           /\ thread'[locals.progress].live
           /\ thread'[locals.progress].by = r
           /\ thread'[locals.progress].body.kind = "progress",
         state = "walking" =>
           \A c \in locals.next .. Len(locals.listed) : thread'[c] = locals.listed[c],
         state = "removing" =>
           /\ locals = local[r]
           /\ thread'[Candidate(r)].body = Found(r)
           /\ r \notin record'.refused =>
                /\ local[r].progress \in 1..Len(thread') \ {Candidate(r)}
                /\ thread'[local[r].progress].live
                /\ thread'[local[r].progress].body.kind = "suggestions"
                /\ Tables(Found(r)) \subseteq
                     record'.dropped \cup Tables(thread'[local[r].progress].body)
  PROVE  KeepInv'
<1>1. /\ \A q \in Requests \ {r} : pc'[q] = pc[q] /\ local'[q] = local[q]
      /\ pc'[r] = state
      /\ local'[r] = IF state \in Ended THEN NoLocals ELSE locals
  BY OthersStay DEF IInv
<1>2. \A q \in Requests \ {r} : pc[q] \notin Synchronous
  BY Alone
<1>3. OwnInv'
  <2>1. ASSUME NEW q \in Requests \ {r}, pc'[q] \in Working, local'[q].progress # 0
        PROVE  /\ thread'[local'[q].progress].live
               /\ thread'[local'[q].progress].by = q
               /\ thread'[local'[q].progress].body.kind = "progress"
    <3> DEFINE c == local[q].progress
    <3>1. pc[q] \in Working /\ local'[q].progress = c /\ c # 0
      BY <1>1, <2>1
    <3>2. thread[c].live /\ thread[c].by = q /\ thread[c].body.kind = "progress"
      BY <3>1 DEF KeepInv, OwnInv
    <3>3. c \in 1..Len(thread)
      BY <3>1, LocalOK
    <3> HIDE DEF c
    <3>4. thread'[c] = thread[c]
      BY <3>2, <3>3
    <3>. QED
      BY <3>1, <3>2, <3>4
  <2>2. state \in Working => state \notin Ended
    BY DEF Working, Ended
  <2>. QED
    BY <1>1, <2>1, <2>2 DEF OwnInv
<1>4. SnapshotInv'
  <2>1. \A q \in Requests \ {r} : pc'[q] \notin {"walking", "removing"}
    BY <1>1, <1>2 DEF Synchronous
  <2>2. state \in {"walking", "removing"} => local'[r] = locals
    BY <1>1 DEF Ended
  <2>3. state = "removing" => Candidate(r)' = Candidate(r) /\ Found(r)' = Found(r)
    <3>1. state = "removing" => local'[r] = local[r]
      BY <2>2
    <3>2. state = "removing" => Candidates(r)' = Candidates(r)
      BY <3>1 DEF Candidates
    <3>3. state = "removing" => Candidate(r)' = Candidate(r)
      BY <3>2 DEF Candidate
    <3>. QED
      BY <3>1, <3>3 DEF Found
  <2>4. ASSUME state = "walking", NEW c \in local'[r].next .. Len(local'[r].listed)
        PROVE  thread'[c] = local'[r].listed[c]
    BY <2>2, <2>4
  <2>5. ASSUME state = "removing"
        PROVE  /\ thread'[Candidate(r)'].body = Found(r)'
               /\ r \notin record'.refused =>
                    /\ local'[r].progress \in 1..Len(thread') \ {Candidate(r)'}
                    /\ thread'[local'[r].progress].live
                    /\ thread'[local'[r].progress].body.kind = "suggestions"
                    /\ Tables(Found(r)') \subseteq
                         record'.dropped \cup Tables(thread'[local'[r].progress].body)
    BY <2>2, <2>3, <2>5
  <2>. QED
    BY <1>1, <2>1, <2>4, <2>5 DEF SnapshotInv
<1>5. KeptInv'
  <2>1. ASSUME NEW t \in Seen(record.published) PROVE Kept(t)'
    <3>1. CASE t \in record.dropped \cup record.lost
      BY <3>1 DEF Kept
    <3>2. CASE \E c \in 1..Len(thread) :
                 /\ thread[c].live /\ thread[c].body.kind = "suggestions"
                 /\ t \in Tables(thread[c].body)
      BY <3>2 DEF Keeps
    <3>. QED
      BY <3>1, <3>2 DEF KeepInv, KeptInv, Kept
  <2>. QED
    BY <2>1 DEF KeptInv
<1>. QED
  BY <1>3, <1>4, <1>5 DEF KeepInv

\* What a task at work knows, in one worker.
LEMMA AtWork ==
  ASSUME IInv, KeepInv, NEW r \in Requests
  PROVE  /\ thread \in Seq(Comments) /\ local[r] \in Locals /\ TypeInv /\ record \in Records
         /\ Len(thread) \in Nat
         /\ pc[r] \in Working /\ local[r].progress # 0 =>
              /\ local[r].progress \in 1..Len(thread)
              /\ thread[local[r].progress].live
              /\ thread[local[r].progress].by = r
              /\ thread[local[r].progress].body.kind = "progress"
BY LocalOK DEF IInv, TypeInv, KeepInv, OwnInv

\* What the walk finds is still there.
LEMMA FoundThere ==
  ASSUME IInv, KeepInv, NEW r \in Requests, pc[r] = "walking", Candidates(r) # {}
  PROVE  /\ Candidate(r) \in 1..Len(thread) /\ Candidate(r) \in 1..Len(local[r].listed)
         /\ Found(r) \in Bodies
         /\ thread[Candidate(r)] = local[r].listed[Candidate(r)]
         /\ thread[Candidate(r)].body = Found(r)
         /\ thread[Candidate(r)].live
         /\ Found(r).kind = "suggestions"
<1>1. Candidate(r) \in Candidates(r)
  BY CandidateOK DEF IInv
<1>2. /\ Candidate(r) \in local[r].next .. Len(local[r].listed)
      /\ local[r].listed[Candidate(r)].live
      /\ local[r].listed[Candidate(r)].body.kind = "suggestions"
  BY <1>1 DEF Candidates
<1>. QED
  BY <1>2, FoundOK DEF KeepInv, SnapshotInv, Found

\* The common case: the task keeps its variables and ends or goes on working.
LEMMA KeepGoes ==
  ASSUME OneWorker, IInv, KeepInv, NEW r \in Requests,
         NEW state \in States \ {"walking", "removing"}, Goto(r, state),
         LoopFree(r) \/ pc[r] \in Synchronous,
         \A c \in 1..Len(thread) :
           thread'[c] = thread[c] \/ thread[c].by = r \/ thread[c].body.kind # "progress",
         record.dropped \subseteq record'.dropped, record.lost \subseteq record'.lost,
         Keeps,
         \A t \in Seen(record'.published) : t \in Seen(record.published) \/ Kept(t)',
         state \in Working /\ local[r].progress # 0 => pc[r] \in Working /\ UNCHANGED thread
  PROVE  KeepInv'
<1>1. local[r] \in Locals
  BY LocalOK
<1>2. GotoWith(r, state, local[r])
  BY DEF Goto
<1>3. state \in Working /\ local[r].progress # 0 =>
        /\ thread'[local[r].progress].live
        /\ thread'[local[r].progress].by = r
        /\ thread'[local[r].progress].body.kind = "progress"
  BY AtWork
<1>. QED
  BY <1>1, <1>2, <1>3, KeepStep

\* A thread that no step touches keeps its tables.
LEMMA SameKeeps ==
  ASSUME IInv, UNCHANGED thread
  PROVE  Keeps
<1>1. Len(thread) \in Nat /\ thread \in Seq(Comments)
  BY LenProperties DEF IInv, TypeInv
<1>. QED
  BY <1>1, SameThreadOK, AddKeeps

\* A comment that is published.
LEMMA PublishKeeps ==
  ASSUME IInv, NEW r \in Requests, NEW b \in Bodies, Publish(r, b)
  PROVE  /\ Keeps
         /\ Len(thread') = Len(thread) + 1
         /\ thread'[Len(thread')] = Comment(r, b)
         /\ \A c \in 1..Len(thread) : thread'[c] = thread[c]
<1>1. thread \in Seq(Comments) /\ Len(thread) \in Nat
  BY LenProperties DEF IInv, TypeInv
<1>. QED
  BY <1>1, PublishOK, AddKeeps

\* A comment that shows no suggestions is edited or deleted.
LEMMA NoticeKeeps ==
  ASSUME IInv, NEW c \in 1..Len(thread), thread[c].body.kind # "suggestions",
         (\E b \in Bodies : Rewrite(c, b)) \/ Removed(c)
  PROVE  /\ Keeps
         /\ \A d \in 1..Len(thread) : d # c => thread'[d] = thread[d]
<1>1. thread \in Seq(Comments)
  BY DEF IInv, TypeInv
<1>2. /\ Len(thread') = Len(thread)
      /\ \A d \in 1..Len(thread) : d # c => thread'[d] = thread[d]
  BY <1>1, RewriteIs, RemoveIs
<1>. QED
  BY <1>2, EditKeeps

\* The steps that touch no table.
LEMMA QuietKeep ==
  ASSUME OneWorker, IInv, KeepInv, NEW r \in Requests,
         \/ \E auto \in Modes : Begin(r, auto)
         \/ Predict(r) \/ TellNone(r) \/ List(r) \/ Recover(r)
  PROVE  KeepInv'
<1>1. /\ thread \in Seq(Comments) /\ local[r] \in Locals /\ TypeInv /\ record \in Records
      /\ Len(thread) \in Nat
      /\ pc[r] \in Working /\ local[r].progress # 0 =>
           /\ local[r].progress \in 1..Len(thread)
           /\ thread[local[r].progress].live
           /\ thread[local[r].progress].by = r
           /\ thread[local[r].progress].body.kind = "progress"
  BY AtWork
<1>2. /\ {"failed", "waiting", "failing", "done", "walking", "appending", "telling",
          "publishing"} \subseteq States
      /\ {"failed", "done"} \cap Working = {}
  BY DEF States, Synchronous, Ended, Working
<1>3. Progress \in Bodies /\ NoSuggestions \in Bodies /\ Failed \in Bodies
  BY BodiesOK
<1>4. ASSUME NEW auto \in Modes, Begin(r, auto) PROVE KeepInv'
  <2>1. record' = record /\ pc[r] = "idle" /\ LoopFree(r)
    BY <1>4 DEF Begin
  <2>2. local[r].progress = 0
    BY <2>1 DEF IInv, ProgressInv
  <2>3. CASE /\ UNCHANGED thread
             /\ \E state \in {"failed", "waiting", "failing"} : Goto(r, state)
    <3>1. PICK state \in {"failed", "waiting", "failing"} : Goto(r, state)
      BY <2>3
    <3>2. state \in States \ {"walking", "removing"}
      BY <1>2
    <3>. QED
      BY <2>1, <2>2, <2>3, <3>1, <3>2, SameKeeps, KeepGoes
  <2>4. CASE /\ Publish(r, Progress)
             /\ GotoWith(r, "waiting", [local[r] EXCEPT !.progress = Len(thread) + 1])
    <3> DEFINE locals == [local[r] EXCEPT !.progress = Len(thread) + 1]
    <3>1. /\ Keeps
          /\ Len(thread') = Len(thread) + 1
          /\ thread'[Len(thread')] = Comment(r, Progress)
          /\ \A c \in 1..Len(thread) : thread'[c] = thread[c]
      BY <1>3, <2>4, PublishKeeps
    <3>2. locals \in Locals /\ locals.progress = Len(thread) + 1
      BY <1>1 DEF Locals
    <3>3. GotoWith(r, "waiting", locals)
      BY <2>4
    <3>4. /\ thread'[locals.progress].live
          /\ thread'[locals.progress].by = r
          /\ thread'[locals.progress].body.kind = "progress"
      BY <3>1, <3>2 DEF Comment, Progress, Body
    <3> HIDE DEF locals
    <3>. QED
      BY <1>2, <2>1, <3>1, <3>2, <3>3, <3>4, KeepStep
  <2>. QED
    BY <1>4, <2>3, <2>4 DEF Begin
<1>5. ASSUME Predict(r) PROVE KeepInv'
  <2>1. PICK o \in Outcomes : GotoWith(r, After(o), [local[r] EXCEPT !.outcome = o])
    BY <1>5 DEF Predict
  <2> DEFINE locals == [local[r] EXCEPT !.outcome = o]
  <2>2. record' = record /\ thread' = thread /\ pc[r] \in Working /\ LoopFree(r)
    BY <1>5 DEF Predict, Working
  <2>3. After(o) \in {"telling", "failing", "publishing"}
    BY DEF After
  <2>4. o \in OutcomeKinds
    BY ImproveSessionAssumption
  <2>5. locals \in Locals /\ locals.progress = local[r].progress
    BY <1>1, <2>4 DEF Locals
  <2>6. GotoWith(r, After(o), locals)
    BY <2>1
  <2>7. After(o) \in States /\ After(o) \notin {"walking", "removing"}
    BY <1>2, <2>3
  <2> HIDE DEF locals
  <2>. QED
    BY <1>1, <2>2, <2>5, <2>6, <2>7, SameKeeps, KeepStep
<1>6. ASSUME TellNone(r) PROVE KeepInv'
  <2>1. pc[r] \in Synchronous /\ pc[r] \in Working
    BY <1>6 DEF TellNone, Synchronous, Working
  <2>2. PICK state \in {"done", "failing"} :
          Goto(r, state) /\ (state = "failing" => local[r].progress = 0)
    BY <1>6 DEF TellNone
  <2>3. /\ record'.published = record.published /\ record'.dropped = record.dropped
        /\ record'.lost = record.lost
    BY <1>1, <1>6 DEF TellNone, Refused, Records
  <2>4. /\ Keeps
        /\ \A c \in 1..Len(thread) : thread'[c] = thread[c] \/ thread[c].by = r
    <3>1. CASE local[r].progress # 0 /\ Rewrite(local[r].progress, NoSuggestions)
      BY <1>1, <1>3, <2>1, <3>1, NoticeKeeps
    <3>2. CASE Publish(r, NoSuggestions)
      BY <1>3, <3>2, PublishKeeps
    <3>. QED
      BY <1>6, <3>1, <3>2, SameKeeps DEF TellNone
  <2>5. state \in States \ {"walking", "removing"}
    BY <1>2
  <2>. QED
    BY <1>2, <2>1, <2>2, <2>3, <2>4, <2>5, KeepGoes
<1>7. ASSUME List(r) PROVE KeepInv'
  <2>1. record' = record /\ thread' = thread /\ pc[r] \in Working /\ pc[r] \in Synchronous
    BY <1>7 DEF List, Working, Synchronous
  <2>2. CASE GotoWith(r, "walking", [local[r] EXCEPT !.listed = thread])
    <3> DEFINE locals == [local[r] EXCEPT !.listed = thread]
    <3>1. locals \in Locals /\ locals.listed = thread /\ locals.progress = local[r].progress
      BY <1>1 DEF Locals
    <3>2. GotoWith(r, "walking", locals)
      BY <2>2
    <3> HIDE DEF locals
    <3>. QED
      BY <1>1, <1>2, <2>1, <3>1, <3>2, SameKeeps, KeepStep
  <2>3. CASE Goto(r, "appending")
    BY <1>2, <2>1, <2>3, SameKeeps, KeepGoes
  <2>. QED
    BY <1>7, <2>2, <2>3 DEF List
<1>8. ASSUME Recover(r) PROVE KeepInv'
  <2>1. pc[r] \in Synchronous /\ pc[r] \in Working /\ Goto(r, "failed")
    BY <1>8 DEF Recover, Synchronous, Working
  <2>2. /\ record'.published = record.published /\ record'.dropped = record.dropped
        /\ record'.lost = record.lost
    BY <1>1, <1>8 DEF Recover, Refused, Records
  <2>3. /\ Keeps
        /\ \A c \in 1..Len(thread) : thread'[c] = thread[c] \/ thread[c].by = r
    <3>1. CASE local[r].progress # 0 /\ Removed(local[r].progress)
      BY <1>1, <2>1, <3>1, NoticeKeeps
    <3>2. CASE Publish(r, Failed)
      BY <1>3, <3>2, PublishKeeps
    <3>. QED
      BY <1>8, <3>1, <3>2, SameKeeps DEF Recover, Removed
  <2>. QED
    BY <1>2, <2>1, <2>2, <2>3, KeepGoes
<1>. QED
  BY <1>4, <1>5, <1>6, <1>7, <1>8

\* A table that a comment is to show is shown, and recorded.
LEMMA TableKept ==
  ASSUME TypeInv, NEW r \in Requests, NEW dropped \in SUBSET Requests,
         Published(r, dropped), NEW c \in 1..Len(thread'), thread'[c].live,
         NEW b \in Bodies, thread'[c].body = b, b.kind = "suggestions",
         b.latest.table = Table(r)
  PROVE  \A t \in Seen(record'.published) : t \in Seen(record.published) \/ Kept(t)'
<1>1. CASE Table(r) = None
  <2>1. record'.published = record.published
    BY <1>1 DEF Published, TypeInv, Records
  <2>. QED
    BY <2>1
<1>2. CASE Table(r) # None
  <2>1. Table(r) = r
    BY <1>2 DEF Table
  <2>2. record'.published = record.published \/ Publishes(r)
    BY PublishedIs
  <2>3. r \in Tables(b)
    BY <1>2, <2>1, TablesAre
  <2>4. Kept(r)'
    BY <2>3 DEF Kept
  <2>5. Seen(record'.published) \subseteq Seen(record.published) \cup {r}
    <3> DEFINE p == record.published
               q == record'.published
    <3>1. p \in Seq(Requests)
      BY DEF TypeInv, Records
    <3>2. q = p \/ q = Append(p, r)
      BY <2>2 DEF Publishes
    <3> HIDE DEF p, q
    <3>3. ASSUME q = Append(p, r) PROVE Seen(q) \subseteq Seen(p) \cup {r}
      <4>1. /\ DOMAIN q = 1..(Len(p) + 1) /\ DOMAIN p = 1..Len(p) /\ Len(p) \in Nat
            /\ \A i \in 1..Len(p) : q[i] = p[i]
            /\ q[Len(p) + 1] = r
        BY <3>1, <3>3, LenProperties, AppendProperties
      <4>2. ASSUME NEW i \in DOMAIN q PROVE q[i] \in Seen(p) \cup {r}
        <5>1. CASE i = Len(p) + 1
          BY <4>1, <5>1
        <5>2. CASE i # Len(p) + 1
          <6>1. i \in 1..Len(p)
            BY <4>1, <5>2
          <6>. QED
            BY <4>1, <6>1 DEF Seen
        <5>. QED
          BY <5>1, <5>2
      <4>. QED
        BY <4>2 DEF Seen
    <3>4. Seen(q) \subseteq Seen(p) \cup {r}
      BY <3>2, <3>3
    <3>. QED
      BY <3>4 DEF p, q
  <2>. QED
    BY <2>4, <2>5
<1>. QED
  BY <1>1, <1>2

\* What is merged under a new table is shown below it, or was dropped.
LEMMA MergedTables ==
  ASSUME NEW b \in Bodies, NEW t \in Requests \cup {None},
         NEW new, new = Body("suggestions", Section(t, TRUE), Older(b))
  PROVE  /\ new \in Bodies /\ new.kind = "suggestions" /\ new.latest.table = t
         /\ Tables(b) \subseteq
              (TablesOf(b.older) \ TablesOf(Trimmed(b.older))) \cup Tables(new)
<1> DEFINE older == new.older
           dropped == TablesOf(b.older) \ TablesOf(Trimmed(b.older))
<1>1. new \in Bodies /\ older = Older(b) /\ new.latest.table = t /\ new.kind = "suggestions"
  BY OlderOK DEF Body, Section
<1>2. dropped = TablesOf(b.older) \ TablesOf(Trimmed(b.older))
  OBVIOUS
<1> HIDE DEF older, dropped
<1>3. /\ 1 \in 1..Len(older) /\ older[1] = b.latest
      /\ \A i \in 1..Len(b.older) :
           \/ b.older[i].table \in {None} \cup dropped
           \/ \E j \in 1..Len(older) : older[j].table = b.older[i].table
  <2>1. /\ 1 \in 1..Len(older) /\ older[1] = b.latest
        /\ \A i \in 1..Len(b.older) :
             \/ b.older[i].table \in
                  {None} \cup (TablesOf(b.older) \ TablesOf(Trimmed(b.older)))
             \/ \E j \in 1..Len(older) : older[j].table = b.older[i].table
    BY <1>1, OlderIs
  <2>. QED
    BY <2>1 DEF dropped
<1>4. Tables(b) = ({b.latest.table} \cup {b.older[i].table : i \in 1..Len(b.older)}) \ {None}
  BY TablesAre
<1>5. Tables(new) = ({t} \cup {older[i].table : i \in 1..Len(older)}) \ {None}
  BY <1>1, TablesAre DEF older
<1>6. ASSUME NEW u \in Tables(b) PROVE u \in dropped \cup Tables(new)
  <2>1. CASE u = b.latest.table
    BY <1>3, <1>4, <1>5, <2>1
  <2>2. CASE u # b.latest.table
    <3>1. PICK i \in 1..Len(b.older) : u = b.older[i].table
      BY <1>4, <2>2
    <3>2. u # None
      BY <1>4
    <3>. QED
      BY <1>3, <1>5, <3>1, <3>2
  <2>. QED
    BY <2>1, <2>2
<1>. QED
  BY <1>1, <1>2, <1>6

\* A comment without suggestions is filled.
LEMMA RefillKeep ==
  ASSUME OneWorker, IInv, KeepInv, NEW r \in Requests, Refill(r)
  PROVE  KeepInv'
<1> DEFINE locals == [local[r] EXCEPT !.next = Candidate(r) + 1]
           new == Body("suggestions", Section(Table(r), FALSE), <<>>)
<1>1. /\ pc[r] = "walking" /\ pc[r] \in Synchronous /\ pc[r] \in Working
      /\ Candidates(r) # {}
      /\ ~HasHistory(Found(r)) /\ ~HasTable(Found(r))
      /\ GotoWith(r, "walking", locals)
  BY DEF Refill, Synchronous, Working
<1>2. /\ Candidate(r) \in 1..Len(thread) /\ Candidate(r) \in 1..Len(local[r].listed)
      /\ Found(r) \in Bodies
      /\ thread[Candidate(r)] = local[r].listed[Candidate(r)]
      /\ thread[Candidate(r)].body = Found(r)
      /\ thread[Candidate(r)].live
      /\ Found(r).kind = "suggestions"
  BY <1>1, FoundThere
<1>3. /\ thread \in Seq(Comments) /\ local[r] \in Locals /\ TypeInv /\ record \in Records
      /\ Len(thread) \in Nat
      /\ local[r].progress # 0 =>
           /\ local[r].progress \in 1..Len(thread)
           /\ thread[local[r].progress].live
           /\ thread[local[r].progress].by = r
           /\ thread[local[r].progress].body.kind = "progress"
  BY <1>1, AtWork
<1>4. /\ locals \in Locals
      /\ locals.progress = local[r].progress
      /\ locals.listed = local[r].listed
      /\ locals.next = Candidate(r) + 1
  BY <1>2, <1>3 DEF Locals
<1>5. Tables(Found(r)) = {}
  <2>1. Found(r).latest.table = None /\ Found(r).older = <<>>
    BY <1>1 DEF HasTable, HasHistory
  <2>2. Len(Found(r).older) = 0
    BY <2>1, EmptySeq
  <2>. QED
    BY <1>2, <2>1, <2>2, TablesAre
<1>6. /\ local[r].next \in Nat /\ Len(local[r].listed) \in Nat
      /\ \A c \in local[r].next .. Len(local[r].listed) : thread[c] = local[r].listed[c]
      /\ Candidate(r) \in local[r].next .. Len(local[r].listed)
      /\ Len(local[r].listed) <= Len(thread)
  BY <1>1, <1>3, CandidateOK, LocalOK, LenProperties
     DEF KeepInv, SnapshotInv, Locals, Candidates
<1>7. "walking" \in States
  BY DEF States, Synchronous
<1>8. CASE Rewrite(Candidate(r), new) /\ Published(r, {})
  <2>1. new \in Bodies /\ new.kind = "suggestions" /\ new.latest.table = Table(r)
    BY <1>3, TableOK, BodiesOK DEF Body, Section
  <2> HIDE DEF new
  <2>2. /\ Len(thread') = Len(thread)
        /\ \A d \in 1..Len(thread) : d # Candidate(r) => thread'[d] = thread[d]
        /\ thread'[Candidate(r)].live
        /\ thread'[Candidate(r)].body = new
    BY <1>2, <1>3, <1>8, RewriteIs
  <2>3. Keeps
    BY <1>2, <1>5, <2>2, EditKeeps
  <2>4. {} \in SUBSET Requests
    OBVIOUS
  <2>5. \A t \in Seen(record'.published) : t \in Seen(record.published) \/ Kept(t)'
    BY <1>2, <1>3, <1>8, <2>1, <2>2, <2>4, TableKept
  <2>6. record'.dropped = record.dropped /\ record'.lost = record.lost
    BY <1>3, <1>8, <2>4, PublishedIs
  <2>7. \A c \in locals.next .. Len(locals.listed) : thread'[c] = locals.listed[c]
    BY <1>2, <1>4, <1>6, <2>2
  <2>8. locals.progress # 0 => thread'[locals.progress] = thread[locals.progress]
    BY <1>2, <1>3, <1>4, <2>2
  <2> HIDE DEF locals
  <2>9. \A c \in 1..Len(thread) : thread'[c] = thread[c] \/ thread[c].body.kind # "progress"
    BY <1>2, <2>2
  <2>. QED
    BY <1>1, <1>3, <1>4, <1>7, <2>3, <2>5, <2>6, <2>7, <2>8, <2>9, KeepStep
<1>9. CASE UNCHANGED <<thread, record>>
  <2>1. \A c \in locals.next .. Len(locals.listed) : thread[c] = locals.listed[c]
    BY <1>2, <1>4, <1>6
  <2> HIDE DEF locals
  <2>. QED
    BY <1>1, <1>3, <1>4, <1>7, <1>9, <2>1, SameKeeps, KeepStep
<1>. QED
  BY <1>8, <1>9 DEF Refill

\* An earlier comment's history is merged.
LEMMA MergeKeep ==
  ASSUME OneWorker, IInv, KeepInv, NEW r \in Requests, Merge(r)
  PROVE  KeepInv'
<1> DEFINE found == Found(r)
           old == Candidate(r)
           new == Body("suggestions", Section(Table(r), TRUE), Older(Found(r)))
           dropped == TablesOf(Found(r).older) \ TablesOf(Trimmed(Found(r).older))
<1>1. /\ pc[r] = "walking" /\ pc[r] \in Synchronous /\ pc[r] \in Working
      /\ Candidates(r) # {}
  BY DEF Merge, Synchronous, Working
<1>2. /\ old \in 1..Len(thread)
      /\ found \in Bodies
      /\ thread[old].body = found
      /\ thread[old].live
      /\ found.kind = "suggestions"
  BY <1>1, FoundThere
<1>3. /\ thread \in Seq(Comments) /\ local[r] \in Locals /\ TypeInv /\ record \in Records
      /\ Len(thread) \in Nat
      /\ local[r].progress # 0 =>
           /\ local[r].progress \in 1..Len(thread)
           /\ thread[local[r].progress].live
           /\ thread[local[r].progress].by = r
           /\ thread[local[r].progress].body.kind = "progress"
  BY <1>1, AtWork
<1>4. /\ new \in Bodies /\ new.kind = "suggestions" /\ new.latest.table = Table(r)
      /\ Tables(found) \subseteq dropped \cup Tables(new)
  BY <1>2, <1>3, TableOK, MergedTables
<1>5. dropped \in SUBSET Requests
  BY <1>2, BodyParts, TablesOK
<1>6. /\ "done" \in States \ {"walking", "removing"} /\ "done" \notin Working
      /\ "removing" \in States /\ "removing" \notin Working
  BY DEF States, Synchronous, Ended, Working
<1>7. GotoWith(r, IF local[r].progress = 0 THEN "done" ELSE "removing", local[r])
  BY DEF Merge, Goto
<1>8. ASSUME Published(r, dropped), local[r].progress = 0, Rewrite(old, new)
      PROVE  KeepInv'
  <2> HIDE DEF new, old, dropped, found
  <2>1. /\ Len(thread') = Len(thread)
        /\ \A d \in 1..Len(thread) : d # old => thread'[d] = thread[d]
        /\ thread'[old].live
        /\ thread'[old].body = new
    BY <1>2, <1>3, <1>8, RewriteIs
  <2>2. record'.dropped = record.dropped \cup dropped /\ record'.lost = record.lost
    BY <1>3, <1>5, <1>8, PublishedIs
  <2>3. ASSUME NEW t \in Tables(thread[old].body) PROVE Kept(t)'
    <3>1. t \in dropped \cup Tables(new)
      BY <1>2, <1>4, <2>3
    <3>2. old \in 1..Len(thread')
      BY <1>2, <2>1
    <3>. QED
      BY <1>4, <2>1, <2>2, <3>1, <3>2 DEF Kept
  <2>4. Keeps
    BY <1>2, <2>1, <2>3, EditKeeps
  <2>5. \A t \in Seen(record'.published) : t \in Seen(record.published) \/ Kept(t)'
    BY <1>2, <1>3, <1>4, <1>5, <1>8, <2>1, TableKept
  <2>6. \A c \in 1..Len(thread) : thread'[c] = thread[c] \/ thread[c].body.kind # "progress"
    BY <1>2, <2>1
  <2>7. Goto(r, "done")
    BY <1>7, <1>8 DEF Goto
  <2>. QED
    BY <1>1, <1>6, <2>2, <2>4, <2>5, <2>6, <2>7, KeepGoes
<1>9. ASSUME Published(r, dropped), local[r].progress # 0, Rewrite(local[r].progress, new)
      PROVE  KeepInv'
  <2> DEFINE c == local[r].progress
  <2>1. c = local[r].progress /\ c \in 1..Len(thread) /\ old # c
    BY <1>2, <1>3, <1>9
  <2>2. old = Candidate(r) /\ found = Found(r)
    OBVIOUS
  <2> HIDE DEF new, old, dropped, found, c
  <2>3. /\ Len(thread') = Len(thread)
        /\ \A d \in 1..Len(thread) : d # c => thread'[d] = thread[d]
        /\ thread'[c].live
        /\ thread'[c].body = new
    BY <1>3, <1>9, <2>1, RewriteIs
  <2>4. record'.dropped = record.dropped \cup dropped /\ record'.lost = record.lost
    BY <1>3, <1>5, <1>9, PublishedIs
  <2>5. Keeps
    BY <1>3, <1>9, <2>1, <2>3, EditKeeps
  <2>6. \A t \in Seen(record'.published) : t \in Seen(record.published) \/ Kept(t)'
    BY <1>3, <1>4, <1>5, <1>9, <2>1, <2>3, TableKept
  <2>7. \A d \in 1..Len(thread) : thread'[d] = thread[d] \/ thread[d].by = r
    BY <1>3, <1>9, <2>1, <2>3
  <2>8. thread'[old].body = found
    BY <1>2, <2>1, <2>3
  <2>9. /\ c \in 1..Len(thread') \ {old}
        /\ thread'[c].live /\ thread'[c].body.kind = "suggestions"
        /\ Tables(found) \subseteq record'.dropped \cup Tables(thread'[c].body)
    BY <1>4, <2>1, <2>3, <2>4
  <2>10. GotoWith(r, "removing", local[r])
    BY <1>7, <1>9
  <2>11. /\ thread'[Candidate(r)].body = Found(r)
         /\ local[r].progress \in 1..Len(thread') \ {Candidate(r)}
         /\ thread'[local[r].progress].live
         /\ thread'[local[r].progress].body.kind = "suggestions"
         /\ Tables(Found(r)) \subseteq
              record'.dropped \cup Tables(thread'[local[r].progress].body)
    BY <2>1, <2>2, <2>8, <2>9
  <2>. QED
    BY <1>1, <1>3, <1>6, <2>4, <2>5, <2>6, <2>7, <2>10, <2>11, KeepStep
<1>10. ASSUME Refused(r), UNCHANGED thread PROVE KeepInv'
  <2>1. /\ record'.published = record.published /\ record'.dropped = record.dropped
        /\ record'.lost = record.lost /\ r \in record'.refused
    BY <1>3, <1>10 DEF Refused, Records
  <2>2. Keeps
    BY <1>10, SameKeeps
  <2>3. CASE local[r].progress = 0
    <3>1. Goto(r, "done")
      BY <1>7, <2>3 DEF Goto
    <3>. QED
      BY <1>1, <1>6, <1>10, <2>1, <2>2, <3>1, KeepGoes
  <2>4. CASE local[r].progress # 0
    <3>1. GotoWith(r, "removing", local[r])
      BY <1>7, <2>4
    <3>2. thread'[Candidate(r)].body = Found(r)
      BY <1>2, <1>10
    <3>. QED
      BY <1>1, <1>3, <1>6, <1>10, <2>1, <2>2, <3>1, <3>2, KeepStep
  <2>. QED
    BY <2>3, <2>4
<1>. QED
  BY <1>8, <1>9, <1>10 DEF Merge

\* The comment that was merged is deleted.
LEMMA RemoveOldKeep ==
  ASSUME OneWorker, IInv, KeepInv, NEW r \in Requests, RemoveOld(r)
  PROVE  KeepInv'
<1>1. pc[r] = "removing" /\ pc[r] \in Synchronous /\ Goto(r, "done")
  BY DEF RemoveOld, Synchronous
<1>2. /\ thread \in Seq(Comments) /\ record \in Records
      /\ Candidate(r) \in 1..Len(thread) /\ Found(r) \in Bodies
  BY <1>1, FoundOK, AtWork DEF IInv, BoundInv
<1>3. "done" \in States \ {"walking", "removing"} /\ "done" \notin Working
  BY DEF States, Synchronous, Ended, Working
<1>4. /\ thread[Candidate(r)].body = Found(r)
      /\ r \notin record.refused =>
           /\ local[r].progress \in 1..Len(thread) \ {Candidate(r)}
           /\ thread[local[r].progress].live
           /\ thread[local[r].progress].body.kind = "suggestions"
           /\ Tables(Found(r)) \subseteq
                record.dropped \cup Tables(thread[local[r].progress].body)
  BY <1>1 DEF KeepInv, SnapshotInv
<1>5. Found(r).kind = "suggestions"
  <2>1. Candidate(r) \in Candidates(r)
    BY <1>1, CandidateOK DEF IInv, BoundInv
  <2>. QED
    BY <2>1 DEF Candidates, Found
<1>6. CASE /\ Removed(Candidate(r))
           /\ record' = [record EXCEPT !.lost =
                IF r \in record.refused THEN @ \cup Tables(Found(r)) ELSE @]
  <2>1. /\ Len(thread') = Len(thread)
        /\ \A d \in 1..Len(thread) : d # Candidate(r) => thread'[d] = thread[d]
    BY <1>2, <1>6, RemoveIs
  <2>2. /\ record'.published = record.published /\ record'.dropped = record.dropped
        /\ record'.lost = IF r \in record.refused THEN record.lost \cup Tables(Found(r))
                          ELSE record.lost
    BY <1>2, <1>6 DEF Records
  <2>3. ASSUME NEW t \in Tables(Found(r)) PROVE Kept(t)'
    <3>1. CASE r \in record.refused
      BY <2>2, <2>3, <3>1 DEF Kept
    <3>2. CASE r \notin record.refused
      <4> DEFINE c == local[r].progress
      <4>1. /\ c \in 1..Len(thread) \ {Candidate(r)}
            /\ thread[c].live /\ thread[c].body.kind = "suggestions"
            /\ t \in record.dropped \cup Tables(thread[c].body)
        BY <1>4, <2>3, <3>2
      <4> HIDE DEF c
      <4>2. c \in 1..Len(thread') /\ thread'[c] = thread[c]
        BY <2>1, <4>1
      <4>. QED
        BY <2>2, <4>1, <4>2 DEF Kept
    <3>. QED
      BY <3>1, <3>2
  <2>4. Keeps
    BY <1>2, <1>4, <2>1, <2>3, EditKeeps
  <2>5. \A c \in 1..Len(thread) : thread'[c] = thread[c] \/ thread[c].body.kind # "progress"
    BY <1>2, <1>4, <1>5, <2>1
  <2>. QED
    BY <1>1, <1>3, <2>2, <2>4, <2>5, KeepGoes
<1>7. CASE UNCHANGED <<thread, record>>
  BY <1>1, <1>3, <1>7, SameKeeps, KeepGoes
<1>. QED
  BY <1>6, <1>7 DEF RemoveOld, Removed

\* No earlier comment was found: a first table is published.
LEMMA PublishNewKeep ==
  ASSUME OneWorker, IInv, KeepInv, NEW r \in Requests, PublishNew(r)
  PROVE  KeepInv'
<1> DEFINE new == Body("suggestions", Section(Table(r), TRUE), <<>>)
<1>1. pc[r] \in Synchronous /\ pc[r] \in Working
  BY DEF PublishNew, Synchronous, Working
<1>2. /\ thread \in Seq(Comments) /\ TypeInv /\ record \in Records
      /\ Len(thread) \in Nat
      /\ local[r].progress # 0 =>
           /\ local[r].progress \in 1..Len(thread)
           /\ thread[local[r].progress].live
           /\ thread[local[r].progress].by = r
           /\ thread[local[r].progress].body.kind = "progress"
  BY <1>1, AtWork
<1>3. /\ new \in Bodies /\ new.kind = "suggestions" /\ new.latest.table = Table(r)
  BY <1>2, TableOK, BodiesOK DEF Body, Section
<1>4. PICK state \in {"done", "failing"} :
        Goto(r, state) /\ (state = "failing" => local[r].progress = 0)
  BY DEF PublishNew
<1>5. state \in States \ {"walking", "removing"} /\ "done" \notin Working
  BY DEF States, Synchronous, Ended, Working
<1>6. {} \in SUBSET Requests
  OBVIOUS
<1>7. CASE /\ local[r].progress # 0
           /\ Rewrite(local[r].progress, new) /\ Published(r, {})
  <2> HIDE DEF new
  <2>1. /\ Len(thread') = Len(thread)
        /\ \A d \in 1..Len(thread) : d # local[r].progress => thread'[d] = thread[d]
        /\ thread'[local[r].progress].live
        /\ thread'[local[r].progress].body = new
    BY <1>2, <1>7, RewriteIs
  <2>2. record'.dropped = record.dropped /\ record'.lost = record.lost
    BY <1>2, <1>6, <1>7, PublishedIs
  <2>3. Keeps
    BY <1>2, <1>7, <2>1, EditKeeps
  <2>4. local[r].progress \in 1..Len(thread')
    BY <1>2, <1>7, <2>1
  <2>5. \A t \in Seen(record'.published) : t \in Seen(record.published) \/ Kept(t)'
    BY <1>2, <1>3, <1>6, <1>7, <2>1, <2>4, TableKept
  <2>6. \A c \in 1..Len(thread) : thread'[c] = thread[c] \/ thread[c].by = r
    BY <1>2, <1>7, <2>1
  <2>. QED
    BY <1>1, <1>4, <1>5, <1>7, <2>2, <2>3, <2>5, <2>6, KeepGoes
<1>8. CASE local[r].progress = 0 /\ Publish(r, new) /\ Published(r, {})
  <2> HIDE DEF new
  <2>1. /\ Keeps
        /\ Len(thread') = Len(thread) + 1
        /\ thread'[Len(thread')] = Comment(r, new)
        /\ \A c \in 1..Len(thread) : thread'[c] = thread[c]
    BY <1>3, <1>8, PublishKeeps
  <2>2. record'.dropped = record.dropped /\ record'.lost = record.lost
    BY <1>2, <1>6, <1>8, PublishedIs
  <2> DEFINE c == Len(thread')
  <2>3. c \in 1..Len(thread') /\ thread'[c].live /\ thread'[c].body = new
    BY <1>2, <2>1 DEF Comment
  <2> HIDE DEF c
  <2>4. \A t \in Seen(record'.published) : t \in Seen(record.published) \/ Kept(t)'
    BY <1>2, <1>3, <1>6, <1>8, <2>3, TableKept
  <2>. QED
    BY <1>1, <1>4, <1>5, <1>8, <2>1, <2>2, <2>4, KeepGoes
<1>9. CASE (Refused(r) \/ UNCHANGED record) /\ UNCHANGED thread
  <2>1. /\ record'.published = record.published /\ record'.dropped = record.dropped
        /\ record'.lost = record.lost
    BY <1>2, <1>9 DEF Refused, Records
  <2>. QED
    BY <1>1, <1>4, <1>5, <1>9, <2>1, SameKeeps, KeepGoes
<1>. QED
  BY <1>7, <1>8, <1>9 DEF PublishNew

\* There is nothing to keep at first.
LEMMA InitKeep == Init => KeepInv
<1> SUFFICES ASSUME Init PROVE KeepInv
  OBVIOUS
<1>1. \A r \in Requests : pc[r] = "idle"
  BY DEF Init
<1>2. OwnInv /\ SnapshotInv
  BY <1>1 DEF OwnInv, SnapshotInv, Working
<1>3. DOMAIN record.published = {}
  BY EmptySeq DEF Init
<1>. QED
  BY <1>2, <1>3 DEF KeepInv, KeptInv, Seen

\* Every step of one worker keeps what was published.
LEMMA KeepNext == OneWorker /\ IInv /\ KeepInv /\ [Next]_vars => KeepInv'
<1> SUFFICES ASSUME OneWorker, IInv, KeepInv, [Next]_vars PROVE KeepInv'
  OBVIOUS
<1>1. ASSUME NEW r \in Requests, RequestStep(r) PROVE KeepInv'
  BY <1>1, QuietKeep, RefillKeep, MergeKeep, RemoveOldKeep, PublishNewKeep DEF RequestStep
<1>2. CASE UNCHANGED vars
  <2>1. OwnInv'
    BY <1>2 DEF vars, KeepInv, OwnInv
  <2>2. \A r \in Requests : Candidates(r)' = Candidates(r)
    BY <1>2 DEF vars, Candidates
  <2>3. \A r \in Requests : Candidate(r)' = Candidate(r)
    BY <2>2 DEF Candidate
  <2>4. \A r \in Requests : Found(r)' = Found(r)
    BY <1>2, <2>3 DEF vars, Found
  <2>5. SnapshotInv'
    BY <1>2, <2>3, <2>4 DEF vars, KeepInv, SnapshotInv
  <2>6. KeptInv'
    BY <1>2 DEF vars, KeepInv, KeptInv, Kept
  <2>. QED
    BY <2>1, <2>5, <2>6 DEF KeepInv
<1>. QED
  BY <1>1, <1>2 DEF Next, Quiescent

\* With one worker, suggestions that were published stay in a comment until they
\* are trimmed, however many requests merge, fill and move them and whichever
\* calls fail, but for the deletion after a refused edit
\* (pr_code_suggestions.py:229-338).
THEOREM NothingLostHolds == ASSUME OneWorker PROVE Spec => []NothingLost
<1>1. ASSUME IInv, KeepInv PROVE NothingLost
  <2> SUFFICES ASSUME NEW t \in Requests, IsPublished(t),
                      t \notin record.dropped \cup record.lost
               PROVE  \E c \in Suggestions : t \in Tables(thread[c].body)
    BY DEF NothingLost
  <2>1. Kept(t)
    BY <1>1 DEF KeepInv, KeptInv, IsPublished, Seen
  <2>2. DOMAIN thread = 1..Len(thread)
    BY <1>1, LenProperties DEF IInv, TypeInv
  <2>. QED
    BY <2>1, <2>2 DEF Kept, Suggestions
<1>2. IInv /\ KeepInv => NothingLost
  BY <1>1
<1>3. OneWorker' = OneWorker
  BY DEF OneWorker
<1>4. Spec => []KeepInv
  BY IInvAlways, InitKeep, KeepNext, <1>3, PTL DEF Spec
<1>. QED
  BY <1>2, <1>4, IInvAlways, PTL
=============================================================================
