------------------------- MODULE ReviewSessionProofs -------------------------
(***************************************************************************)
(* Proofs about ReviewSession, for any number of requests and workers, any *)
(* labels, and any number of pushes and failures.  OneReview and           *)
(* AnnouncementsTrue are about one worker, which their theorems assume.    *)
(***************************************************************************)
EXTENDS ReviewSession, FiniteSetTheorems, SequenceTheorems, WellFoundedInduction,
        TLAPS

OneWorker == \E w \in Workers : Workers = {w}

States == {"idle", "waiting"} \cup Synchronous \cup Ended

\* Where the task is once it has published its temporary comment, and once it
\* has listed the comments and the commits.
Working == {"waiting", "predicted", "labelling", "publishing", "editing",
            "announcing", "creating", "cleaning"}
Informed == {"skipping", "listed", "waiting", "predicted", "labelling",
             "publishing", "editing", "announcing", "creating"}

\* The labels a task saw are from any time, but the effort label it adds is the
\* only one it keeps.
LabelInv == \A a, b \in labels \cap Efforts : a = b

\* A temporary comment is the one its task knows of, and the task is on its way
\* to delete it, or gave up.
TemporaryInv ==
  /\ \A c \in Live({"temporary"}) :
       LET r == thread[c].by
       IN  /\ local[r].temporary = c
           /\ \/ pc[r] \in Working \cup {"failed", "withheld"}
              \/ pc[r] = "done" /\ r \in history.undeleted
  /\ \A r \in Requests :
       local[r].temporary # 0 => thread[local[r].temporary].kind = "temporary"

\* The comment a task edits, and announces, is a review.
TargetInv ==
  \A r \in Requests :
    pc[r] \in {"editing", "announcing"} =>
      /\ local[r].target \in Live({"review"})
      /\ ~local[r].incremental

\* A persistent review shows what its last editor saw; and a request that
\* makes a full review saw all that those before it saw.
ShowsInv ==
  /\ \A c \in DOMAIN thread : thread[c].kind = "review" =>
       LET q == thread[c].by
       IN  /\ pc[q] \in {"announcing", "creating", "cleaning", "done", "failed"}
           /\ thread[c].shows = local[q].shows
  /\ \A r \in Requests : \A q \in history.before[r] :
       /\ pc[q] \in Ended
       /\ pc[r] \in Informed /\ ~local[r].incremental =>
            local[q].shows \subseteq local[r].shows

\* r wrote its review, or had nothing to write.
Reported(r) ==
  /\ pc[r] \in {"announcing", "cleaning", "done"}
  /\ local[r].outcome \in {"none", "review"}
  /\ r \notin history.unedited

\* The commits that were pushed before a review was published are covered, and
\* so are those that a task which is to publish does not show.
CoverInv ==
  /\ \A i, j \in DOMAIN commits : i <= j => commits[i].pushed <= commits[j].pushed
  /\ \A c \in Live(Reviews) : \A i \in DOMAIN commits :
       commits[i].pushed <= thread[c].created => Covered(i)
  /\ \A r \in Requests : \A i \in DOMAIN commits :
       /\ pc[r] \in Informed \cup {"opened"} /\ i > local[r].upto =>
            i \in history.during
       /\ pc[r] \in Informed => i \in local[r].shows \/ Covered(i)
       /\ pc[r] = "skipping" => local[r].shows = {}
       /\ Reported(r) /\ i <= local[r].upto => Covered(i)

\* In one worker, there is room for the review that a task is to create, and the
\* review it announces is the one it wrote.
ReviewInv ==
  OneWorker =>
    /\ Cardinality(Live({"review"})) <= 1 + history.blind
    /\ \A r \in Requests :
         /\ pc[r] = "creating" /\ ~local[r].incremental =>
              Cardinality(Live({"review"})) <= history.blind
         /\ pc[r] = "announcing" /\ r \notin history.unedited =>
              /\ thread[local[r].target].by = r
              /\ thread[local[r].target].upto = local[r].upto

IInv == /\ TypeOK /\ LabelInv /\ TemporaryInv /\ TargetInv /\ ShowsInv
        /\ CoverInv /\ ReviewInv

-----------------------------------------------------------------------------
(***************************************************************************)
(* Operators.                                                              *)
(***************************************************************************)
LEMMA Least ==
  ASSUME NEW T \in SUBSET Nat, T # {}
  PROVE  \E m \in T : \A k \in T : m <= k
<1> DEFINE R == {ss \in Nat \X Nat : ss[1] < ss[2]}
<1>1. IsWellFoundedOn(R, Nat)
  BY NatLessThanWellFounded DEF OpToRel
<1> HIDE DEF R
<1>2. PICK m \in T : \A k \in T : ~(<<k, m>> \in R)
  BY <1>1, WFMin
<1>3. \A k \in T : ~(k < m)
  BY <1>2 DEF R
<1>. QED
  BY <1>2, <1>3

\* The oldest of some comments is one of them, and so is the newest: its
\* distance to the last one is least.
LEMMA OldestOK ==
  ASSUME NEW n \in Nat, NEW T \in SUBSET (1..n), T # {}
  PROVE  Oldest(T) \in T
<1>1. T \in SUBSET Nat
  OBVIOUS
<1>2. \E m \in T : \A k \in T : m <= k
  BY <1>1, Least
<1>. QED
  BY <1>2 DEF Oldest

LEMMA NewestOK ==
  ASSUME NEW n \in Nat, NEW T \in SUBSET (1..n), T # {}
  PROVE  Newest(T) \in T
<1> DEFINE D == {d \in Nat : n - d \in T}
<1>1. PICK k \in T : TRUE
  OBVIOUS
<1>2. n - k \in Nat /\ n - (n - k) = k
  BY <1>1
<1>3. D \in SUBSET Nat /\ n - k \in D
  BY <1>1, <1>2
<1>4. PICK d \in D : \A e \in D : d <= e
  <2> HIDE DEF D
  <2>. QED
    BY <1>3, Least
<1>5. ASSUME NEW m \in T PROVE m <= n - d
  <2>1. m \in Int /\ n - m \in Nat /\ n - (n - m) = m
    OBVIOUS
  <2>2. d <= n - m /\ d \in Nat
    BY <1>4, <2>1
  <2> HIDE DEF D
  <2>. QED
    BY <2>1, <2>2
<1>6. n - d \in T
  BY <1>4
<1>. QED
  BY <1>5, <1>6 DEF Newest

(***************************************************************************)
(* What a task knows has its type, and so have the comments.               *)
(***************************************************************************)
LEMMA Types ==
  ASSUME TypeOK
  PROVE  /\ Len(thread) \in Nat /\ DOMAIN thread = 1..Len(thread)
         /\ Len(commits) \in Nat \ {0} /\ DOMAIN commits = 1..Len(commits)
         /\ \A c \in DOMAIN thread : thread[c] \in Comments
         /\ \A i \in DOMAIN commits : commits[i] \in CommitTimes
         /\ \A r \in Requests :
              /\ request[r].worker \in Workers /\ request[r].is \in Kinds
              /\ request[r].is.effort \in Efforts /\ request[r].is.auto \in BOOLEAN
              /\ local[r] \in Locals /\ local[r].upto \in Nat
              /\ local[r].target \in Nat /\ local[r].temporary \in Nat
              /\ pc[r] \in States /\ r # None
<1>1. commits \in Seq(CommitTimes) /\ thread \in Seq(Comments)
  BY DEF TypeOK
<1>2. MaxPushes \in Nat /\ Kinds \subseteq [incremental : BOOLEAN, auto : BOOLEAN, effort : Efforts]
      /\ None \notin Requests
  BY ReviewSessionAssumption
<1>3. /\ Len(thread) \in Nat /\ DOMAIN thread = 1..Len(thread)
      /\ Len(commits) \in Nat /\ DOMAIN commits = 1..Len(commits)
  BY <1>1, LenProperties
<1>4. Len(commits) # 0
  BY <1>2 DEF TypeOK, CommitIds
<1>5. \A c \in DOMAIN thread : thread[c] \in Comments
  BY <1>1, <1>3, ElementOfSeq
<1>6. \A i \in DOMAIN commits : commits[i] \in CommitTimes
  BY <1>1, <1>3, ElementOfSeq
<1>7. ASSUME NEW r \in Requests
      PROVE  /\ request[r].worker \in Workers /\ request[r].is \in Kinds
             /\ request[r].is.effort \in Efforts /\ request[r].is.auto \in BOOLEAN
             /\ local[r] \in Locals /\ local[r].upto \in Nat
             /\ local[r].target \in Nat /\ local[r].temporary \in Nat
             /\ pc[r] \in States /\ r # None
  <2>1. request[r].worker \in Workers /\ request[r].is \in Kinds
    BY DEF TypeOK
  <2>2. request[r].is.effort \in Efforts /\ request[r].is.auto \in BOOLEAN
    BY <1>2, <2>1
  <2>3. local[r] \in Locals
    BY DEF TypeOK
  <2>4. local[r].upto \in Nat /\ local[r].target \in Nat /\ local[r].temporary \in Nat
    BY <1>2, <2>3 DEF Locals
  <2>5. pc[r] \in States
    BY DEF TypeOK, States
  <2>. QED
    BY <1>2, <2>1, <2>2, <2>3, <2>4, <2>5
<1>. QED
  BY <1>3, <1>4, <1>5, <1>6, <1>7

\* A call that fails is one of those that may.
LEMMA CallOK ==
  ASSUME TypeOK, Succeed \/ Fail
  PROVE  failures' \in 0..MaxFailures
BY ReviewSessionAssumption DEF TypeOK, Succeed, Fail

-----------------------------------------------------------------------------
(***************************************************************************)
(* What happens to the comments.                                           *)
(***************************************************************************)
\* The comments there were stay where they are, and keep their kind and time.
Kept ==
  /\ thread' \in Seq(Comments)
  /\ Len(thread') \in Nat /\ Len(thread) <= Len(thread')
  /\ DOMAIN thread' = 1..Len(thread')
  /\ clock' \in Nat /\ clock <= clock'
  /\ \A c \in DOMAIN thread' :
       thread'[c].about <= Len(thread') /\ thread'[c].created \in 1..clock'
  /\ \A c \in DOMAIN thread :
       /\ thread'[c].kind = thread[c].kind
       /\ thread'[c].created = thread[c].created
       /\ thread'[c].live => thread[c].live

LEMMA SameKept ==
  ASSUME TypeOK, thread' = thread, clock' = clock
  PROVE  Kept
BY Types DEF TypeOK, Kept

LEMMA PublishKept ==
  ASSUME TypeOK, NEW r \in Requests,
         NEW kind \in Reviews \cup {"temporary", "announcement", "skipped"},
         NEW shows \in SUBSET CommitIds, NEW upto \in 0..(MaxPushes + 1),
         NEW about \in 0..Len(thread),
         Publish(Comment(kind, r, shows, upto, about))
  PROVE  /\ Kept
         /\ Len(thread') = Len(thread) + 1
         /\ \A c \in DOMAIN thread : thread'[c] = thread[c]
         /\ thread'[Len(thread) + 1] = Comment(kind, r, shows, upto, about)
         /\ clock' = clock + 1
         /\ \A kinds : Live(kinds)' =
              IF kind \in kinds THEN Live(kinds) \cup {Len(thread) + 1} ELSE Live(kinds)
<1> DEFINE x == Comment(kind, r, shows, upto, about)
<1>1. clock \in Nat /\ thread \in Seq(Comments)
  BY DEF TypeOK
<1>2. about \in Nat
  BY Types
<1>3. x \in Comments
  BY <1>1, <1>2 DEF Comment, Comments
<1>4. /\ x.kind = kind /\ x.created = clock + 1 /\ x.live = TRUE /\ x.about = about
  BY DEF Comment
<1>5. thread' = Append(thread, x) /\ clock' = clock + 1
  BY DEF Publish
<1>. HIDE DEF x
<1>6. /\ thread' \in Seq(Comments)
      /\ Len(thread') = Len(thread) + 1
      /\ thread'[Len(thread) + 1] = x
      /\ \A c \in 1..Len(thread) : thread'[c] = thread[c]
  BY <1>1, <1>3, <1>5, AppendProperties
<1>7. DOMAIN thread' = 1..Len(thread')
  BY <1>6, LenProperties
<1>8. ASSUME NEW c \in DOMAIN thread'
      PROVE  thread'[c].about <= Len(thread') /\ thread'[c].created \in 1..clock'
  <2>1. CASE c = Len(thread) + 1
    BY <1>1, <1>4, <1>5, <1>6, <2>1, Types
  <2>2. CASE c \in DOMAIN thread
    <3>1. thread[c].about <= Len(thread) /\ thread[c].created \in 1..clock
      BY <2>2 DEF TypeOK
    <3>2. thread[c].about \in Nat
      BY <2>2, Types DEF Comments
    <3>. QED
      BY <1>1, <1>5, <1>6, <2>2, <3>1, <3>2, Types
  <2>. QED
    BY <1>6, <1>7, <2>1, <2>2, Types
<1>9. Kept
  BY <1>1, <1>5, <1>6, <1>7, <1>8, Types DEF Kept
<1>10. ASSUME NEW kinds
       PROVE Live(kinds)' = IF kind \in kinds THEN Live(kinds) \cup {Len(thread) + 1}
                            ELSE Live(kinds)
  BY <1>4, <1>6, <1>7, Types DEF Live
<1>. QED
  BY <1>5, <1>6, <1>9, <1>10, Types DEF x

LEMMA ReplaceOK ==
  ASSUME NEW s \in Seq(Comments), NEW t \in 1..Len(s), NEW x \in Comments,
         NEW new, new = [s EXCEPT ![t] = x]
  PROVE  /\ new \in Seq(Comments)
         /\ Len(new) = Len(s)
         /\ \A c \in 1..Len(s) : new[c] = IF c = t THEN x ELSE s[c]
BY ExceptSeq

\* A review that is edited has another author, commits and header.
LEMMA EditKept ==
  ASSUME TypeOK, NEW r \in Requests, NEW t \in DOMAIN thread, NEW shows \in SUBSET CommitIds,
         NEW upto \in 0..(MaxPushes + 1), clock' = clock,
         thread' = [thread EXCEPT ![t] =
                      [@ EXCEPT !.by = r, !.shows = shows, !.upto = upto]]
  PROVE  /\ Kept
         /\ Len(thread') = Len(thread)
         /\ \A c \in DOMAIN thread \ {t} : thread'[c] = thread[c]
         /\ thread'[t].by = r /\ thread'[t].shows = shows /\ thread'[t].upto = upto
         /\ \A kinds : Live(kinds)' = Live(kinds)
<1> DEFINE x == [thread[t] EXCEPT !.by = r, !.shows = shows, !.upto = upto]
<1>1. clock \in Nat /\ thread \in Seq(Comments) /\ t \in 1..Len(thread)
  BY Types DEF TypeOK
<1>2. thread[t] \in Comments
  BY Types
<1>3. /\ x \in Comments
      /\ x.kind = thread[t].kind /\ x.created = thread[t].created
      /\ x.live = thread[t].live /\ x.about = thread[t].about
      /\ x.by = r /\ x.shows = shows /\ x.upto = upto
  BY <1>2 DEF Comments
<1>4. thread' = [thread EXCEPT ![t] = x]
  OBVIOUS
<1> HIDE DEF x
<1>5. /\ thread' \in Seq(Comments)
      /\ Len(thread') = Len(thread)
      /\ \A c \in 1..Len(thread) : thread'[c] = IF c = t THEN x ELSE thread[c]
  BY <1>1, <1>3, <1>4, ReplaceOK
<1>6. DOMAIN thread' = 1..Len(thread')
  BY <1>5, LenProperties
<1>7. ASSUME NEW c \in DOMAIN thread'
      PROVE  /\ thread'[c].about <= Len(thread') /\ thread'[c].created \in 1..clock'
             /\ thread'[c].kind = thread[c].kind
             /\ thread'[c].created = thread[c].created
             /\ thread'[c].live = thread[c].live
  BY <1>3, <1>5, <1>6, Types DEF TypeOK
<1>8. Kept
  BY <1>1, <1>5, <1>6, <1>7, Types DEF Kept
<1>9. ASSUME NEW kinds PROVE Live(kinds)' = Live(kinds)
  BY <1>5, <1>6, <1>7, Types DEF Live
<1>. QED
  BY <1>3, <1>5, <1>8, <1>9, Types

\* A comment that is deleted is one no more.
Deleted(c) == [c EXCEPT !.live = FALSE]

LEMMA DeleteKept ==
  ASSUME TypeOK, NEW t \in DOMAIN thread, clock' = clock,
         thread' = [thread EXCEPT ![t] = Deleted(thread[t])]
  PROVE  /\ Kept
         /\ Len(thread') = Len(thread)
         /\ \A c \in DOMAIN thread :
              /\ thread'[c].by = thread[c].by
              /\ thread'[c].shows = thread[c].shows
              /\ thread'[c].upto = thread[c].upto
         /\ \A kinds : Live(kinds)' = Live(kinds) \ {t}
<1> DEFINE x == Deleted(thread[t])
<1>1. clock \in Nat /\ thread \in Seq(Comments) /\ t \in 1..Len(thread)
  BY Types DEF TypeOK
<1>2. thread[t] \in Comments
  BY Types
<1>3. /\ x.kind = thread[t].kind /\ x.created = thread[t].created
      /\ x.live = FALSE /\ x.about = thread[t].about
      /\ x.by = thread[t].by /\ x.shows = thread[t].shows /\ x.upto = thread[t].upto
  BY <1>2 DEF Comments, Deleted
<1>10. x \in Comments
  BY <1>2 DEF Comments, Deleted
<1>4. thread' = [thread EXCEPT ![t] = x]
  OBVIOUS
<1> HIDE DEF x
<1>5. /\ thread' \in Seq(Comments)
      /\ Len(thread') = Len(thread)
      /\ \A c \in 1..Len(thread) : thread'[c] = IF c = t THEN x ELSE thread[c]
  BY <1>1, <1>4, <1>10, ReplaceOK
<1>6. DOMAIN thread' = 1..Len(thread')
  BY <1>5, LenProperties
<1>7. ASSUME NEW c \in DOMAIN thread'
      PROVE  /\ thread'[c].about <= Len(thread') /\ thread'[c].created \in 1..clock'
             /\ thread'[c].kind = thread[c].kind
             /\ thread'[c].created = thread[c].created
             /\ thread'[c].live => thread[c].live
             /\ thread'[c].by = thread[c].by
             /\ thread'[c].shows = thread[c].shows
             /\ thread'[c].upto = thread[c].upto
  <2>1. c \in 1..Len(thread) /\ thread[c].about <= Len(thread)
        /\ thread[c].created \in 1..clock
    BY <1>5, <1>6, Types DEF TypeOK
  <2>2. CASE c = t
    BY <1>3, <1>5, <2>1, <2>2
  <2>3. CASE c # t
    BY <1>5, <2>1, <2>3
  <2>. QED
    BY <2>2, <2>3
<1>8. Kept
  BY <1>1, <1>5, <1>6, <1>7, Types DEF Kept
<1>9. ASSUME NEW kinds PROVE Live(kinds)' = Live(kinds) \ {t}
  BY <1>3, <1>5, <1>6, <1>7, Types DEF Live
<1>. QED
  BY <1>5, <1>6, <1>7, <1>8, <1>9, Types

-----------------------------------------------------------------------------
(***************************************************************************)
(* Types.                                                                  *)
(***************************************************************************)
\* A task goes on to a state, with what it now knows.
Goes(r, state, known) ==
  /\ Goto(r, state)
  /\ local' = [local EXCEPT ![r] = known]
  /\ UNCHANGED <<request, commits>>

LEMMA GoesOK ==
  ASSUME TypeOK, NEW r \in Requests, NEW state \in States, NEW known \in Locals,
         Goes(r, state, known)
  PROVE  /\ pc' \in [Requests -> States] /\ local' \in [Requests -> Locals]
         /\ pc'[r] = state /\ local'[r] = known
         /\ \A q \in Requests \ {r} : pc'[q] = pc[q] /\ local'[q] = local[q]
         /\ request' = request /\ commits' = commits
BY DEF TypeOK, States, Goes, Goto

LEMMA TypeStep ==
  ASSUME TypeOK, NEW r \in Requests, NEW state \in States, NEW known \in Locals,
         Goes(r, state, known), LoopFree(r) \/ pc[r] \in Synchronous,
         Kept, labels' \subseteq Efforts \cup {UserLabel},
         Succeed \/ Fail, history' \in Histories,
         known.upto <= Len(commits), known.shows \subseteq DOMAIN commits,
         known.target <= Len(thread'), known.temporary <= Len(thread')
  PROVE  TypeOK'
<1>1. /\ pc' \in [Requests -> States] /\ local' \in [Requests -> Locals]
      /\ pc'[r] = state /\ local'[r] = known
      /\ \A q \in Requests \ {r} : pc'[q] = pc[q] /\ local'[q] = local[q]
      /\ request' = request /\ commits' = commits
  BY GoesOK
<1>2. failures' \in 0..MaxFailures
  BY CallOK
<1>3. \A i \in DOMAIN commits' : 1 <= commits'[i].authored
                               /\ commits'[i].authored <= commits'[i].pushed
                               /\ commits'[i].pushed <= clock'
  <2>1. \A i \in DOMAIN commits : 1 <= commits[i].authored
                               /\ commits[i].authored <= commits[i].pushed
                               /\ commits[i].pushed <= clock
                               /\ commits[i].pushed \in Nat
    BY Types DEF TypeOK, CommitTimes
  <2>2. clock \in Nat /\ clock' \in Nat /\ clock <= clock'
    BY DEF TypeOK, Kept
  <2>. QED
    BY <1>1, <2>1, <2>2
<1>4. loop' = [loop EXCEPT ![request[r].worker] =
                 IF state \in Synchronous THEN r ELSE None]
  BY DEF Goes, Goto
<1>5. loop' \in [Workers -> Requests \cup {None}]
  BY <1>4 DEF TypeOK
<1>6. ASSUME NEW q \in Requests PROVE pc'[q] \in Synchronous <=> HasLoop(q)'
  <2>1. /\ request[q].worker \in Workers /\ request[r].worker \in Workers
        /\ q # None /\ r # None
    BY Types
  <2>2. pc[q] \in Synchronous <=> loop[request[q].worker] = q
    BY DEF TypeOK, HasLoop
  <2>3. loop'[request'[q].worker] =
          IF request[q].worker = request[r].worker
          THEN IF state \in Synchronous THEN r ELSE None
          ELSE loop[request[q].worker]
    BY <1>1, <1>4, <2>1 DEF TypeOK
  <2>4. CASE q = r
    BY <1>1, <2>1, <2>3, <2>4 DEF HasLoop
  <2>5. CASE q # r /\ request[q].worker = request[r].worker
    <3>1. loop[request[r].worker] = None \/ loop[request[r].worker] = r
      BY DEF TypeOK, HasLoop, LoopFree
    <3>2. pc[q] \notin Synchronous
      BY <2>1, <2>2, <2>5, <3>1
    <3>. QED
      BY <1>1, <2>1, <2>3, <2>5, <3>2 DEF HasLoop
  <2>6. CASE q # r /\ request[q].worker # request[r].worker
    BY <1>1, <2>2, <2>3, <2>6 DEF HasLoop
  <2>. QED
    BY <2>4, <2>5, <2>6
<1>7. ASSUME NEW q \in Requests
      PROVE  /\ local'[q].upto <= Len(commits')
             /\ local'[q].shows \subseteq DOMAIN commits'
             /\ local'[q].target <= Len(thread')
             /\ local'[q].temporary <= Len(thread')
  <2>1. CASE q = r
    BY <1>1, <2>1
  <2>2. CASE q # r
    <3>1. /\ local[q].upto <= Len(commits)
          /\ local[q].shows \subseteq DOMAIN commits
          /\ local[q].target <= Len(thread)
          /\ local[q].temporary <= Len(thread)
      BY DEF TypeOK
    <3>2. /\ local[q].target \in Nat /\ local[q].temporary \in Nat
          /\ Len(thread) \in Nat /\ Len(thread') \in Nat /\ Len(thread) <= Len(thread')
      BY Types DEF Kept
    <3>3. local'[q] = local[q] /\ commits' = commits
      BY <1>1, <2>2
    <3>. QED
      BY <3>1, <3>2, <3>3
  <2>. QED
    BY <2>1, <2>2
<1>8. request' \in [Requests -> [worker : Workers, is : Kinds]]
      /\ commits' \in Seq(CommitTimes) /\ Len(commits') \in CommitIds
  BY <1>1 DEF TypeOK
<1>9. /\ thread' \in Seq(Comments) /\ clock' \in Nat
      /\ \A c \in DOMAIN thread' : thread'[c].about <= Len(thread')
                                   /\ thread'[c].created \in 1..clock'
  BY DEF Kept
<1>10. pc' \in [Requests -> {"idle", "waiting"} \cup Synchronous \cup Ended]
  BY <1>1 DEF States
<1>. QED
  BY <1>1, <1>2, <1>3, <1>5, <1>6, <1>7, <1>8, <1>9, <1>10 DEF TypeOK

-----------------------------------------------------------------------------
(***************************************************************************)
(* What a step of r does to everything else, and to the history.           *)
(***************************************************************************)
HistoryOK(r) ==
  /\ history' \in Histories
  /\ history'.during = history.during
  /\ history.published \subseteq history'.published
  /\ history.unedited \subseteq history'.unedited
  /\ history'.unedited \subseteq history.unedited \cup {r}
  /\ history.undeleted \subseteq history'.undeleted
  /\ history.blind \in Nat /\ history'.blind \in Nat
  /\ history.blind <= history'.blind
  /\ \A q \in Requests :
       history'.before[q] = history.before[q] \/ (pc[r] = "idle" /\ q = r)

Effect(r) ==
  /\ Kept
  /\ request' = request /\ commits' = commits
  /\ pc' \in [Requests -> States]
  /\ \A q \in Requests \ {r} : pc'[q] = pc[q] /\ local'[q] = local[q]
  /\ pc[r] \notin Ended /\ (LoopFree(r) \/ pc[r] \in Synchronous)
  /\ HistoryOK(r)

\* r knows what it knew of the commits, and of its temporary comment.
KnowsView(r) ==
  /\ local'[r].upto = local[r].upto
  /\ local'[r].shows = local[r].shows
  /\ local'[r].incremental = local[r].incremental

KnowsSame(r) == KnowsView(r) /\ local'[r].temporary = local[r].temporary

SameThread == thread' = thread /\ clock' = clock

\* The common case: what r knows of the commits is what it knew.
LEMMA AlikeStep ==
  ASSUME TypeOK, NEW r \in Requests, NEW state \in States, NEW known \in Locals,
         Goes(r, state, known), LoopFree(r) \/ pc[r] \in Synchronous, pc[r] \notin Ended,
         Kept, labels' \subseteq Efforts \cup {UserLabel},
         Succeed \/ Fail,
         HistoryOK(r),
         known.upto <= Len(commits), known.shows \subseteq DOMAIN commits,
         known.target <= Len(thread'), known.temporary <= Len(thread')
  PROVE  TypeOK' /\ Effect(r) /\ pc'[r] = state /\ local'[r] = known
<1>1. TypeOK'
  BY TypeStep DEF HistoryOK
<1>2. /\ pc' \in [Requests -> States] /\ pc'[r] = state /\ local'[r] = known
      /\ \A q \in Requests \ {r} : pc'[q] = pc[q] /\ local'[q] = local[q]
      /\ request' = request /\ commits' = commits
  BY GoesOK
<1>. QED
  BY <1>1, <1>2 DEF Effect

LEMMA SameHistory ==
  ASSUME TypeOK, NEW r \in Requests, history' = history
  PROVE  HistoryOK(r)
BY DEF TypeOK, HistoryOK, Histories

\* What a task knows stays within the thread and the commits.
LEMMA KnownOK ==
  ASSUME TypeOK, NEW r \in Requests, Kept
  PROVE  /\ local[r] \in Locals
         /\ local[r].upto <= Len(commits) /\ local[r].shows \subseteq DOMAIN commits
         /\ local[r].target <= Len(thread') /\ local[r].temporary <= Len(thread')
<1>1. /\ local[r].upto <= Len(commits) /\ local[r].shows \subseteq DOMAIN commits
      /\ local[r].target <= Len(thread) /\ local[r].temporary <= Len(thread)
  BY DEF TypeOK
<1>. QED
  BY <1>1, Types DEF Kept

\* A step after which r knows just what it knew.
LEMMA UnlearntStep ==
  ASSUME TypeOK, NEW r \in Requests, NEW state \in States,
         Goto(r, state), UNCHANGED <<request, commits, local>>,
         LoopFree(r) \/ pc[r] \in Synchronous, pc[r] \notin Ended,
         Kept, labels' \subseteq Efforts \cup {UserLabel}, Succeed \/ Fail,
         HistoryOK(r)
  PROVE  TypeOK' /\ Effect(r) /\ pc'[r] = state /\ local'[r] = local[r] /\ KnowsSame(r)
<1>1. local' = [local EXCEPT ![r] = local[r]]
  BY DEF TypeOK
<1>2. Goes(r, state, local[r])
  BY <1>1 DEF Goes
<1>. QED
  BY <1>2, KnownOK, AlikeStep DEF KnowsSame, KnowsView

-----------------------------------------------------------------------------
(***************************************************************************)
(* The steps of a request.                                                 *)
(***************************************************************************)
LEMMA StatesOK ==
  /\ Synchronous \subseteq States /\ Ended \subseteq States /\ "waiting" \in States
  /\ Synchronous \cap Ended = {}
BY DEF States, Synchronous, Ended

LEMMA OpenOK ==
  ASSUME TypeOK, NEW r \in Requests, Open(r)
  PROVE  /\ TypeOK' /\ Effect(r) /\ SameThread /\ labels' = labels
         /\ pc[r] = "idle" /\ pc'[r] \in {"opened", "failed"}
         /\ pc'[r] = "opened" => local'[r].upto = Len(commits)
         /\ local'[r].temporary = local[r].temporary
         /\ history'.before[r] \subseteq {q \in Requests : pc[q] \in Ended}
         /\ history'.published = history.published
         /\ history'.unedited = history.unedited
<1>1. Kept
  BY SameKept DEF Open, PullRequestUnchanged
<1>2. history \in Histories
  BY DEF TypeOK
<1> DEFINE ended == {q \in Requests : pc[q] \in Ended}
<1>3. history' = [history EXCEPT !.before[r] = ended]
  BY DEF Open
<1>4. /\ history' \in Histories
      /\ history'.before = [history.before EXCEPT ![r] = ended]
      /\ history'.published = history.published
      /\ history'.during = history.during
      /\ history'.unedited = history.unedited
      /\ history'.undeleted = history.undeleted
      /\ history'.blind = history.blind
      /\ history.blind \in Nat
      /\ history.before \in [Requests -> SUBSET Requests]
  <2> HIDE DEF ended
  <2>1. ended \in SUBSET Requests
    BY DEF ended
  <2>. QED
    BY <1>2, <1>3, <2>1 DEF Histories
<1>5. /\ history'.before[r] = ended
      /\ \A q \in Requests : history'.before[q] = history.before[q] \/ q = r
  <2> HIDE DEF ended
  <2>. QED
    BY <1>4
<1>6. pc[r] = "idle" /\ LoopFree(r) /\ pc[r] \notin Ended
  BY DEF Open, Ended
<1>7. {"opened", "failed"} \subseteq States /\ labels' \subseteq Efforts \cup {UserLabel}
  BY DEF States, Synchronous, Ended, Open, PullRequestUnchanged, TypeOK
<1>8. CASE Succeed /\ Goto(r, "opened") /\ Learn(r, "upto", Len(commits))
  <2> DEFINE known == [local[r] EXCEPT !.upto = Len(commits)]
  <2>1. Len(commits) \in 0..(MaxPushes + 1)
    BY ReviewSessionAssumption, Types DEF TypeOK, CommitIds
  <2>2. /\ known \in Locals /\ known.upto = Len(commits) /\ known.shows = local[r].shows
        /\ known.target = local[r].target /\ known.temporary = local[r].temporary
    BY <2>1, Types DEF Locals
  <2>3. Goes(r, "opened", known)
    BY <1>8 DEF Goes, Learn, Open, PullRequestUnchanged
  <2> HIDE DEF known
  <2>4. TypeOK' /\ Effect(r) /\ pc'[r] = "opened" /\ local'[r] = known
    <3>1. /\ known.upto <= Len(commits) /\ known.shows \subseteq DOMAIN commits
          /\ known.target <= Len(thread') /\ known.temporary <= Len(thread')
      BY <1>1, <2>2, KnownOK, Types
    <3> HIDE DEF ended
    <3>2. HistoryOK(r)
      BY <1>4, <1>5, <1>6 DEF HistoryOK
    <3>. QED
      BY <1>1, <1>6, <1>7, <1>8, <2>2, <2>3, <3>1, <3>2, AlikeStep
  <2>. QED
    BY <1>4, <1>5, <1>6, <2>2, <2>4 DEF Open, PullRequestUnchanged, SameThread
<1>9. CASE Fail /\ Goto(r, "failed") /\ UNCHANGED local
  <2>1. TypeOK' /\ Effect(r) /\ pc'[r] = "failed" /\ local'[r] = local[r]
    <3> HIDE DEF ended
    <3>2. HistoryOK(r)
      BY <1>4, <1>5, <1>6 DEF HistoryOK
    <3>3. UNCHANGED <<request, commits, local>>
      BY <1>9 DEF Open, PullRequestUnchanged
    <3>. QED
      BY <1>1, <1>6, <1>7, <1>9, <3>2, <3>3, UnlearntStep
  <2>. QED
    BY <1>4, <1>5, <1>6, <2>1 DEF Open, PullRequestUnchanged, SameThread
<1>. QED
  BY <1>8, <1>9 DEF Open

\* The commits of the pull request, and those r knows of, are commits.
LEMMA CommitsOK ==
  ASSUME TypeOK, NEW r \in Requests
  PROVE  /\ DOMAIN commits \in SUBSET CommitIds
         /\ 1..local[r].upto \subseteq DOMAIN commits
<1>1. /\ Len(commits) \in 1..(MaxPushes + 1) /\ MaxPushes \in Nat
      /\ local[r].upto <= Len(commits)
  BY ReviewSessionAssumption DEF TypeOK, CommitIds
<1>. QED
  BY <1>1, Types DEF CommitIds

LEMMA ListOK ==
  ASSUME TypeOK, NEW r \in Requests, List(r)
  PROVE  /\ TypeOK' /\ Effect(r) /\ SameThread /\ labels' = labels /\ history' = history
         /\ pc[r] = "opened"
         /\ local'[r].temporary = local[r].temporary
         /\ local'[r].upto = local[r].upto
         /\ \/ pc'[r] = "failed"
            \/ /\ Live(Reviews) # {}
               /\ local'[r].incremental
               /\ local'[r].shows = NewCommits(r, thread[Newest(Live(Reviews))].created)
               /\ pc'[r] = IF local'[r].shows = {} THEN "skipping" ELSE "listed"
            \/ /\ ~local'[r].incremental
               /\ local'[r].shows = DOMAIN commits
               /\ pc'[r] = "listed"
<1>1. Kept /\ HistoryOK(r)
  BY SameKept, SameHistory DEF List, PullRequestUnchanged
<1>2. pc[r] = "opened" /\ pc[r] \in Synchronous /\ pc[r] \notin Ended
  BY DEF List, Synchronous, Ended
<1>3. {"listed", "skipping", "failed"} \subseteq States
      /\ labels' \subseteq Efforts \cup {UserLabel}
  BY DEF States, Synchronous, Ended, List, PullRequestUnchanged, TypeOK
<1>4. local[r] \in Locals /\ DOMAIN commits \in SUBSET CommitIds
      /\ UNCHANGED <<request, commits>> /\ SameThread /\ labels' = labels /\ history' = history
  BY Types, CommitsOK DEF List, PullRequestUnchanged, SameThread
<1>5. CASE Fail /\ Goto(r, "failed") /\ UNCHANGED local
  BY <1>1, <1>2, <1>3, <1>4, <1>5, UnlearntStep DEF KnowsSame, KnowsView
<1>6. ASSUME local[r].incremental, Live(Reviews) # {}, Succeed,
             LET new == NewCommits(r, thread[Newest(Live(Reviews))].created)
             IN  /\ Learn(r, "shows", new)
                 /\ Goto(r, IF new = {} THEN "skipping" ELSE "listed")
      PROVE  /\ TypeOK' /\ Effect(r)
             /\ local'[r].temporary = local[r].temporary
             /\ local'[r].upto = local[r].upto
             /\ local'[r].incremental
             /\ local'[r].shows = NewCommits(r, thread[Newest(Live(Reviews))].created)
             /\ pc'[r] = IF local'[r].shows = {} THEN "skipping" ELSE "listed"
  <2> DEFINE new == NewCommits(r, thread[Newest(Live(Reviews))].created)
             known == [local[r] EXCEPT !.shows = new]
             state == IF new = {} THEN "skipping" ELSE "listed"
  <2>1. new \in SUBSET CommitIds /\ new \subseteq DOMAIN commits
    BY <1>4, CommitsOK DEF NewCommits
  <2>2. Learn(r, "shows", new) /\ Goto(r, state) /\ state \in States
    BY <1>3, <1>6
  <2> HIDE DEF new, state
  <2>3. /\ known \in Locals /\ known.shows = new /\ known.upto = local[r].upto
        /\ known.incremental = local[r].incremental
        /\ known.target = local[r].target /\ known.temporary = local[r].temporary
    BY <1>4, <2>1 DEF Locals
  <2>4. Goes(r, state, known)
    BY <1>4, <2>2 DEF Goes, Learn
  <2> HIDE DEF known
  <2>5. TypeOK' /\ Effect(r) /\ pc'[r] = state /\ local'[r] = known
    <3>1. /\ known.upto <= Len(commits) /\ known.shows \subseteq DOMAIN commits
          /\ known.target <= Len(thread') /\ known.temporary <= Len(thread')
      BY <1>1, <2>1, <2>3, KnownOK
    <3>. QED
      BY <1>1, <1>2, <1>3, <1>6, <2>2, <2>3, <2>4, <3>1, AlikeStep
  <2>6. local'[r].shows = new /\ pc'[r] = state
    BY <2>3, <2>5
  <2>. QED
    BY <1>6, <2>3, <2>5, <2>6 DEF new, state
<1>7. ASSUME Succeed, Goto(r, "listed"),
             local' = [local EXCEPT ![r].shows = DOMAIN commits, ![r].incremental = FALSE]
      PROVE  /\ TypeOK' /\ Effect(r)
             /\ local'[r].temporary = local[r].temporary
             /\ local'[r].upto = local[r].upto
             /\ ~local'[r].incremental
             /\ local'[r].shows = DOMAIN commits
             /\ pc'[r] = "listed"
  <2> DEFINE all == DOMAIN commits
             known == [local[r] EXCEPT !.shows = all, !.incremental = FALSE]
  <2> HIDE DEF all
  <2>1. /\ known \in Locals /\ known.shows = all /\ known.upto = local[r].upto
        /\ known.incremental = FALSE
        /\ known.target = local[r].target /\ known.temporary = local[r].temporary
    BY <1>4 DEF Locals, all
  <2>2. Goes(r, "listed", known)
    BY <1>4, <1>7 DEF Goes, TypeOK, all
  <2> HIDE DEF known
  <2>3. TypeOK' /\ Effect(r) /\ pc'[r] = "listed" /\ local'[r] = known
    <3>1. /\ known.upto <= Len(commits) /\ known.shows \subseteq DOMAIN commits
          /\ known.target <= Len(thread') /\ known.temporary <= Len(thread')
      BY <1>1, <2>1, KnownOK DEF all
    <3>. QED
      BY <1>1, <1>2, <1>3, <1>7, <2>1, <2>2, <3>1, AlikeStep
  <2>. QED
    BY <2>1, <2>3 DEF all
<1>. QED
  BY <1>2, <1>4, <1>5, <1>6, <1>7 DEF List

\* The steps that change nothing but where r is.
LEMMA WithholdOK ==
  ASSUME TypeOK, NEW r \in Requests, Withhold(r)
  PROVE  /\ TypeOK' /\ Effect(r) /\ SameThread /\ labels' = labels /\ history' = history
         /\ pc[r] = "publishing" /\ pc'[r] = "withheld" /\ local'[r] = local[r]
<1>1. Kept /\ HistoryOK(r)
  BY SameKept, SameHistory DEF Withhold, PullRequestUnchanged
<1>2. pc[r] = "publishing" /\ pc[r] \in Synchronous /\ pc[r] \notin Ended
      /\ "withheld" \in States /\ labels' \subseteq Efforts \cup {UserLabel}
  BY DEF Withhold, Synchronous, Ended, States, PullRequestUnchanged, TypeOK
<1>. QED
  BY <1>1, <1>2, UnlearntStep DEF Withhold, PullRequestUnchanged, SameThread

LEMMA SkipOK ==
  ASSUME TypeOK, NEW r \in Requests, Skip(r)
  PROVE  /\ TypeOK' /\ Effect(r) /\ labels' = labels /\ history' = history
         /\ \A c \in DOMAIN thread : thread'[c] = thread[c]
         /\ Live({"temporary"})' = Live({"temporary"})
         /\ Live({"review"})' = Live({"review"})
         /\ Live(Reviews)' = Live(Reviews)
         /\ \A c \in DOMAIN thread' \ DOMAIN thread : thread'[c].kind = "skipped"
         /\ pc[r] = "skipping" /\ pc'[r] \in {"done", "failed"} /\ local'[r] = local[r]
<1>1. HistoryOK(r) /\ history' = history
  BY SameHistory DEF Skip
<1>2. pc[r] = "skipping" /\ pc[r] \in Synchronous /\ pc[r] \notin Ended
      /\ {"done", "failed"} \subseteq States /\ labels' \subseteq Efforts \cup {UserLabel}
      /\ labels' = labels /\ UNCHANGED <<request, commits, local>>
  BY DEF Skip, Synchronous, Ended, States, TypeOK
<1>3. CASE Succeed /\ Publish(Comment("skipped", r, {}, local[r].upto, 0)) /\ Goto(r, "done")
  <2>1. local[r].upto \in 0..(MaxPushes + 1) /\ 0 \in 0..Len(thread)
    BY Types DEF Locals
  <2>2. /\ Kept
        /\ Len(thread') = Len(thread) + 1
        /\ \A c \in DOMAIN thread : thread'[c] = thread[c]
        /\ thread'[Len(thread) + 1] = Comment("skipped", r, {}, local[r].upto, 0)
        /\ \A kinds : Live(kinds)' =
             IF "skipped" \in kinds THEN Live(kinds) \cup {Len(thread) + 1} ELSE Live(kinds)
    BY <1>3, <2>1, PublishKept
  <2>3. \A c \in DOMAIN thread' \ DOMAIN thread : thread'[c].kind = "skipped"
    BY <2>2, Types DEF Comment, Kept
  <2>4. /\ Live({"temporary"})' = Live({"temporary"})
        /\ Live({"review"})' = Live({"review"})
        /\ Live(Reviews)' = Live(Reviews)
    BY <2>2 DEF Reviews
  <2>. QED
    BY <1>1, <1>2, <1>3, <2>2, <2>3, <2>4, UnlearntStep
<1>4. CASE Fail /\ Goto(r, "failed") /\ UNCHANGED <<thread, clock>>
  <2>1. Kept
    BY <1>4, SameKept
  <2>. QED
    BY <1>1, <1>2, <1>4, <2>1, UnlearntStep DEF Live
<1>. QED
  BY <1>3, <1>4 DEF Skip

LEMMA PrepareOK ==
  ASSUME TypeOK, NEW r \in Requests, Prepare(r)
  PROVE  /\ TypeOK' /\ Effect(r) /\ labels' = labels /\ history' = history /\ KnowsView(r)
         /\ \A c \in DOMAIN thread : thread'[c] = thread[c]
         /\ Live({"review"})' = Live({"review"})
         /\ Live(Reviews)' = Live(Reviews)
         /\ pc[r] = "listed" /\ pc'[r] \in {"waiting", "failed"}
         /\ \/ SameThread /\ local'[r].temporary = local[r].temporary
            \/ /\ Live({"temporary"})' = Live({"temporary"}) \cup {Len(thread) + 1}
               /\ Len(thread') = Len(thread) + 1
               /\ thread'[Len(thread) + 1].kind = "temporary"
               /\ thread'[Len(thread) + 1].by = r
               /\ local'[r].temporary = Len(thread) + 1
               /\ pc'[r] = "waiting"
<1>1. HistoryOK(r) /\ history' = history
  BY SameHistory DEF Prepare
<1>2. pc[r] = "listed" /\ pc[r] \in Synchronous /\ pc[r] \notin Ended
      /\ {"waiting", "failed"} \subseteq States /\ labels' \subseteq Efforts \cup {UserLabel}
      /\ labels' = labels /\ UNCHANGED <<request, commits>>
  BY DEF Prepare, Synchronous, Ended, States, TypeOK
<1>3. CASE /\ Succeed \/ Fail
           /\ Goto(r, "waiting") \/ Goto(r, "failed")
           /\ UNCHANGED <<thread, clock, local>>
  <2>1. Kept
    BY <1>3, SameKept
  <2>. QED
    BY <1>1, <1>2, <1>3, <2>1, UnlearntStep DEF Live, SameThread, KnowsSame, KnowsView
<1>4. CASE /\ Succeed
           /\ Publish(Comment("temporary", r, {}, 0, 0))
           /\ Learn(r, "temporary", Len(thread) + 1)
           /\ Goto(r, "waiting")
  <2>1. 0 \in 0..(MaxPushes + 1) /\ 0 \in 0..Len(thread)
    BY ReviewSessionAssumption, Types
  <2>2. /\ Kept
        /\ Len(thread') = Len(thread) + 1
        /\ \A c \in DOMAIN thread : thread'[c] = thread[c]
        /\ thread'[Len(thread) + 1] = Comment("temporary", r, {}, 0, 0)
        /\ \A kinds : Live(kinds)' =
             IF "temporary" \in kinds THEN Live(kinds) \cup {Len(thread) + 1} ELSE Live(kinds)
    BY <1>4, <2>1, PublishKept
  <2>3. /\ Live({"temporary"})' = Live({"temporary"}) \cup {Len(thread) + 1}
        /\ Live({"review"})' = Live({"review"})
        /\ Live(Reviews)' = Live(Reviews)
        /\ thread'[Len(thread) + 1].kind = "temporary"
        /\ thread'[Len(thread) + 1].by = r
    BY <2>2 DEF Reviews, Comment
  <2> DEFINE known == [local[r] EXCEPT !.temporary = Len(thread) + 1]
  <2>4. /\ known \in Locals /\ known.shows = local[r].shows /\ known.upto = local[r].upto
        /\ known.incremental = local[r].incremental
        /\ known.outcome = local[r].outcome
        /\ known.target = local[r].target /\ known.temporary = Len(thread) + 1
    BY Types DEF Locals
  <2>5. Goes(r, "waiting", known)
    BY <1>2, <1>4 DEF Goes, Learn
  <2> HIDE DEF known
  <2>6. TypeOK' /\ Effect(r) /\ pc'[r] = "waiting" /\ local'[r] = known
    <3>1. /\ known.upto <= Len(commits) /\ known.shows \subseteq DOMAIN commits
          /\ known.target <= Len(thread') /\ known.temporary <= Len(thread')
      BY <2>2, <2>4, KnownOK DEF Kept
    <3>. QED
      BY <1>1, <1>2, <1>4, <2>2, <2>4, <2>5, <3>1, AlikeStep
  <2>. QED
    BY <1>1, <1>2, <2>2, <2>3, <2>4, <2>6 DEF KnowsView
<1>. QED
  BY <1>3, <1>4 DEF Prepare

LEMMA PredictOK ==
  ASSUME TypeOK, NEW r \in Requests, Predict(r)
  PROVE  /\ TypeOK' /\ Effect(r) /\ labels' = labels /\ history' = history
         /\ KnowsSame(r) /\ SameThread
         /\ pc[r] = "waiting"
         /\ pc'[r] \in {"predicted", "publishing", "cleaning", "failed"}
         /\ pc'[r] = "cleaning" => local'[r].outcome = "empty"
<1>1. PICK o \in Outcomes : Learn(r, "outcome", o) /\ Goto(r, After(o))
  BY DEF Predict
<1>2. o \in OutcomeKinds
  BY ReviewSessionAssumption
<1>3. Kept /\ HistoryOK(r)
  BY SameKept, SameHistory DEF Predict, PullRequestUnchanged
<1>4. pc[r] = "waiting" /\ LoopFree(r) /\ pc[r] \notin Ended
      /\ labels' \subseteq Efforts \cup {UserLabel}
      /\ labels' = labels /\ UNCHANGED <<request, commits, history>> /\ SameThread
      /\ (Succeed \/ Fail)
  BY DEF Predict, Ended, TypeOK, PullRequestUnchanged, SameThread
<1>5. /\ After(o) \in {"predicted", "publishing", "cleaning", "failed"}
      /\ After(o) = "cleaning" => o = "empty"
  BY <1>2 DEF After, OutcomeKinds
<1>6. After(o) \in States
  BY <1>5 DEF States, Synchronous, Ended
<1> DEFINE known == [local[r] EXCEPT !.outcome = o]
<1>7. /\ known \in Locals /\ known.shows = local[r].shows /\ known.upto = local[r].upto
      /\ known.incremental = local[r].incremental
      /\ known.outcome = o
      /\ known.target = local[r].target /\ known.temporary = local[r].temporary
  BY <1>2, Types DEF Locals
<1>8. Goes(r, After(o), known)
  BY <1>1, <1>4 DEF Goes, Learn
<1> HIDE DEF known
<1>9. TypeOK' /\ Effect(r) /\ pc'[r] = After(o) /\ local'[r] = known
  <2>1. /\ known.upto <= Len(commits) /\ known.shows \subseteq DOMAIN commits
        /\ known.target <= Len(thread') /\ known.temporary <= Len(thread')
    BY <1>3, <1>7, KnownOK
  <2>. QED
    BY <1>3, <1>4, <1>6, <1>7, <1>8, <2>1, AlikeStep
<1>. QED
  BY <1>4, <1>5, <1>7, <1>9 DEF KnowsSame, KnowsView

LEMMA ReadLabelsOK ==
  ASSUME TypeOK, NEW r \in Requests, ReadLabels(r)
  PROVE  /\ TypeOK' /\ Effect(r) /\ labels' = labels /\ history' = history
         /\ KnowsSame(r) /\ SameThread
         /\ pc[r] = "predicted" /\ pc'[r] = "labelling"
<1>1. PICK ls \in {labels, {}} : Learn(r, "seen", ls)
  BY DEF ReadLabels
<1>2. ls \in SUBSET (Efforts \cup {UserLabel})
  BY DEF TypeOK
<1>3. Kept /\ HistoryOK(r)
  BY SameKept, SameHistory DEF ReadLabels, PullRequestUnchanged
<1>4. pc[r] = "predicted" /\ pc[r] \in Synchronous /\ pc[r] \notin Ended
      /\ "labelling" \in States /\ Goto(r, "labelling")
      /\ labels' \subseteq Efforts \cup {UserLabel}
      /\ labels' = labels /\ UNCHANGED <<request, commits, history>> /\ SameThread
      /\ (Succeed \/ Fail)
  BY DEF ReadLabels, Ended, Synchronous, States, TypeOK, PullRequestUnchanged, SameThread
<1> DEFINE known == [local[r] EXCEPT !.seen = ls]
<1>5. /\ known \in Locals /\ known.shows = local[r].shows /\ known.upto = local[r].upto
      /\ known.incremental = local[r].incremental
      /\ known.target = local[r].target /\ known.temporary = local[r].temporary
  <2>1. local[r] \in Locals
    BY Types
  <2>. QED
    BY <1>2, <2>1 DEF Locals
<1>6. Goes(r, "labelling", known)
  BY <1>1, <1>4 DEF Goes, Learn
<1> HIDE DEF known
<1>7. TypeOK' /\ Effect(r) /\ pc'[r] = "labelling" /\ local'[r] = known
  <2>1. /\ known.upto <= Len(commits) /\ known.shows \subseteq DOMAIN commits
        /\ known.target <= Len(thread') /\ known.temporary <= Len(thread')
    BY <1>3, <1>5, KnownOK
  <2>. QED
    BY <1>3, <1>4, <1>5, <1>6, <2>1, AlikeStep
<1>. QED
  BY <1>4, <1>5, <1>7 DEF KnowsSame, KnowsView

LEMMA WriteLabelsOK ==
  ASSUME TypeOK, NEW r \in Requests, WriteLabels(r)
  PROVE  /\ TypeOK' /\ Effect(r) /\ history' = history
         /\ local'[r] = local[r] /\ SameThread
         /\ labels' \in {labels, NewLabels(r)}
         /\ pc[r] = "labelling" /\ pc'[r] = "publishing"
<1>1. Kept /\ HistoryOK(r)
  BY SameKept, SameHistory DEF WriteLabels
<1>2. pc[r] = "labelling" /\ pc[r] \in Synchronous /\ pc[r] \notin Ended
      /\ "publishing" \in States /\ Goto(r, "publishing")
      /\ UNCHANGED <<request, commits, local, history>> /\ SameThread
      /\ (Succeed \/ Fail) /\ labels' \in {labels, NewLabels(r)}
  BY DEF WriteLabels, Ended, Synchronous, States, SameThread
<1>3. labels' \subseteq Efforts \cup {UserLabel}
  <2>1. request[r].is.effort \in Efforts /\ local[r] \in Locals
    BY Types
  <2>2. local[r].seen \subseteq Efforts \cup {UserLabel}
    BY <2>1 DEF Locals
  <2>3. labels \subseteq Efforts \cup {UserLabel}
    BY DEF TypeOK
  <2>. QED
    BY <1>2, <2>1, <2>2, <2>3 DEF NewLabels
<1>. QED
  BY <1>1, <1>2, <1>3, UnlearntStep

LEMMA FindOK ==
  ASSUME TypeOK, NEW r \in Requests, Find(r)
  PROVE  /\ TypeOK' /\ Effect(r) /\ labels' = labels /\ KnowsSame(r) /\ SameThread
         /\ history'.published = history.published
         /\ history'.unedited = history.unedited
         /\ pc[r] = "publishing"
         /\ \/ /\ pc'[r] = "creating"
               /\ local[r].incremental \/ Live({"review"}) = {}
            \/ /\ pc'[r] = "creating"
               /\ history'.blind = history.blind + 1
            \/ /\ pc'[r] = "editing"
               /\ ~local[r].incremental
               /\ local'[r].target \in Live({"review"})
<1>1. Kept
  BY SameKept DEF Find, PullRequestUnchanged
<1>2. pc[r] = "publishing" /\ pc[r] \in Synchronous /\ pc[r] \notin Ended
      /\ {"creating", "editing"} \subseteq States
      /\ labels' \subseteq Efforts \cup {UserLabel}
      /\ labels' = labels /\ UNCHANGED <<request, commits>> /\ SameThread
      /\ history \in Histories
  BY DEF Find, Ended, Synchronous, States, TypeOK, PullRequestUnchanged, SameThread
<1>3. CASE /\ ~Persistent(r) \/ PersistentReviews = {}
           /\ Succeed
           /\ Goto(r, "creating")
           /\ UNCHANGED <<local, history>>
  <2>1. HistoryOK(r)
    BY <1>3, SameHistory
  <2>. QED
    BY <1>1, <1>2, <1>3, <2>1, UnlearntStep DEF Persistent, PersistentReviews
<1>4. CASE /\ Persistent(r) /\ PersistentReviews # {}
           /\ Succeed
           /\ Learn(r, "target", Oldest(PersistentReviews))
           /\ Goto(r, "editing")
           /\ UNCHANGED history
  <2> DEFINE t == Oldest(PersistentReviews)
  <2>1. PersistentReviews \in SUBSET (1..Len(thread)) /\ Len(thread) \in Nat
    BY Types DEF PersistentReviews, Live
  <2>2. t \in PersistentReviews
    BY <1>4, <2>1, OldestOK
  <2>3. t \in Nat /\ t <= Len(thread) /\ t \in Live({"review"})
    BY <2>1, <2>2 DEF PersistentReviews
  <2>4. Learn(r, "target", t)
    BY <1>4
  <2> HIDE DEF t
  <2> DEFINE known == [local[r] EXCEPT !.target = t]
  <2>5. /\ known \in Locals /\ known.shows = local[r].shows /\ known.upto = local[r].upto
        /\ known.incremental = local[r].incremental
        /\ known.target = t /\ known.temporary = local[r].temporary
    BY <2>3, Types DEF Locals
  <2>6. Goes(r, "editing", known)
    BY <1>2, <1>4, <2>4 DEF Goes, Learn
  <2> HIDE DEF known
  <2>7. TypeOK' /\ Effect(r) /\ pc'[r] = "editing" /\ local'[r] = known
    <3>1. /\ known.upto <= Len(commits) /\ known.shows \subseteq DOMAIN commits
          /\ known.target <= Len(thread') /\ known.temporary <= Len(thread')
      BY <1>1, <1>2, <2>3, <2>5, KnownOK DEF SameThread
    <3>2. HistoryOK(r)
      BY <1>4, SameHistory
    <3>. QED
      BY <1>1, <1>2, <1>4, <2>5, <2>6, <3>1, <3>2, AlikeStep
  <2>8. ~local[r].incremental
    BY <1>4 DEF Persistent
  <2>. QED
    BY <1>2, <1>4, <2>3, <2>5, <2>7, <2>8 DEF KnowsSame, KnowsView
<1>5. CASE /\ Persistent(r)
           /\ Fail
           /\ Goto(r, "creating")
           /\ history' = [history EXCEPT !.blind = @ + 1]
           /\ UNCHANGED local
  <2>1. /\ history'.blind = history.blind + 1
        /\ history'.published = history.published
        /\ history'.unedited = history.unedited
        /\ HistoryOK(r)
    BY <1>2, <1>5 DEF Histories, HistoryOK
  <2>. QED
    BY <1>1, <1>2, <1>5, <2>1, UnlearntStep
<1>. QED
  BY <1>3, <1>4, <1>5 DEF Find

LEMMA EditOK ==
  ASSUME TypeOK, TargetInv, NEW r \in Requests, Edit(r)
  PROVE  /\ TypeOK' /\ Effect(r) /\ labels' = labels /\ local'[r] = local[r]
         /\ pc[r] = "editing" /\ pc'[r] \in {"announcing", "cleaning"}
         /\ local[r].target \in DOMAIN thread
         /\ \A kinds : Live(kinds)' = Live(kinds)
         /\ Len(thread') = Len(thread)
         /\ \A c \in DOMAIN thread \ {local[r].target} : thread'[c] = thread[c]
         /\ \/ /\ thread'[local[r].target].by = r
               /\ thread'[local[r].target].shows = local[r].shows
               /\ thread'[local[r].target].upto = local[r].upto
               /\ local[r].shows \subseteq history'.published
            \/ SameThread /\ r \in history'.unedited
<1> DEFINE t == local[r].target
<1>1. pc[r] = "editing" /\ pc[r] \in Synchronous /\ pc[r] \notin Ended
      /\ labels' \subseteq Efforts \cup {UserLabel}
      /\ labels' = labels /\ UNCHANGED <<request, commits, local, clock>>
      /\ history \in Histories
  BY DEF Edit, Ended, Synchronous, States, TypeOK
<1>2. t \in DOMAIN thread
  BY <1>1 DEF TargetInv, Live
<1>3. PICK state \in {"announcing", "cleaning"} : Goto(r, state)
  BY DEF Edit
<1>4. state \in States
  BY DEF States, Synchronous
<1>5. CASE /\ Succeed
           /\ thread' = [thread EXCEPT ![local[r].target] =
                [@ EXCEPT !.by = r, !.shows = local[r].shows, !.upto = LatestCommit(r)]]
           /\ history' = [history EXCEPT !.published = @ \cup local[r].shows]
  <2> DEFINE shows == local[r].shows
             upto == local[r].upto
  <2>1. shows \in SUBSET CommitIds /\ upto \in 0..(MaxPushes + 1)
    BY Types DEF Locals
  <2>2. thread' = [thread EXCEPT ![t] = [@ EXCEPT !.by = r, !.shows = shows, !.upto = upto]]
    BY <1>5 DEF LatestCommit
  <2> HIDE DEF t, shows, upto
  <2>3. /\ Kept
        /\ Len(thread') = Len(thread)
        /\ \A c \in DOMAIN thread \ {t} : thread'[c] = thread[c]
        /\ thread'[t].by = r /\ thread'[t].shows = shows /\ thread'[t].upto = upto
        /\ \A kinds : Live(kinds)' = Live(kinds)
    BY <1>1, <1>2, <2>1, <2>2, EditKept
  <2>4. history' = [history EXCEPT !.published = @ \cup shows]
    BY <1>5 DEF shows
  <2>5. HistoryOK(r) /\ shows \subseteq history'.published
    BY <1>1, <2>1, <2>4 DEF HistoryOK, Histories
  <2>6. TypeOK' /\ Effect(r) /\ pc'[r] = state /\ local'[r] = local[r]
    BY <1>1, <1>3, <1>4, <1>5, <2>3, <2>5, UnlearntStep
  <2>. QED
    BY <1>1, <1>2, <1>3, <2>3, <2>5, <2>6 DEF t, shows, upto
<1>6. CASE /\ Succeed \/ Fail
           /\ history' = [history EXCEPT !.unedited = @ \cup {r}]
           /\ UNCHANGED thread
  <2>1. Kept /\ SameThread
    BY <1>1, <1>6, SameKept DEF SameThread
  <2>2. HistoryOK(r) /\ r \in history'.unedited
    BY <1>1, <1>6 DEF HistoryOK, Histories
  <2>3. TypeOK' /\ Effect(r) /\ pc'[r] = state /\ local'[r] = local[r]
    BY <1>1, <1>3, <1>4, <1>6, <2>1, <2>2, UnlearntStep
  <2>. QED
    BY <1>1, <1>2, <1>3, <2>1, <2>2, <2>3 DEF SameThread, Live
<1>. QED
  BY <1>5, <1>6 DEF Edit

LEMMA AnnounceOK ==
  ASSUME TypeOK, NEW r \in Requests, Announce(r)
  PROVE  /\ TypeOK' /\ Effect(r) /\ labels' = labels /\ local'[r] = local[r]
         /\ \A c \in DOMAIN thread : thread'[c] = thread[c]
         /\ Live({"temporary"})' = Live({"temporary"})
         /\ Live({"review"})' = Live({"review"})
         /\ Live(Reviews)' = Live(Reviews)
         /\ history'.published = history.published
         /\ history'.unedited = history.unedited
         /\ pc[r] = "announcing"
         /\ \/ /\ pc'[r] = "cleaning"
               /\ Len(thread') = Len(thread) + 1
               /\ thread'[Len(thread) + 1] =
                    Comment("announcement", r, {}, local[r].upto, local[r].target)
            \/ SameThread /\ pc'[r] = "creating" /\ history'.blind = history.blind + 1
<1>1. pc[r] = "announcing" /\ pc[r] \in Synchronous /\ pc[r] \notin Ended
      /\ {"creating", "cleaning"} \subseteq States /\ labels' \subseteq Efforts \cup {UserLabel}
      /\ labels' = labels /\ UNCHANGED <<request, commits, local>> /\ history \in Histories
  BY DEF Announce, Synchronous, Ended, States, TypeOK
<1>2. CASE /\ Succeed
           /\ Publish(Comment("announcement", r, {}, LatestCommit(r), local[r].target))
           /\ Goto(r, "cleaning")
           /\ UNCHANGED history
  <2> DEFINE upto == local[r].upto
             about == local[r].target
  <2>1. upto \in 0..(MaxPushes + 1) /\ about \in 0..Len(thread)
    BY Types DEF Locals, TypeOK
  <2>2. Publish(Comment("announcement", r, {}, upto, about))
    BY <1>2 DEF LatestCommit
  <2> HIDE DEF upto, about
  <2>3. /\ Kept
        /\ Len(thread') = Len(thread) + 1
        /\ \A c \in DOMAIN thread : thread'[c] = thread[c]
        /\ thread'[Len(thread) + 1] = Comment("announcement", r, {}, upto, about)
        /\ \A kinds : Live(kinds)' =
             IF "announcement" \in kinds THEN Live(kinds) \cup {Len(thread) + 1}
             ELSE Live(kinds)
    BY <2>1, <2>2, PublishKept
  <2>4. /\ Live({"temporary"})' = Live({"temporary"})
        /\ Live({"review"})' = Live({"review"})
        /\ Live(Reviews)' = Live(Reviews)
    BY <2>3 DEF Reviews
  <2>5. HistoryOK(r)
    BY <1>2, SameHistory
  <2>. QED
    BY <1>1, <1>2, <2>3, <2>4, <2>5, UnlearntStep DEF upto, about
<1>3. CASE /\ Fail
           /\ Goto(r, "creating")
           /\ history' = [history EXCEPT !.blind = @ + 1]
           /\ UNCHANGED <<thread, clock>>
  <2>1. Kept /\ SameThread
    BY <1>3, SameKept DEF SameThread
  <2>2. /\ HistoryOK(r) /\ history'.blind = history.blind + 1
        /\ history'.published = history.published
        /\ history'.unedited = history.unedited
    BY <1>1, <1>3 DEF HistoryOK, Histories
  <2>. QED
    BY <1>1, <1>3, <2>1, <2>2, UnlearntStep DEF Live, SameThread
<1>. QED
  BY <1>2, <1>3 DEF Announce

LEMMA CreateOK ==
  ASSUME TypeOK, NEW r \in Requests, Create(r)
  PROVE  /\ TypeOK' /\ Effect(r) /\ labels' = labels /\ local'[r] = local[r]
         /\ \A c \in DOMAIN thread : thread'[c] = thread[c]
         /\ Live({"temporary"})' = Live({"temporary"})
         /\ history'.unedited = history.unedited /\ history'.blind = history.blind
         /\ pc[r] = "creating"
         /\ \/ SameThread /\ pc'[r] = "failed" /\ history' = history
            \/ /\ pc'[r] = "cleaning"
               /\ Len(thread') = Len(thread) + 1
               /\ thread'[Len(thread) + 1] =
                    Comment(IF local[r].incremental THEN "incremental" ELSE "review",
                            r, local[r].shows, 0, 0)
               /\ Live(Reviews)' = Live(Reviews) \cup {Len(thread) + 1}
               /\ Live({"review"})' =
                    IF local[r].incremental THEN Live({"review"})
                    ELSE Live({"review"}) \cup {Len(thread) + 1}
               /\ local[r].shows \subseteq history'.published
<1>1. pc[r] = "creating" /\ pc[r] \in Synchronous /\ pc[r] \notin Ended
      /\ {"failed", "cleaning"} \subseteq States /\ labels' \subseteq Efforts \cup {UserLabel}
      /\ labels' = labels /\ UNCHANGED <<request, commits, local>> /\ history \in Histories
  BY DEF Create, Synchronous, Ended, States, TypeOK
<1>2. CASE /\ Succeed
           /\ Publish(Comment(IF local[r].incremental THEN "incremental" ELSE "review",
                              r, local[r].shows, 0, 0))
           /\ history' = [history EXCEPT !.published = @ \cup local[r].shows]
           /\ Goto(r, "cleaning")
  <2> DEFINE shows == local[r].shows
             kind == IF local[r].incremental THEN "incremental" ELSE "review"
  <2>1. shows \in SUBSET CommitIds /\ kind \in Reviews
        /\ 0 \in 0..(MaxPushes + 1) /\ 0 \in 0..Len(thread)
    BY ReviewSessionAssumption, Types DEF Locals, Reviews
  <2>2. Publish(Comment(kind, r, shows, 0, 0))
    BY <1>2
  <2>3. /\ kind # "temporary" /\ kind \in Reviews
        /\ kind \in {"review"} <=> ~local[r].incremental
    BY DEF Reviews
  <2>4. history' = [history EXCEPT !.published = @ \cup shows]
    BY <1>2
  <2> HIDE DEF shows, kind
  <2>5. /\ Kept
        /\ Len(thread') = Len(thread) + 1
        /\ \A c \in DOMAIN thread : thread'[c] = thread[c]
        /\ thread'[Len(thread) + 1] = Comment(kind, r, shows, 0, 0)
        /\ \A kinds : Live(kinds)' =
             IF kind \in kinds THEN Live(kinds) \cup {Len(thread) + 1} ELSE Live(kinds)
    BY <2>1, <2>2, PublishKept
  <2>6. /\ Live({"temporary"})' = Live({"temporary"})
        /\ Live(Reviews)' = Live(Reviews) \cup {Len(thread) + 1}
        /\ Live({"review"})' =
             IF local[r].incremental THEN Live({"review"})
             ELSE Live({"review"}) \cup {Len(thread) + 1}
    BY <2>3, <2>5
  <2>7. /\ HistoryOK(r) /\ shows \subseteq history'.published
        /\ history'.unedited = history.unedited /\ history'.blind = history.blind
    BY <1>1, <2>1, <2>4 DEF HistoryOK, Histories
  <2>8. TypeOK' /\ Effect(r) /\ pc'[r] = "cleaning" /\ local'[r] = local[r]
    BY <1>1, <1>2, <2>5, <2>7, UnlearntStep
  <2>. QED
    BY <1>1, <2>5, <2>6, <2>7, <2>8 DEF shows, kind
<1>3. CASE /\ Succeed \/ Fail
           /\ Goto(r, "failed")
           /\ UNCHANGED <<thread, clock, history>>
  <2>1. Kept /\ HistoryOK(r) /\ SameThread
    BY <1>3, SameKept, SameHistory DEF SameThread
  <2>. QED
    BY <1>1, <1>3, <2>1, UnlearntStep DEF Live, SameThread
<1>. QED
  BY <1>2, <1>3 DEF Create

LEMMA CleanOK ==
  ASSUME TypeOK, NEW r \in Requests, Clean(r)
  PROVE  /\ TypeOK' /\ Effect(r) /\ labels' = labels /\ local'[r] = local[r]
         /\ history'.published = history.published
         /\ history'.unedited = history.unedited /\ history'.blind = history.blind
         /\ pc[r] = "cleaning" /\ pc'[r] = "done"
         /\ Len(thread') = Len(thread)
         /\ \A c \in DOMAIN thread :
              /\ thread'[c].by = thread[c].by
              /\ thread'[c].shows = thread[c].shows
              /\ thread'[c].upto = thread[c].upto
         /\ \A kinds : Live(kinds)' = Live(kinds) \ {local[r].temporary}
                       \/ (r \in history'.undeleted /\ Live(kinds)' = Live(kinds))
<1>1. pc[r] = "cleaning" /\ pc[r] \in Synchronous /\ pc[r] \notin Ended
      /\ "done" \in States /\ Goto(r, "done") /\ labels' \subseteq Efforts \cup {UserLabel}
      /\ labels' = labels /\ UNCHANGED <<request, commits, clock, local>>
      /\ history \in Histories /\ (Succeed \/ Fail)
  BY DEF Clean, Synchronous, Ended, States, TypeOK
<1>2. local[r].temporary \in Nat /\ local[r].temporary <= Len(thread)
      /\ Len(thread) \in Nat /\ DOMAIN thread = 1..Len(thread)
  BY Types DEF TypeOK
<1>3. CASE local[r].temporary = 0 /\ UNCHANGED <<thread, history>>
  <2>1. Kept /\ HistoryOK(r)
    BY <1>1, <1>3, SameKept, SameHistory
  <2>2. \A kinds : Live(kinds)' = Live(kinds) /\ 0 \notin Live(kinds)
    BY <1>2, <1>3 DEF Live
  <2>3. \A kinds : Live(kinds)' = Live(kinds) \ {local[r].temporary}
    BY <1>3, <2>2
  <2>. QED
    BY <1>1, <1>3, <2>1, <2>3, UnlearntStep
<1>4. CASE /\ local[r].temporary # 0
           /\ thread' = [thread EXCEPT ![local[r].temporary].live = FALSE]
           /\ UNCHANGED history
  <2> DEFINE t == local[r].temporary
  <2>1. t \in DOMAIN thread
    BY <1>2, <1>4
  <2>2. thread' = [thread EXCEPT ![t] = Deleted(thread[t])]
    BY <1>4 DEF Deleted
  <2> HIDE DEF t
  <2>3. /\ Kept
        /\ Len(thread') = Len(thread)
        /\ \A c \in DOMAIN thread :
             /\ thread'[c].by = thread[c].by
             /\ thread'[c].shows = thread[c].shows
             /\ thread'[c].upto = thread[c].upto
        /\ \A kinds : Live(kinds)' = Live(kinds) \ {t}
    BY <1>1, <2>1, <2>2, DeleteKept
  <2>4. HistoryOK(r) /\ history' = history
    BY <1>4, SameHistory
  <2>5. TypeOK' /\ Effect(r) /\ pc'[r] = "done" /\ local'[r] = local[r]
    BY <1>1, <2>3, <2>4, UnlearntStep
  <2>. QED
    BY <1>1, <2>3, <2>4, <2>5 DEF t
<1>5. CASE history' = [history EXCEPT !.undeleted = @ \cup {r}] /\ UNCHANGED thread
  <2>1. Kept
    BY <1>1, <1>5, SameKept
  <2>2. /\ HistoryOK(r) /\ r \in history'.undeleted
        /\ history'.published = history.published
        /\ history'.unedited = history.unedited /\ history'.blind = history.blind
    BY <1>1, <1>5 DEF HistoryOK, Histories
  <2>. QED
    BY <1>1, <1>5, <2>1, <2>2, UnlearntStep DEF Live
<1>. QED
  BY <1>3, <1>4, <1>5 DEF Clean

-----------------------------------------------------------------------------
(***************************************************************************)
(* What other people do.                                                   *)
(***************************************************************************)
Busy(r) == pc[r] \in (Synchronous \cup {"waiting"}) \ {"cleaning"}

LEMMA PushOK ==
  ASSUME TypeOK, NEW lag \in Lags, Push(lag)
  PROVE  /\ TypeOK'
         /\ UNCHANGED <<request, thread, labels, pc, loop, local>>
         /\ Len(commits') = Len(commits) + 1
         /\ \A i \in DOMAIN commits : commits'[i] = commits[i]
         /\ commits'[Len(commits) + 1].pushed = clock + 1
         /\ clock' = clock + 1
         /\ history'.published = history.published
         /\ history'.before = history.before
         /\ history'.unedited = history.unedited
         /\ history'.undeleted = history.undeleted
         /\ history'.blind = history.blind
         /\ history.during \subseteq history'.during
         /\ (\E r \in Requests : Busy(r)) => Len(commits) + 1 \in history'.during
<1> DEFINE x == [authored |-> clock + 1 - lag, pushed |-> clock + 1]
           n == Len(commits) + 1
<1>1. lag \in Nat /\ MaxPushes \in Nat
  BY ReviewSessionAssumption
<1>2. /\ clock \in Nat /\ lag < clock /\ commits \in Seq(CommitTimes)
      /\ Len(commits) \in Nat /\ Len(commits) <= MaxPushes
      /\ commits' = Append(commits, x) /\ clock' = clock + 1
      /\ UNCHANGED <<request, thread, labels, pc, loop, local, failures>>
      /\ history \in Histories
  BY Types DEF Push, TypeOK
<1>3. /\ x \in CommitTimes /\ x.pushed = clock + 1
      /\ 1 <= x.authored /\ x.authored <= x.pushed /\ x.pushed <= clock'
  BY <1>1, <1>2 DEF CommitTimes
<1> HIDE DEF x
<1>4. /\ commits' \in Seq(CommitTimes)
      /\ Len(commits') = n
      /\ commits'[n] = x
      /\ \A i \in 1..Len(commits) : commits'[i] = commits[i]
  BY <1>2, <1>3, AppendProperties
<1>5. n \in CommitIds /\ DOMAIN commits' = 1..n /\ DOMAIN commits = 1..Len(commits)
  BY <1>1, <1>2, <1>4, LenProperties DEF CommitIds
<1>6. history' = [history EXCEPT !.during =
        IF \E r \in Requests : Busy(r) THEN @ \cup {n} ELSE @]
  BY DEF Push, Busy
<1>7. /\ history' \in Histories
      /\ history'.published = history.published
      /\ history'.before = history.before
      /\ history'.unedited = history.unedited
      /\ history'.undeleted = history.undeleted
      /\ history'.blind = history.blind
      /\ history.during \subseteq history'.during
      /\ (\E r \in Requests : Busy(r)) => n \in history'.during
  <2>1. CASE \E r \in Requests : Busy(r)
    <3>1. history' = [history EXCEPT !.during = @ \cup {n}]
      BY <1>6, <2>1
    <3>. QED
      BY <1>2, <1>5, <3>1 DEF Histories
  <2>2. CASE ~ \E r \in Requests : Busy(r)
    <3>1. history' = [history EXCEPT !.during = @]
      BY <1>6, <2>2
    <3>. QED
      BY <1>2, <2>2, <3>1 DEF Histories
  <2>. QED
    BY <2>1, <2>2
<1>8. \A i \in DOMAIN commits' : 1 <= commits'[i].authored
                               /\ commits'[i].authored <= commits'[i].pushed
                               /\ commits'[i].pushed <= clock'
  <2>1. ASSUME NEW i \in DOMAIN commits'
        PROVE  1 <= commits'[i].authored
               /\ commits'[i].authored <= commits'[i].pushed
               /\ commits'[i].pushed <= clock'
    <3>1. CASE i = n
      BY <1>3, <1>4, <3>1
    <3>2. CASE i # n
      <4>1. i \in DOMAIN commits /\ commits'[i] = commits[i]
        BY <1>2, <1>4, <1>5, <3>2
      <4>2. commits[i].pushed <= clock /\ commits[i].pushed \in Nat
        BY <4>1, Types DEF TypeOK, CommitTimes
      <4>. QED
        BY <1>2, <4>1, <4>2 DEF TypeOK
    <3>. QED
      BY <3>1, <3>2
  <2>. QED
    BY <2>1
<1>9. ASSUME NEW r \in Requests
      PROVE  /\ local'[r].upto <= Len(commits')
             /\ local'[r].shows \subseteq DOMAIN commits'
             /\ local'[r].target <= Len(thread')
             /\ local'[r].temporary <= Len(thread')
             /\ pc'[r] \in Synchronous <=> HasLoop(r)'
  <2>1. /\ local[r].upto <= Len(commits) /\ local[r].upto \in Nat
        /\ local[r].shows \subseteq 1..Len(commits)
        /\ local[r].target <= Len(thread) /\ local[r].temporary <= Len(thread)
        /\ pc[r] \in Synchronous <=> HasLoop(r)
    BY <1>5, Types DEF TypeOK
  <2>2. local'[r].upto <= Len(commits') /\ local'[r].shows \subseteq DOMAIN commits'
    BY <1>2, <1>4, <1>5, <2>1
  <2>. QED
    BY <1>2, <2>1, <2>2 DEF HasLoop
<1>10. \A c \in DOMAIN thread' : thread'[c].about <= Len(thread')
                                 /\ thread'[c].created \in 1..clock'
  BY <1>2 DEF TypeOK
<1>11. TypeOK'
  BY <1>2, <1>4, <1>5, <1>7, <1>8, <1>9, <1>10 DEF TypeOK
<1>. QED
  BY <1>2, <1>3, <1>4, <1>5, <1>7, <1>11

LEMMA AddLabelOK ==
  ASSUME TypeOK, AddLabel
  PROVE  /\ TypeOK'
         /\ UNCHANGED <<request, commits, clock, thread, pc, loop, local, history>>
         /\ labels' = labels \cup {UserLabel}
BY DEF AddLabel, TypeOK, HasLoop

-----------------------------------------------------------------------------
(***************************************************************************)
(* Types are preserved, and a review that was published stays.             *)
(***************************************************************************)
LEMMA NotTemporary ==
  ASSUME TypeOK, TemporaryInv, NEW r \in Requests
  PROVE  /\ local[r].temporary \notin Live({"review"})
         /\ local[r].temporary \notin Live(Reviews)
BY Types DEF TypeOK, TemporaryInv, Live, Reviews

LEMMA StepOK ==
  ASSUME TypeOK, TemporaryInv, TargetInv, NEW r \in Requests, RequestStep(r)
  PROVE  /\ TypeOK' /\ Effect(r)
         /\ Live({"review"}) \subseteq Live({"review"})'
<1>1. CASE Open(r)
  BY <1>1, OpenOK DEF SameThread, Live
<1>2. CASE List(r)
  BY <1>2, ListOK DEF SameThread, Live
<1>3. CASE Skip(r)
  BY <1>3, SkipOK
<1>4. CASE Prepare(r)
  BY <1>4, PrepareOK
<1>5. CASE Predict(r)
  BY <1>5, PredictOK DEF SameThread, Live
<1>6. CASE ReadLabels(r)
  BY <1>6, ReadLabelsOK DEF SameThread, Live
<1>7. CASE WriteLabels(r)
  BY <1>7, WriteLabelsOK DEF SameThread, Live
<1>8. CASE Withhold(r)
  BY <1>8, WithholdOK DEF SameThread, Live
<1>9. CASE Find(r)
  BY <1>9, FindOK DEF SameThread, Live
<1>10. CASE Edit(r)
  BY <1>10, EditOK
<1>11. CASE Announce(r)
  BY <1>11, AnnounceOK
<1>12. CASE Create(r)
  <2>1. TypeOK' /\ Effect(r)
    BY <1>12, CreateOK
  <2>2. CASE SameThread
    BY <2>1, <2>2 DEF SameThread, Live
  <2>3. CASE ~SameThread
    BY <1>12, <2>1, <2>3, CreateOK
  <2>. QED
    BY <2>2, <2>3
<1>13. CASE Clean(r)
  <2>1. \/ Live({"review"})' = Live({"review"}) \ {local[r].temporary}
        \/ Live({"review"})' = Live({"review"})
    BY <1>13, CleanOK
  <2>2. TypeOK' /\ Effect(r)
    BY <1>13, CleanOK
  <2>. QED
    BY <2>1, <2>2, NotTemporary
<1>. QED
  BY <1>1, <1>2, <1>3, <1>4, <1>5, <1>6, <1>7, <1>8, <1>9, <1>10, <1>11, <1>12, <1>13
  DEF RequestStep

-----------------------------------------------------------------------------
(***************************************************************************)
(* Labels.                                                                 *)
(***************************************************************************)
LEMMA LabelStep ==
  ASSUME TypeOK, LabelInv, NEW r \in Requests, labels' \in {labels, NewLabels(r)}
  PROVE  LabelInv'
<1>1. NewLabels(r) \cap Efforts \subseteq {request[r].is.effort}
  BY DEF NewLabels
<1>. QED
  BY <1>1 DEF LabelInv

LEMMA LabelOK ==
  ASSUME TypeOK, TargetInv, LabelInv, NEW r \in Requests, RequestStep(r)
  PROVE  LabelInv'
<1>1. labels' \in {labels, NewLabels(r)}
  BY OpenOK, ListOK, SkipOK, PrepareOK, PredictOK, ReadLabelsOK, WriteLabelsOK,
     WithholdOK, FindOK, EditOK, AnnounceOK, CreateOK, CleanOK DEF RequestStep
<1>. QED
  BY <1>1, LabelStep

-----------------------------------------------------------------------------
(***************************************************************************)
(* Temporary comments.                                                     *)
(***************************************************************************)
\* A task goes on, while no temporary comment is published.
LEMMA TemporaryStep ==
  ASSUME TypeOK, TemporaryInv, NEW r \in Requests, Effect(r),
         Live({"temporary"})' \subseteq Live({"temporary"}),
         \A c \in Live({"temporary"}) : thread'[c].by = thread[c].by,
         local'[r].temporary = local[r].temporary,
         pc[r] \in Working =>
           \/ pc'[r] \in Working \cup {"failed", "withheld"}
           \/ /\ pc'[r] = "done"
              /\ r \in history'.undeleted
                 \/ local[r].temporary \notin Live({"temporary"})'
  PROVE  TemporaryInv'
<1>1. ASSUME NEW c \in Live({"temporary"})'
      PROVE  LET q == thread'[c].by
             IN  /\ local'[q].temporary = c
                 /\ \/ pc'[q] \in Working \cup {"failed", "withheld"}
                    \/ pc'[q] = "done" /\ q \in history'.undeleted
  <2> DEFINE q == thread[c].by
  <2>1. c \in Live({"temporary"}) /\ thread'[c].by = q
    BY <1>1
  <2>2. /\ local[q].temporary = c
        /\ \/ pc[q] \in Working \cup {"failed", "withheld"}
           \/ pc[q] = "done" /\ q \in history.undeleted
    BY <2>1 DEF TemporaryInv
  <2>3. thread[c] \in Comments
    BY <2>1, Types DEF Live
  <2>4. q \in Requests
    BY <2>3 DEF Comments
  <2> HIDE DEF q
  <2>5. CASE q = r
    <3>1. pc[r] \in Working
      BY <2>2, <2>5 DEF Effect, Ended
    <3>. QED
      BY <1>1, <2>1, <2>2, <2>5, <3>1
  <2>6. CASE q # r
    <3>1. pc'[q] = pc[q] /\ local'[q] = local[q] /\ history.undeleted \subseteq history'.undeleted
      BY <2>4, <2>6 DEF Effect, HistoryOK
    <3>. QED
      BY <2>1, <2>2, <3>1
  <2>. QED
    BY <2>5, <2>6
<1>2. ASSUME NEW q \in Requests, local'[q].temporary # 0
      PROVE  thread'[local'[q].temporary].kind = "temporary"
  <2>1. local'[q].temporary = local[q].temporary
    BY DEF Effect
  <2>2. local[q].temporary \in DOMAIN thread
    BY <1>2, <2>1, Types DEF TypeOK
  <2>. QED
    BY <1>2, <2>1, <2>2 DEF TemporaryInv, Effect, Kept
<1>. QED
  BY <1>1, <1>2 DEF TemporaryInv

\* r publishes its temporary comment.
LEMMA TemporaryPrepare ==
  ASSUME TypeOK, TemporaryInv, NEW r \in Requests, Prepare(r)
  PROVE  TemporaryInv'
<1>1. /\ Effect(r) /\ pc[r] = "listed" /\ pc'[r] \in {"waiting", "failed"}
      /\ \A c \in DOMAIN thread : thread'[c] = thread[c]
  BY PrepareOK
<1>2. CASE SameThread /\ local'[r].temporary = local[r].temporary
  BY <1>1, <1>2, TemporaryStep DEF Working, SameThread, Live
<1>3. CASE /\ Live({"temporary"})' = Live({"temporary"}) \cup {Len(thread) + 1}
           /\ Len(thread') = Len(thread) + 1
           /\ thread'[Len(thread) + 1].kind = "temporary"
           /\ thread'[Len(thread) + 1].by = r
           /\ local'[r].temporary = Len(thread) + 1
           /\ pc'[r] = "waiting"
  <2>1. ASSUME NEW c \in Live({"temporary"})'
        PROVE  LET q == thread'[c].by
               IN  /\ local'[q].temporary = c
                   /\ \/ pc'[q] \in Working \cup {"failed", "withheld"}
                      \/ pc'[q] = "done" /\ q \in history'.undeleted
    <3>1. CASE c = Len(thread) + 1
      BY <1>3, <3>1 DEF Working
    <3>2. CASE c \in Live({"temporary"})
      <4> DEFINE q == thread[c].by
      <4>1. /\ local[q].temporary = c
            /\ \/ pc[q] \in Working \cup {"failed", "withheld"}
               \/ pc[q] = "done" /\ q \in history.undeleted
        BY <3>2 DEF TemporaryInv
      <4>2. thread[c] \in Comments /\ thread'[c].by = q
        BY <1>1, <3>2, Types DEF Live
      <4>3. q \in Requests
        BY <4>2 DEF Comments
      <4> HIDE DEF q
      <4>4. q # r
        BY <1>1, <4>1 DEF Working
      <4>5. pc'[q] = pc[q] /\ local'[q] = local[q]
            /\ history.undeleted \subseteq history'.undeleted
        BY <1>1, <4>3, <4>4 DEF Effect, HistoryOK
      <4>. QED
        BY <4>1, <4>2, <4>5
    <3>. QED
      BY <1>3, <2>1, <3>1, <3>2
  <2>2. ASSUME NEW q \in Requests, local'[q].temporary # 0
        PROVE  thread'[local'[q].temporary].kind = "temporary"
    <3>1. CASE q = r
      BY <1>3, <3>1
    <3>2. CASE q # r
      <4>1. local'[q].temporary = local[q].temporary
        BY <1>1, <3>2 DEF Effect
      <4>2. local[q].temporary \in DOMAIN thread
        BY <2>2, <4>1, Types DEF TypeOK
      <4>. QED
        BY <1>1, <2>2, <4>1, <4>2 DEF TemporaryInv
    <3>. QED
      BY <3>1, <3>2
  <2>. QED
    BY <2>1, <2>2 DEF TemporaryInv
<1>. QED
  BY <1>2, <1>3, PrepareOK

LEMMA TemporaryOK ==
  ASSUME TypeOK, TargetInv, TemporaryInv, NEW r \in Requests, RequestStep(r)
  PROVE  TemporaryInv'
<1>1. CASE Open(r)
  BY <1>1, OpenOK, TemporaryStep DEF SameThread, Live, Working
<1>2. CASE List(r)
  BY <1>2, ListOK, TemporaryStep DEF SameThread, Live, Working
<1>3. CASE Skip(r)
  <2>1. \A c \in Live({"temporary"}) : thread'[c].by = thread[c].by
    BY <1>3, SkipOK DEF Live
  <2>. QED
    BY <1>3, <2>1, SkipOK, TemporaryStep DEF Working
<1>4. CASE Prepare(r)
  BY <1>4, TemporaryPrepare
<1>5. CASE Predict(r)
  BY <1>5, PredictOK, TemporaryStep DEF SameThread, Live, Working, KnowsSame
<1>6. CASE ReadLabels(r)
  BY <1>6, ReadLabelsOK, TemporaryStep DEF SameThread, Live, Working, KnowsSame
<1>7. CASE WriteLabels(r)
  BY <1>7, WriteLabelsOK, TemporaryStep DEF SameThread, Live, Working
<1>8. CASE Withhold(r)
  BY <1>8, WithholdOK, TemporaryStep DEF SameThread, Live, Working
<1>9. CASE Find(r)
  BY <1>9, FindOK, TemporaryStep DEF SameThread, Live, Working, KnowsSame
<1>10. CASE Edit(r)
  <2>1. local[r].target \in Live({"review"})
    BY <1>10, EditOK DEF TargetInv
  <2>2. \A c \in Live({"temporary"}) : thread'[c].by = thread[c].by
    BY <1>10, <2>1, EditOK DEF Live
  <2>. QED
    BY <1>10, <2>2, EditOK, TemporaryStep DEF Working
<1>11. CASE Announce(r)
  <2>1. \A c \in Live({"temporary"}) : thread'[c].by = thread[c].by
    BY <1>11, AnnounceOK DEF Live
  <2>. QED
    BY <1>11, <2>1, AnnounceOK, TemporaryStep DEF Working
<1>12. CASE Create(r)
  <2>1. \A c \in Live({"temporary"}) : thread'[c].by = thread[c].by
    BY <1>12, CreateOK DEF Live
  <2>. QED
    BY <1>12, <2>1, CreateOK, TemporaryStep DEF Working
<1>13. CASE Clean(r)
  <2>1. \A c \in Live({"temporary"}) : thread'[c].by = thread[c].by
    BY <1>13, CleanOK DEF Live
  <2>2. \/ local[r].temporary \notin Live({"temporary"})'
           /\ Live({"temporary"})' \subseteq Live({"temporary"})
        \/ r \in history'.undeleted /\ Live({"temporary"})' = Live({"temporary"})
    BY <1>13, CleanOK
  <2>. QED
    BY <1>13, <2>1, <2>2, CleanOK, TemporaryStep
<1>. QED
  BY <1>1, <1>2, <1>3, <1>4, <1>5, <1>6, <1>7, <1>8, <1>9, <1>10, <1>11, <1>12, <1>13
  DEF RequestStep

-----------------------------------------------------------------------------
(***************************************************************************)
(* The comment that is edited and announced.                               *)
(***************************************************************************)
LEMMA TargetOK ==
  ASSUME TypeOK, TemporaryInv, TargetInv, NEW r \in Requests, RequestStep(r)
  PROVE  TargetInv'
<1>1. Effect(r) /\ Live({"review"}) \subseteq Live({"review"})'
  BY StepOK
<1>2. ASSUME pc'[r] \in {"editing", "announcing"}
      PROVE  local'[r].target \in Live({"review"}) /\ ~local'[r].incremental
  <2>1. CASE Find(r)
    BY <1>2, <2>1, FindOK DEF KnowsSame, KnowsView
  <2>2. CASE Edit(r)
    BY <2>2, EditOK DEF TargetInv
  <2>3. CASE ~Find(r) /\ ~Edit(r)
    <3>1. pc'[r] \notin {"editing", "announcing"}
      BY <2>3, OpenOK, ListOK, SkipOK, PrepareOK, PredictOK, ReadLabelsOK, WriteLabelsOK,
         WithholdOK, AnnounceOK, CreateOK, CleanOK DEF RequestStep
    <3>. QED
      BY <1>2, <3>1
  <2>. QED
    BY <2>1, <2>2, <2>3
<1>. QED
  BY <1>1, <1>2 DEF TargetInv, Effect

-----------------------------------------------------------------------------
(***************************************************************************)
(* What r saw of the commits changes only when it begins and lists them.   *)
(***************************************************************************)
LEMMA ViewStep ==
  ASSUME TypeOK, TargetInv, NEW r \in Requests, RequestStep(r)
  PROVE  \/ Open(r)
         \/ List(r)
         \/ /\ KnowsView(r)
            /\ pc[r] \in Informed \cup {"cleaning"}
            /\ pc'[r] \notin {"idle", "opened", "skipping", "listed"}
<1>1. ASSUME local'[r] = local[r] PROVE KnowsView(r)
  BY <1>1 DEF KnowsView
<1>2. CASE Skip(r)
  BY <1>1, <1>2, SkipOK DEF Informed
<1>3. CASE Prepare(r)
  BY <1>3, PrepareOK DEF Informed
<1>4. CASE Predict(r)
  BY <1>4, PredictOK DEF Informed, KnowsSame
<1>5. CASE ReadLabels(r)
  BY <1>5, ReadLabelsOK DEF Informed, KnowsSame
<1>6. CASE WriteLabels(r)
  BY <1>1, <1>6, WriteLabelsOK DEF Informed
<1>7. CASE Withhold(r)
  BY <1>1, <1>7, WithholdOK DEF Informed
<1>8. CASE Find(r)
  BY <1>8, FindOK DEF Informed, KnowsSame
<1>9. CASE Edit(r)
  BY <1>1, <1>9, EditOK DEF Informed
<1>10. CASE Announce(r)
  BY <1>1, <1>10, AnnounceOK DEF Informed
<1>11. CASE Create(r)
  BY <1>1, <1>11, CreateOK DEF Informed
<1>12. CASE Clean(r)
  BY <1>1, <1>12, CleanOK DEF Informed
<1>. QED
  BY <1>2, <1>3, <1>4, <1>5, <1>6, <1>7, <1>8, <1>9, <1>10, <1>11, <1>12 DEF RequestStep

-----------------------------------------------------------------------------
(***************************************************************************)
(* What the persistent reviews show.                                       *)
(***************************************************************************)
Wrote == {"announcing", "creating", "cleaning", "done", "failed"}

\* Each review is one that there was, or that r writes.
Written(r) ==
  \A c \in DOMAIN thread' : thread'[c].kind = "review" =>
    \/ /\ c \in DOMAIN thread /\ thread[c].kind = "review"
       /\ thread'[c].by = thread[c].by /\ thread'[c].shows = thread[c].shows
    \/ /\ thread'[c].by = r
       /\ thread'[c].shows = local'[r].shows
       /\ pc'[r] \in Wrote

LEMMA WrittenSame ==
  ASSUME NEW r \in Requests, SameThread
  PROVE  Written(r)
BY DEF Written, SameThread

LEMMA WrittenMore ==
  ASSUME TypeOK, NEW r \in Requests, Kept, Len(thread') = Len(thread) + 1,
         \A c \in DOMAIN thread : thread'[c] = thread[c],
         \/ thread'[Len(thread) + 1].kind # "review"
         \/ /\ thread'[Len(thread) + 1].by = r
            /\ thread'[Len(thread) + 1].shows = local'[r].shows
            /\ pc'[r] \in Wrote
  PROVE  Written(r)
<1> SUFFICES ASSUME NEW c \in DOMAIN thread', thread'[c].kind = "review"
             PROVE  \/ /\ c \in DOMAIN thread /\ thread[c].kind = "review"
                       /\ thread'[c].by = thread[c].by
                       /\ thread'[c].shows = thread[c].shows
                    \/ /\ thread'[c].by = r
                       /\ thread'[c].shows = local'[r].shows
                       /\ pc'[r] \in Wrote
  BY DEF Written
<1>1. c \in DOMAIN thread \/ c = Len(thread) + 1
  BY Types DEF Kept
<1>. QED
  BY <1>1

LEMMA WrittenStep ==
  ASSUME TypeOK, TargetInv, NEW r \in Requests, RequestStep(r)
  PROVE  /\ Written(r)
         /\ pc[r] \in Wrote => pc'[r] \in Wrote /\ local'[r].shows = local[r].shows
<1>1. CASE Open(r) \/ List(r) \/ Predict(r) \/ ReadLabels(r) \/ WriteLabels(r)
           \/ Withhold(r) \/ Find(r)
  <2>1. SameThread /\ pc[r] \notin Wrote
    BY <1>1, OpenOK, ListOK, PredictOK, ReadLabelsOK, WriteLabelsOK, WithholdOK, FindOK
    DEF Wrote
  <2>. QED
    BY <2>1, WrittenSame
<1>2. CASE Skip(r)
  <2>1. /\ pc[r] \notin Wrote
        /\ \A c \in DOMAIN thread : thread'[c] = thread[c]
        /\ \A c \in DOMAIN thread' \ DOMAIN thread : thread'[c].kind = "skipped"
    BY <1>2, SkipOK DEF Wrote
  <2>. QED
    BY <2>1 DEF Written
<1>3. CASE Prepare(r)
  <2>1. /\ pc[r] \notin Wrote
        /\ \A c \in DOMAIN thread : thread'[c] = thread[c]
        /\ Kept
        /\ \/ SameThread
           \/ /\ Len(thread') = Len(thread) + 1
              /\ thread'[Len(thread) + 1].kind = "temporary"
    BY <1>3, PrepareOK DEF Wrote, Effect
  <2>. QED
    BY <2>1, WrittenSame, WrittenMore
<1>4. CASE Edit(r)
  <2>1. /\ pc[r] \notin Wrote /\ pc'[r] \in Wrote /\ local'[r] = local[r]
        /\ Len(thread') = Len(thread) /\ DOMAIN thread' = 1..Len(thread')
        /\ \A c \in DOMAIN thread \ {local[r].target} : thread'[c] = thread[c]
        /\ \/ /\ thread'[local[r].target].by = r
              /\ thread'[local[r].target].shows = local[r].shows
           \/ SameThread
    BY <1>4, EditOK DEF Wrote, Effect, Kept
  <2>2. CASE SameThread
    BY <2>1, <2>2, WrittenSame
  <2>3. CASE /\ thread'[local[r].target].by = r
             /\ thread'[local[r].target].shows = local[r].shows
    BY <2>1, <2>3, Types DEF Written
  <2>. QED
    BY <2>1, <2>2, <2>3
<1>5. CASE Announce(r)
  <2>1. /\ pc'[r] \in Wrote /\ local'[r] = local[r] /\ Kept
        /\ \A c \in DOMAIN thread : thread'[c] = thread[c]
    BY <1>5, AnnounceOK DEF Wrote, Effect
  <2>2. CASE SameThread
    BY <2>1, <2>2, WrittenSame
  <2>3. CASE ~SameThread
    <3>1. /\ Len(thread') = Len(thread) + 1
          /\ thread'[Len(thread) + 1] =
               Comment("announcement", r, {}, local[r].upto, local[r].target)
      BY <1>5, <2>3, AnnounceOK
    <3>2. thread'[Len(thread) + 1].kind = "announcement"
      BY <3>1 DEF Comment
    <3>. QED
      BY <2>1, <3>1, <3>2, WrittenMore
  <2>. QED
    BY <2>2, <2>3
<1>6. CASE Create(r)
  <2>1. /\ pc'[r] \in Wrote /\ local'[r] = local[r] /\ Kept
        /\ \A c \in DOMAIN thread : thread'[c] = thread[c]
    BY <1>6, CreateOK DEF Wrote, Effect
  <2>2. CASE SameThread
    BY <2>1, <2>2, WrittenSame
  <2>3. CASE ~SameThread
    <3>1. /\ Len(thread') = Len(thread) + 1
          /\ thread'[Len(thread) + 1] =
               Comment(IF local[r].incremental THEN "incremental" ELSE "review",
                       r, local[r].shows, 0, 0)
      BY <1>6, <2>3, CreateOK
    <3>2. /\ thread'[Len(thread) + 1].by = r
          /\ thread'[Len(thread) + 1].shows = local[r].shows
      BY <3>1 DEF Comment
    <3>. QED
      BY <2>1, <3>1, <3>2, WrittenMore
  <2>. QED
    BY <2>2, <2>3
<1>7. CASE Clean(r)
  <2>1. /\ pc'[r] \in Wrote /\ local'[r] = local[r]
        /\ Len(thread') = Len(thread) /\ DOMAIN thread' = 1..Len(thread')
        /\ \A c \in DOMAIN thread : /\ thread'[c].by = thread[c].by
                                    /\ thread'[c].shows = thread[c].shows
                                    /\ thread'[c].kind = thread[c].kind
    BY <1>7, CleanOK DEF Wrote, Effect, Kept
  <2>. QED
    BY <2>1, Types DEF Written
<1>. QED
  BY <1>1, <1>2, <1>3, <1>4, <1>5, <1>6, <1>7 DEF RequestStep

LEMMA ShowsOK ==
  ASSUME TypeOK, TemporaryInv, TargetInv, ShowsInv, NEW r \in Requests, RequestStep(r)
  PROVE  ShowsInv'
<1>1. Effect(r)
  BY StepOK
<1>2. ASSUME NEW c \in DOMAIN thread', thread'[c].kind = "review"
      PROVE  LET q == thread'[c].by
             IN  pc'[q] \in Wrote /\ thread'[c].shows = local'[q].shows
  <2>1. CASE /\ c \in DOMAIN thread /\ thread[c].kind = "review"
             /\ thread'[c].by = thread[c].by /\ thread'[c].shows = thread[c].shows
    <3> DEFINE q == thread[c].by
    <3>1. pc[q] \in Wrote /\ thread[c].shows = local[q].shows
      BY <2>1 DEF ShowsInv, Wrote
    <3>2. thread[c] \in Comments
      BY <2>1, Types
    <3>3. q \in Requests
      BY <3>2 DEF Comments
    <3> HIDE DEF q
    <3>4. pc'[q] \in Wrote /\ local'[q].shows = local[q].shows
      BY <1>1, <3>1, <3>3, WrittenStep DEF Effect
    <3>. QED
      BY <2>1, <3>1, <3>4 DEF q
  <2>2. CASE /\ thread'[c].by = r
             /\ thread'[c].shows = local'[r].shows
             /\ pc'[r] \in Wrote
    BY <2>2
  <2>. QED
    BY <1>2, <2>1, <2>2, WrittenStep DEF Written
<1>3. ASSUME NEW x \in Requests, NEW q \in history'.before[x]
      PROVE  /\ pc'[q] \in Ended
             /\ pc'[x] \in Informed /\ ~local'[x].incremental =>
                  local'[q].shows \subseteq local'[x].shows
  <2>1. \A y \in Requests : history.before[y] \subseteq Requests
                            /\ history'.before[y] \subseteq Requests
    BY <1>1 DEF TypeOK, Effect, HistoryOK, Histories
  <2>2. \A y \in history.before[x] :
          /\ pc[y] \in Ended
          /\ pc[x] \in Informed /\ ~local[x].incremental =>
               local[y].shows \subseteq local[x].shows
    BY DEF ShowsInv
  <2>3. \A y \in Requests : pc[y] \in Ended => y # r /\ pc'[y] \in Ended /\ local'[y] = local[y]
    BY <1>1 DEF Effect
  <2>4. CASE Open(r) /\ x = r
    <3>1. pc'[r] \notin Informed /\ pc[q] \in Ended /\ q \in Requests
      BY <1>3, <2>4, OpenOK DEF Informed
    <3>. QED
      BY <2>3, <2>4, <3>1
  <2>5. CASE ~(Open(r) /\ x = r)
    <3>1. history'.before[x] = history.before[x]
      BY <1>1, <2>5 DEF Effect, HistoryOK, RequestStep, List, Skip, Prepare, Predict,
         ReadLabels, WriteLabels, Withhold, Find, Edit, Announce, Create, Clean
    <3>2. q \in history.before[x] /\ q \in Requests
      BY <1>3, <2>1, <3>1
    <3>3. pc'[q] \in Ended /\ local'[q] = local[q] /\ q # r
      BY <2>2, <2>3, <3>2
    <3>4. CASE x # r
      BY <1>1, <2>2, <3>2, <3>3, <3>4 DEF Effect
    <3>5. CASE x = r /\ List(r)
      <4>1. local[q].shows \subseteq DOMAIN commits
        BY <3>2 DEF TypeOK
      <4>2. \/ pc'[r] \notin Informed
            \/ local'[r].incremental
            \/ local'[r].shows = DOMAIN commits
        BY <3>5, ListOK DEF Informed
      <4>. QED
        BY <3>3, <3>5, <4>1, <4>2
    <3>6. CASE x = r /\ ~List(r)
      <4>1. KnowsView(r) /\ (pc'[r] \in Informed => pc[r] \in Informed)
        BY <2>5, <3>6, ViewStep, CleanOK DEF Informed, RequestStep, Skip, Prepare, Predict,
         ReadLabels, WriteLabels, Withhold, Find, Edit, Announce, Create
      <4>. QED
        BY <2>2, <3>2, <3>3, <3>6, <4>1 DEF KnowsView
    <3>. QED
      BY <3>4, <3>5, <3>6
  <2>. QED
    BY <2>4, <2>5
<1>. QED
  BY <1>2, <1>3 DEF ShowsInv, Wrote

-----------------------------------------------------------------------------
(***************************************************************************)
(* The commits that are covered.                                           *)
(***************************************************************************)
\* A commit that is covered stays covered.
LEMMA CoveredStays ==
  ASSUME TypeOK, NEW i \in DOMAIN commits, Covered(i),
         Len(commits') \in Nat, Len(commits) <= Len(commits'),
         \A j \in DOMAIN commits : commits'[j] = commits[j],
         history.published \subseteq history'.published,
         history.during \subseteq history'.during
  PROVE  Covered(i)'
<1>1. CASE i \in history.published \cup history.during
  BY <1>1 DEF Covered
<1>2. CASE \E j \in i..Len(commits) : commits[j].authored < commits[j].pushed
  <2>1. PICK j \in i..Len(commits) : commits[j].authored < commits[j].pushed
    BY <1>2
  <2>2. j \in DOMAIN commits /\ j \in i..Len(commits')
    BY <2>1, Types
  <2>. QED
    BY <2>1, <2>2 DEF Covered
<1>. QED
  BY <1>1, <1>2 DEF Covered

LEMMA CoveredAfter ==
  ASSUME TypeOK, NEW r \in Requests, Effect(r), NEW i \in DOMAIN commits, Covered(i)
  PROVE  Covered(i)'
BY CoveredStays, Types DEF Effect, HistoryOK

(***************************************************************************)
(* What get_commit_range leaves out was pushed before the review it starts *)
(* from, or a commit that was authored early hides it.                     *)
(***************************************************************************)
LEMMA RangeOK ==
  ASSUME TypeOK, CoverInv, NEW r \in Requests, Live(Reviews) # {},
         NEW i \in 1..local[r].upto,
         i \notin NewCommits(r, thread[Newest(Live(Reviews))].created)
  PROVE  Covered(i)
<1> DEFINE n == Newest(Live(Reviews))
<1>1. n \in Live(Reviews)
  BY Types, NewestOK DEF Live
<1>2. PICK j \in i..local[r].upto : ~(commits[j].authored > thread[n].created)
  BY DEF NewCommits
<1>3. i \in DOMAIN commits /\ j \in DOMAIN commits /\ i <= j /\ j \in i..Len(commits)
  BY Types, CommitsOK
<1>4. /\ commits[j].authored \in Nat /\ commits[j].pushed \in Nat
      /\ commits[i].pushed \in Nat
      /\ commits[j].authored <= commits[j].pushed
  BY <1>3, Types DEF TypeOK, CommitTimes
<1>5. thread[n] \in Comments
  BY <1>1, Types DEF Live
<1>6. thread[n].created \in Nat
  BY <1>5 DEF Comments
<1> HIDE DEF n
<1>7. CASE commits[j].authored < commits[j].pushed
  BY <1>3, <1>7 DEF Covered
<1>8. CASE commits[j].authored = commits[j].pushed
  <2>1. commits[i].pushed <= commits[j].pushed
    BY <1>3 DEF CoverInv
  <2>2. commits[i].pushed <= thread[n].created
    BY <1>2, <1>4, <1>6, <1>8, <2>1
  <2>. QED
    BY <1>1, <1>3, <2>2 DEF CoverInv
<1>. QED
  BY <1>4, <1>7, <1>8

\* The commits r does not know of were pushed while it was going on, and those
\* it knows of and does not show are covered.
LEMMA CoverOwn ==
  ASSUME TypeOK, TargetInv, CoverInv, NEW r \in Requests, RequestStep(r), Effect(r),
         NEW i \in DOMAIN commits
  PROVE  /\ pc'[r] \in Informed \cup {"opened"} /\ i > local'[r].upto =>
              i \in history'.during
         /\ pc'[r] \in Informed => i \in local'[r].shows \/ Covered(i)'
         /\ pc'[r] = "skipping" => local'[r].shows = {}
<1>1. history'.during = history.during /\ commits' = commits
  BY DEF Effect, HistoryOK
<1>2. CASE Open(r)
  BY <1>2, OpenOK, Types DEF Informed
<1>3. CASE List(r)
  <2>1. pc[r] = "opened" /\ local'[r].upto = local[r].upto
    BY <1>3, ListOK
  <2>2. i > local[r].upto => i \in history.during
    BY <2>1 DEF CoverInv
  <2>3. CASE pc'[r] = "failed"
    BY <2>3 DEF Informed
  <2>4. CASE ~local'[r].incremental /\ local'[r].shows = DOMAIN commits /\ pc'[r] = "listed"
    BY <1>1, <2>1, <2>2, <2>4
  <2>5. CASE /\ Live(Reviews) # {}
             /\ local'[r].shows = NewCommits(r, thread[Newest(Live(Reviews))].created)
             /\ pc'[r] = IF local'[r].shows = {} THEN "skipping" ELSE "listed"
    <3>1. i \in local'[r].shows \/ Covered(i)
      <4>1. CASE i > local[r].upto
        BY <2>2, <4>1 DEF Covered
      <4>2. CASE i <= local[r].upto
        <5>1. i \in 1..local[r].upto
          BY <4>2, Types
        <5>. QED
          BY <2>5, <5>1, RangeOK
      <4>. QED
        BY <4>1, <4>2, Types
    <3>2. i \in local'[r].shows \/ Covered(i)'
      BY <3>1, CoveredAfter
    <3>. QED
      BY <1>1, <2>1, <2>2, <2>5, <3>2
  <2>. QED
    BY <1>3, <2>3, <2>4, <2>5, ListOK
<1>4. CASE /\ KnowsView(r)
           /\ pc[r] \in Informed \cup {"cleaning"}
           /\ pc'[r] \notin {"idle", "opened", "skipping", "listed"}
  <2>1. CASE pc[r] \in Informed
    <3>1. /\ i > local[r].upto => i \in history.during
          /\ i \in local[r].shows \/ Covered(i)
      BY <2>1 DEF CoverInv
    <3>2. i \in local[r].shows \/ Covered(i)'
      BY <3>1, CoveredAfter
    <3>. QED
      BY <1>1, <1>4, <3>1, <3>2 DEF KnowsView
  <2>2. CASE pc[r] = "cleaning"
    <3>1. pc'[r] = "done"
      BY <2>2, CleanOK DEF RequestStep, Open, List, Skip, Prepare, Predict, ReadLabels,
         WriteLabels, Withhold, Find, Edit, Announce, Create
    <3>. QED
      BY <3>1 DEF Informed
  <2>. QED
    BY <1>4, <2>1, <2>2
<1>. QED
  BY <1>2, <1>3, <1>4, ViewStep

\* A request that has reported covered the commits it knew of.
LEMMA CoverReported ==
  ASSUME TypeOK, TargetInv, CoverInv, NEW r \in Requests, RequestStep(r), Effect(r),
         NEW i \in DOMAIN commits, Reported(r)', i <= local'[r].upto
  PROVE  Covered(i)'
<1>1. ASSUME pc[r] \in Informed, local'[r] = local[r],
             local[r].shows \subseteq history'.published
      PROVE  Covered(i)'
  <2>1. i \in local[r].shows \/ Covered(i)
    BY <1>1 DEF CoverInv
  <2>. QED
    BY <1>1, <2>1, CoveredAfter DEF Covered
<1>2. ASSUME Reported(r), local'[r] = local[r] PROVE Covered(i)'
  <2>1. Covered(i)
    BY <1>2 DEF CoverInv
  <2>. QED
    BY <2>1, CoveredAfter
<1>3. /\ pc'[r] \in {"announcing", "cleaning", "done"}
      /\ local'[r].outcome \in {"none", "review"}
      /\ r \notin history'.unedited
  BY DEF Reported
<1>4. CASE Skip(r)
  <2>1. pc[r] = "skipping" /\ local'[r] = local[r]
    BY <1>4, SkipOK
  <2>2. local[r].shows = {} /\ (i \in local[r].shows \/ Covered(i))
    BY <2>1 DEF CoverInv, Informed
  <2>. QED
    BY <2>2, CoveredAfter
<1>5. CASE Edit(r)
  <2>1. pc[r] \in Informed /\ local'[r] = local[r] /\ local[r].shows \subseteq history'.published
    BY <1>3, <1>5, EditOK DEF Informed
  <2>. QED
    BY <1>1, <2>1
<1>6. CASE Announce(r)
  <2>1. pc[r] = "announcing" /\ local'[r] = local[r] /\ history'.unedited = history.unedited
    BY <1>6, AnnounceOK
  <2>. QED
    BY <1>2, <1>3, <2>1 DEF Reported
<1>7. CASE Create(r)
  <2>1. pc[r] \in Informed /\ local'[r] = local[r] /\ local[r].shows \subseteq history'.published
    BY <1>3, <1>7, CreateOK DEF Informed
  <2>. QED
    BY <1>1, <2>1
<1>8. CASE Clean(r)
  <2>1. pc[r] = "cleaning" /\ local'[r] = local[r] /\ history'.unedited = history.unedited
    BY <1>8, CleanOK
  <2>. QED
    BY <1>2, <1>3, <2>1 DEF Reported
<1>9. ~Open(r) /\ ~List(r) /\ ~Prepare(r) /\ ~Predict(r) /\ ~ReadLabels(r) /\ ~WriteLabels(r)
      /\ ~Withhold(r) /\ ~Find(r)
  BY <1>3, OpenOK, ListOK, PrepareOK, PredictOK, ReadLabelsOK, WriteLabelsOK, WithholdOK,
     FindOK
<1>. QED
  BY <1>4, <1>5, <1>6, <1>7, <1>8, <1>9 DEF RequestStep

\* The reviews there are were there, or r has just published one.
LEMMA ReviewsStep ==
  ASSUME TypeOK, TargetInv, NEW r \in Requests, RequestStep(r), NEW c \in Live(Reviews)'
  PROVE  \/ c \in Live(Reviews)
         \/ pc[r] = "creating" /\ local[r].shows \subseteq history'.published
<1>1. CASE SameThread
  BY <1>1 DEF SameThread, Live
<1>2. CASE Live(Reviews)' \subseteq Live(Reviews)
  BY <1>2
<1>3. CASE Create(r) /\ ~SameThread
  BY <1>3, CreateOK
<1>4. CASE Clean(r)
  BY <1>4, CleanOK
<1>5. CASE ~SameThread /\ ~Create(r) /\ ~Clean(r)
  <2>1. Skip(r) \/ Prepare(r) \/ Edit(r) \/ Announce(r)
    BY <1>5, OpenOK, ListOK, PredictOK, ReadLabelsOK, WriteLabelsOK, WithholdOK, FindOK
    DEF RequestStep
  <2>2. Live(Reviews)' = Live(Reviews)
    BY <2>1, SkipOK, PrepareOK, EditOK, AnnounceOK
  <2>. QED
    BY <2>2
<1>. QED
  BY <1>1, <1>2, <1>3, <1>4, <1>5

LEMMA CoverOK ==
  ASSUME TypeOK, TemporaryInv, TargetInv, CoverInv, NEW r \in Requests, RequestStep(r)
  PROVE  CoverInv'
<1>1. Effect(r)
  BY StepOK
<1>2. commits' = commits /\ DOMAIN commits' = DOMAIN commits /\ history'.during = history.during
  BY <1>1 DEF Effect, HistoryOK
<1>3. \A i, j \in DOMAIN commits' : i <= j => commits'[i].pushed <= commits'[j].pushed
  BY <1>2 DEF CoverInv
<1>4. ASSUME NEW c \in Live(Reviews)', NEW i \in DOMAIN commits,
             commits[i].pushed <= thread'[c].created
      PROVE  Covered(i)'
  <2>1. CASE c \in Live(Reviews)
    <3>1. thread'[c].created = thread[c].created
      BY <1>1, <2>1 DEF Effect, Kept, Live
    <3>2. Covered(i)
      BY <1>4, <2>1, <3>1 DEF CoverInv
    <3>. QED
      BY <1>1, <3>2, CoveredAfter
  <2>2. CASE pc[r] = "creating" /\ local[r].shows \subseteq history'.published
    <3>1. i \in local[r].shows \/ Covered(i)
      BY <2>2 DEF CoverInv, Informed
    <3>. QED
      BY <1>1, <2>2, <3>1, CoveredAfter DEF Covered
  <2>. QED
    BY <2>1, <2>2, ReviewsStep
<1>5. ASSUME NEW q \in Requests, NEW i \in DOMAIN commits
      PROVE  /\ pc'[q] \in Informed \cup {"opened"} /\ i > local'[q].upto =>
                  i \in history'.during
             /\ pc'[q] \in Informed => i \in local'[q].shows \/ Covered(i)'
             /\ pc'[q] = "skipping" => local'[q].shows = {}
             /\ Reported(q)' /\ i <= local'[q].upto => Covered(i)'
  <2>1. CASE q = r
    BY <1>1, <2>1, CoverOwn, CoverReported
  <2>2. CASE q # r
    <3>1. pc'[q] = pc[q] /\ local'[q] = local[q]
      BY <1>1, <2>2 DEF Effect
    <3>2. Reported(q)' => Reported(q)
      BY <1>1, <3>1 DEF Reported, Effect, HistoryOK
    <3>3. /\ pc[q] \in Informed \cup {"opened"} /\ i > local[q].upto =>
               i \in history.during
          /\ pc[q] \in Informed => i \in local[q].shows \/ Covered(i)
          /\ pc[q] = "skipping" => local[q].shows = {}
          /\ Reported(q) /\ i <= local[q].upto => Covered(i)
      BY DEF CoverInv
    <3>4. Covered(i) => Covered(i)'
      BY <1>1, CoveredAfter
    <3>. QED
      BY <1>2, <3>1, <3>2, <3>3, <3>4
  <2>. QED
    BY <2>1, <2>2
<1>. QED
  BY <1>2, <1>3, <1>4, <1>5 DEF CoverInv

\* A commit that is pushed while a review is going on is recorded as such.
LEMMA CoverPush ==
  ASSUME TypeOK, CoverInv, NEW lag \in Lags, Push(lag)
  PROVE  CoverInv'
<1> DEFINE n == Len(commits) + 1
<1>1. /\ TypeOK'
      /\ UNCHANGED <<request, thread, labels, pc, loop, local>>
      /\ Len(commits') = n
      /\ \A i \in DOMAIN commits : commits'[i] = commits[i]
      /\ commits'[n].pushed = clock + 1
      /\ history'.published = history.published
      /\ history'.unedited = history.unedited
      /\ history.during \subseteq history'.during
      /\ (\E r \in Requests : Busy(r)) => n \in history'.during
  BY PushOK
<1>2. /\ Len(commits) \in Nat /\ DOMAIN commits = 1..Len(commits)
      /\ DOMAIN commits' = 1..n /\ n \in Nat /\ clock \in Nat
  <2>1. DOMAIN commits' = 1..Len(commits')
    BY <1>1, Types
  <2>. QED
    BY <1>1, <2>1, Types DEF TypeOK
<1>3. ASSUME NEW i \in DOMAIN commits
      PROVE  /\ commits[i].pushed <= clock /\ commits[i].pushed \in Nat
             /\ Covered(i) => Covered(i)'
  <2>1. commits[i].pushed <= clock /\ commits[i].pushed \in Nat
    BY Types DEF TypeOK, CommitTimes
  <2>2. Covered(i) => Covered(i)'
    BY <1>1, <1>2, CoveredStays
  <2>. QED
    BY <2>1, <2>2
<1> HIDE DEF n
<1>4. ASSUME NEW i \in DOMAIN commits', NEW j \in DOMAIN commits', i <= j
      PROVE  commits'[i].pushed <= commits'[j].pushed
  <2>1. CASE j = n
    <3>1. CASE i = n
      BY <1>1, <1>2, <2>1, <3>1
    <3>2. CASE i # n
      <4>1. i \in DOMAIN commits
        BY <1>2, <3>2 DEF n
      <4>. QED
        BY <1>1, <1>2, <1>3, <2>1, <4>1
    <3>. QED
      BY <3>1, <3>2
  <2>2. CASE j # n
    <3>1. i \in DOMAIN commits /\ j \in DOMAIN commits
      BY <1>2, <1>4, <2>2 DEF n
    <3>. QED
      BY <1>1, <1>4, <3>1 DEF CoverInv
  <2>. QED
    BY <2>1, <2>2
<1>5. ASSUME NEW c \in Live(Reviews)', NEW i \in DOMAIN commits',
             commits'[i].pushed <= thread'[c].created
      PROVE  Covered(i)'
  <2>1. c \in Live(Reviews) /\ thread'[c] = thread[c]
    BY <1>1 DEF Live
  <2>2. thread[c].created \in Nat /\ thread[c].created <= clock
    BY <2>1 DEF TypeOK, Live
  <2>3. i # n
    BY <1>1, <1>2, <1>5, <2>1, <2>2
  <2>4. i \in DOMAIN commits
    BY <1>2, <2>3 DEF n
  <2>5. Covered(i)
    BY <1>1, <1>5, <2>1, <2>4 DEF CoverInv
  <2>. QED
    BY <1>3, <2>4, <2>5
<1>6. ASSUME NEW q \in Requests, NEW i \in DOMAIN commits'
      PROVE  /\ pc'[q] \in Informed \cup {"opened"} /\ i > local'[q].upto =>
                  i \in history'.during
             /\ pc'[q] \in Informed => i \in local'[q].shows \/ Covered(i)'
             /\ pc'[q] = "skipping" => local'[q].shows = {}
             /\ Reported(q)' /\ i <= local'[q].upto => Covered(i)'
  <2>1. pc'[q] = pc[q] /\ local'[q] = local[q] /\ (Reported(q)' <=> Reported(q))
    BY <1>1 DEF Reported
  <2>2. 1 \in DOMAIN commits
    BY Types
  <2>3. pc[q] = "skipping" => local[q].shows = {}
    BY <2>2 DEF CoverInv
  <2>4. CASE i = n
    <3>1. pc[q] \in Informed \cup {"opened"} => Busy(q)
      BY DEF Busy, Informed, Synchronous
    <3>2. local[q].upto \in Nat /\ local[q].upto <= Len(commits)
      BY Types DEF TypeOK
    <3>3. ~(i <= local[q].upto)
      BY <1>2, <2>4, <3>2 DEF n
    <3>. QED
      BY <1>1, <2>1, <2>3, <2>4, <3>1, <3>3 DEF Covered
  <2>5. CASE i # n
    <3>1. i \in DOMAIN commits
      BY <1>2, <2>5 DEF n
    <3>2. /\ pc[q] \in Informed \cup {"opened"} /\ i > local[q].upto =>
               i \in history.during
          /\ pc[q] \in Informed => i \in local[q].shows \/ Covered(i)
          /\ Reported(q) /\ i <= local[q].upto => Covered(i)
      BY <3>1 DEF CoverInv
    <3>. QED
      BY <1>1, <1>3, <2>1, <2>3, <3>1, <3>2
  <2>. QED
    BY <2>4, <2>5
<1>. QED
  BY <1>4, <1>5, <1>6 DEF CoverInv

-----------------------------------------------------------------------------
(***************************************************************************)
(* One worker.                                                             *)
(***************************************************************************)
\* While a task has the loop of the only worker, no other goes on.
LEMMA Alone ==
  ASSUME TypeOK, OneWorker, NEW r \in Requests, NEW q \in Requests,
         pc[q] \in Synchronous, LoopFree(r) \/ pc[r] \in Synchronous
  PROVE  q = r
<1>1. request[q].worker = request[r].worker /\ q # None
  BY Types DEF OneWorker
<1>2. loop[request[q].worker] = q /\ (pc[r] \in Synchronous => loop[request[r].worker] = r)
  BY DEF TypeOK, HasLoop
<1>. QED
  BY <1>1, <1>2 DEF LoopFree

\* There are as many reviews as there were, unless r creates one.
LEMMA CountStep ==
  ASSUME TypeOK, TemporaryInv, TargetInv, NEW r \in Requests, RequestStep(r)
  PROVE  \/ Live({"review"})' = Live({"review"})
         \/ /\ pc[r] = "creating" /\ pc'[r] = "cleaning"
            /\ ~local[r].incremental
            /\ Live({"review"})' = Live({"review"}) \cup {Len(thread) + 1}
<1>1. CASE SameThread
  BY <1>1 DEF SameThread, Live
<1>2. CASE Create(r) /\ ~SameThread
  BY <1>2, CreateOK
<1>3. CASE Clean(r)
  <2>1. \/ Live({"review"})' = Live({"review"}) \ {local[r].temporary}
        \/ Live({"review"})' = Live({"review"})
    BY <1>3, CleanOK
  <2>2. Live({"review"}) \ {local[r].temporary} = Live({"review"})
    BY NotTemporary
  <2>. QED
    BY <2>1, <2>2
<1>4. CASE ~SameThread /\ ~Create(r) /\ ~Clean(r)
  <2>1. Skip(r) \/ Prepare(r) \/ Edit(r) \/ Announce(r)
    BY <1>4, OpenOK, ListOK, PredictOK, ReadLabelsOK, WriteLabelsOK, WithholdOK, FindOK
    DEF RequestStep
  <2>. QED
    BY <2>1, SkipOK, PrepareOK, EditOK, AnnounceOK
<1>. QED
  BY <1>1, <1>2, <1>3, <1>4

LEMMA FiniteReviews ==
  ASSUME TypeOK
  PROVE  IsFiniteSet(Live({"review"})) /\ Cardinality(Live({"review"})) \in Nat
<1>1. Live({"review"}) \subseteq 1..Len(thread)
  BY Types DEF Live
<1>2. IsFiniteSet(1..Len(thread))
  BY Types, FS_Interval
<1>. QED
  BY <1>1, <1>2, FS_Subset, FS_CardinalityType

LEMMA ReviewOK ==
  ASSUME TypeOK, TemporaryInv, TargetInv, ReviewInv, NEW r \in Requests, RequestStep(r)
  PROVE  ReviewInv'
<1> SUFFICES ASSUME OneWorker
             PROVE  /\ Cardinality(Live({"review"})') <= 1 + history'.blind
                    /\ \A q \in Requests :
                         /\ pc'[q] = "creating" /\ ~local'[q].incremental =>
                              Cardinality(Live({"review"})') <= history'.blind
                         /\ pc'[q] = "announcing" /\ q \notin history'.unedited =>
                              /\ thread'[local'[q].target].by = q
                              /\ thread'[local'[q].target].upto = local'[q].upto
  BY DEF ReviewInv, OneWorker
<1> DEFINE n == Cardinality(Live({"review"}))
           m == Cardinality(Live({"review"})')
<1>1. Effect(r)
  BY StepOK
<1>2. /\ history.blind \in Nat /\ history'.blind \in Nat /\ history.blind <= history'.blind
      /\ n \in Nat /\ n <= 1 + history.blind
  BY <1>1, FiniteReviews DEF Effect, HistoryOK, ReviewInv
<1>3. ASSUME NEW q \in Requests, pc'[q] \in {"creating", "announcing"} PROVE q = r
  <2>1. CASE q # r
    <3>1. pc[q] \in Synchronous
      BY <1>1, <1>3, <2>1 DEF Effect, Synchronous
    <3>. QED
      BY <1>1, <3>1, Alone DEF Effect
  <2>. QED
    BY <2>1
<1>4. m \in Nat /\ m <= 1 + history'.blind
  <2>1. CASE Live({"review"})' = Live({"review"})
    BY <1>2, <2>1
  <2>2. CASE /\ pc[r] = "creating" /\ ~local[r].incremental
             /\ Live({"review"})' = Live({"review"}) \cup {Len(thread) + 1}
    <3>1. m = n \/ m = n + 1
      BY <2>2, FiniteReviews, FS_AddElement
    <3>2. n <= history.blind
      BY <2>2 DEF ReviewInv
    <3>. QED
      BY <1>2, <3>1, <3>2
  <2>. QED
    BY <2>1, <2>2, CountStep
<1>5. ASSUME pc'[r] = "creating", ~local'[r].incremental PROVE m <= history'.blind
  <2>1. m = n
    <3>1. Live({"review"})' = Live({"review"})
      BY <1>5, CountStep
    <3>. QED
      BY <3>1
  <2>2. Find(r) \/ Announce(r)
    BY <1>5, OpenOK, ListOK, SkipOK, PrepareOK, PredictOK, ReadLabelsOK, WriteLabelsOK,
       WithholdOK, EditOK, CreateOK, CleanOK DEF RequestStep
  <2>3. Live({"review"}) = {} \/ history'.blind = history.blind + 1
    BY <1>5, <2>2, FindOK, AnnounceOK DEF KnowsSame, KnowsView
  <2>4. Live({"review"}) = {} => n = 0
    BY FS_EmptySet
  <2>. QED
    BY <1>2, <2>1, <2>3, <2>4
<1>6. ASSUME pc'[r] = "announcing", r \notin history'.unedited
      PROVE  /\ thread'[local'[r].target].by = r
             /\ thread'[local'[r].target].upto = local'[r].upto
  <2>1. Edit(r)
    BY <1>6, OpenOK, ListOK, SkipOK, PrepareOK, PredictOK, ReadLabelsOK, WriteLabelsOK,
       WithholdOK, FindOK, AnnounceOK, CreateOK, CleanOK DEF RequestStep
  <2>. QED
    BY <1>6, <2>1, EditOK
<1>. QED
  BY <1>3, <1>4, <1>5, <1>6

-----------------------------------------------------------------------------
(***************************************************************************)
(* The invariant.                                                          *)
(***************************************************************************)
LEMMA InitIInv == Init => IInv
<1> SUFFICES ASSUME Init PROVE IInv
  OBVIOUS
<1> DEFINE first == [authored |-> 1, pushed |-> 1]
<1>1. /\ request \in [Requests -> [worker : Workers, is : Kinds]]
      /\ commits = <<first>> /\ clock = 1 /\ thread = <<>> /\ labels = {}
      /\ pc = [r \in Requests |-> "idle"] /\ loop = [w \in Workers |-> None]
      /\ failures = 0
  BY DEF Init
<1>2. MaxPushes \in Nat /\ MaxFailures \in Nat /\ None \notin Requests
      /\ Kinds \subseteq [incremental : BOOLEAN, auto : BOOLEAN, effort : Efforts]
  BY ReviewSessionAssumption
<1>3. /\ first \in CommitTimes /\ first.authored = 1 /\ first.pushed = 1
      /\ commits \in Seq(CommitTimes) /\ Len(commits) = 1 /\ DOMAIN commits = 1..1
      /\ commits[1] = first
  BY <1>1 DEF CommitTimes
<1>4. thread \in Seq(Comments) /\ Len(thread) = 0 /\ DOMAIN thread = {}
  BY <1>1, EmptySeq
<1>5. ASSUME NEW r \in Requests
      PROVE  /\ local[r] \in Locals /\ local[r].upto = 0 /\ local[r].shows = {}
             /\ local[r].target = 0 /\ local[r].temporary = 0
  <2>1. request[r].is.incremental \in BOOLEAN
    <3>1. request[r].is \in Kinds
      BY <1>1
    <3>. QED
      BY <1>2, <3>1
  <2>2. local[r] = [upto |-> 0, shows |-> {}, incremental |-> request[r].is.incremental,
                    outcome |-> "none", seen |-> {}, target |-> 0, temporary |-> 0]
    BY DEF Init
  <2>. QED
    BY <1>2, <2>1, <2>2 DEF Locals
<1>6. local \in [Requests -> Locals]
  <2>1. local = [r \in Requests |-> local[r]]
    BY DEF Init
  <2>. QED
    BY <1>5, <2>1
<1>7. /\ history \in Histories /\ history.blind = 0
      /\ history.before = [r \in Requests |-> {}]
  <2>1. history = [published |-> {}, during |-> {}, before |-> [r \in Requests |-> {}],
                   unedited |-> {}, undeleted |-> {}, blind |-> 0]
    BY DEF Init
  <2>. QED
    BY <2>1 DEF Histories
<1>8. TypeOK
  <2>1. Len(commits) \in CommitIds
    BY <1>2, <1>3 DEF CommitIds
  <2>2. \A i \in DOMAIN commits : 1 <= commits[i].authored
                               /\ commits[i].authored <= commits[i].pushed
                               /\ commits[i].pushed <= clock
    BY <1>1, <1>3
  <2>3. \A r \in Requests : pc[r] \in Synchronous <=> HasLoop(r)
    BY <1>1, <1>2 DEF Synchronous, HasLoop
  <2>. QED
    BY <1>1, <1>2, <1>3, <1>4, <1>5, <1>6, <1>7, <2>1, <2>2, <2>3 DEF TypeOK
<1>9. LabelInv
  BY <1>1 DEF LabelInv
<1>10. TemporaryInv /\ TargetInv
  BY <1>1, <1>4, <1>5 DEF TemporaryInv, TargetInv, Live
<1>11. ShowsInv
  BY <1>4, <1>7 DEF ShowsInv
<1>12. CoverInv
  BY <1>1, <1>3, <1>4, <1>5 DEF CoverInv, Live, Informed, Reported
<1>13. ReviewInv
  <2>1. Live({"review"}) = {}
    BY <1>4 DEF Live
  <2>2. Cardinality(Live({"review"})) = 0
    BY <2>1, FS_EmptySet
  <2>. QED
    BY <1>1, <1>7, <2>2 DEF ReviewInv
<1>. QED
  BY <1>8, <1>9, <1>10, <1>11, <1>12, <1>13 DEF IInv

LEMMA RequestIInv ==
  ASSUME IInv, NEW r \in Requests, RequestStep(r)
  PROVE  IInv'
BY StepOK, LabelOK, TemporaryOK, TargetOK, ShowsOK, CoverOK, ReviewOK DEF IInv

LEMMA PushIInv ==
  ASSUME IInv, NEW lag \in Lags, Push(lag)
  PROVE  IInv'
<1>1. /\ TypeOK' /\ UNCHANGED <<request, thread, labels, pc, loop, local>>
      /\ history'.before = history.before
      /\ history'.unedited = history.unedited
      /\ history'.undeleted = history.undeleted
      /\ history'.blind = history.blind
  BY PushOK DEF IInv
<1>2. CoverInv'
  BY CoverPush DEF IInv
<1>3. LabelInv' /\ TemporaryInv' /\ TargetInv'
  BY <1>1 DEF IInv, LabelInv, TemporaryInv, TargetInv, Live
<1>4. ShowsInv'
  BY <1>1 DEF IInv, ShowsInv
<1>5. ReviewInv'
  <2>1. Live({"review"})' = Live({"review"})
    BY <1>1 DEF Live
  <2>. QED
    BY <1>1, <2>1 DEF IInv, ReviewInv, OneWorker
<1>. QED
  BY <1>1, <1>2, <1>3, <1>4, <1>5 DEF IInv

\* What the invariant says of all but the labels does not change with them.
LEMMA LabelsIInv ==
  ASSUME IInv, TypeOK', LabelInv',
         UNCHANGED <<request, commits, clock, thread, pc, loop, local, history>>
  PROVE  IInv'
<1>1. \A kinds : Live(kinds)' = Live(kinds)
  BY DEF Live
<1>2. \A i : Covered(i)' <=> Covered(i)
  BY DEF Covered
<1>3. \A r : Reported(r)' <=> Reported(r)
  BY DEF Reported
<1>4. TemporaryInv' /\ TargetInv'
  BY <1>1 DEF IInv, TemporaryInv, TargetInv
<1>5. ShowsInv'
  BY DEF IInv, ShowsInv
<1>6. CoverInv'
  BY <1>1, <1>2, <1>3 DEF IInv, CoverInv
<1>7. ReviewInv'
  <2>1. Live({"review"})' = Live({"review"})
    BY <1>1
  <2>. QED
    BY <2>1 DEF IInv, ReviewInv, OneWorker
<1>. QED
  BY <1>4, <1>5, <1>6, <1>7 DEF IInv

LEMMA NextIInv == IInv /\ [Next]_vars => IInv'
<1> SUFFICES ASSUME IInv, [Next]_vars PROVE IInv'
  OBVIOUS
<1>1. CASE \E lag \in Lags : Push(lag)
  BY <1>1, PushIInv
<1>2. CASE AddLabel
  <2>1. /\ TypeOK' /\ labels' = labels \cup {UserLabel}
        /\ UNCHANGED <<request, commits, clock, thread, pc, loop, local, history>>
    BY <1>2, AddLabelOK DEF IInv
  <2>2. LabelInv'
    BY <2>1, ReviewSessionAssumption DEF IInv, LabelInv
  <2>. QED
    BY <2>1, <2>2, LabelsIInv
<1>3. CASE \E r \in Requests : RequestStep(r)
  BY <1>3, RequestIInv
<1>4. CASE UNCHANGED vars
  <2>1. TypeOK'
    BY <1>4 DEF IInv, TypeOK, vars, HasLoop
  <2>2. LabelInv'
    BY <1>4 DEF IInv, LabelInv, vars
  <2>. QED
    BY <1>4, <2>1, <2>2, LabelsIInv DEF vars
<1>. QED
  BY <1>1, <1>2, <1>3, <1>4 DEF Next, Quiescent

LEMMA IInvAlways == Spec => []IInv
<1>1. Init => IInv
  BY InitIInv
<1>2. IInv /\ [Next]_vars => IInv'
  BY NextIInv
<1>. QED
  BY <1>1, <1>2, PTL DEF Spec

-----------------------------------------------------------------------------
(***************************************************************************)
(* The variables always have their types, whatever the requests, pushes    *)
(* and failures: what a task knows of the thread and the commits is about  *)
(* comments and commits there are, and a worker's loop belongs to a task   *)
(* that does not await the model.                                          *)
(***************************************************************************)
THEOREM TypesHold == Spec => []TypeOK
<1>1. IInv => TypeOK
  BY DEF IInv
<1>. QED
  BY <1>1, IInvAlways, PTL

(***************************************************************************)
(* The pull request never has two effort labels: set_review_labels writes  *)
(* the labels it read a call ago, but of effort labels only its own.       *)
(***************************************************************************)
THEOREM OneEffortLabelHolds == Spec => []OneEffortLabel
<1>1. IInv => OneEffortLabel
  <2> SUFFICES ASSUME IInv PROVE OneEffortLabel
    OBVIOUS
  <2>1. CASE labels \cap Efforts = {}
    BY <2>1, FS_EmptySet DEF OneEffortLabel
  <2>2. CASE labels \cap Efforts # {}
    <3>1. PICK a : labels \cap Efforts = {a}
      BY <2>2 DEF IInv, LabelInv
    <3>2. Cardinality({a}) = 1
      BY FS_Singleton
    <3>. QED
      BY <3>1, <3>2 DEF OneEffortLabel
  <2>. QED
    BY <2>1, <2>2
<1>. QED
  BY <1>1, IInvAlways, PTL

(***************************************************************************)
(* A "Preparing review..." comment outlives its request only if the        *)
(* request failed or was withheld, or GitHub refused to delete it.         *)
(***************************************************************************)
THEOREM NoLitterHolds == Spec => []NoLitter
<1>1. IInv => NoLitter
  BY DEF IInv, TemporaryInv, NoLitter, Ended, Working
<1>. QED
  BY <1>1, IInvAlways, PTL

(***************************************************************************)
(* When a review was published, or skipped as there was nothing new, each  *)
(* of its commits has been shown, but for those that were pushed while a   *)
(* review was going on or that an author date hides.                       *)
(***************************************************************************)
THEOREM NothingMissedHolds == Spec => []NothingMissed
<1>1. IInv => NothingMissed
  <2> SUFFICES ASSUME IInv, NEW r \in Requests,
                      pc[r] = "done", local[r].outcome \in {"none", "review"},
                      r \notin history.unedited,
                      NEW i \in 1..local[r].upto
               PROVE  Covered(i)
    BY DEF NothingMissed
  <2>1. i \in DOMAIN commits /\ i <= local[r].upto
    BY CommitsOK, Types DEF IInv
  <2>. QED
    BY <2>1 DEF IInv, CoverInv, Reported
<1>. QED
  BY <1>1, IInvAlways, PTL

(***************************************************************************)
(* In one worker there is one persistent review, and one more for each     *)
(* time the comments could not be listed or the announcement failed: a     *)
(* task keeps the loop from the listing of the comments to the creation of *)
(* its review.                                                             *)
(***************************************************************************)
THEOREM OneReviewHolds ==
  ASSUME OneWorker
  PROVE  Spec => []OneReview
<1>1. IInv => OneReview
  BY DEF IInv, ReviewInv, OneReview
<1>. QED
  BY <1>1, IInvAlways, PTL

(***************************************************************************)
(* A review never goes back behind one of a request that had ended when    *)
(* its own request began, in any number of workers: the request listed all *)
(* the commits that were there when the earlier one had ended.             *)
(***************************************************************************)
LEMMA BySame ==
  ASSUME TypeOK, TargetInv, NEW r \in Requests, RequestStep(r), ~Edit(r),
         NEW c \in DOMAIN thread
  PROVE  thread'[c].by = thread[c].by
BY OpenOK, ListOK, SkipOK, PrepareOK, PredictOK, ReadLabelsOK, WriteLabelsOK,
   WithholdOK, FindOK, AnnounceOK, CreateOK, CleanOK DEF RequestStep, SameThread

THEOREM NoStaleOverwriteHolds == Spec => NoStaleOverwrite
<1> DEFINE Body ==
      \A c \in DOMAIN thread :
        thread[c].kind = "review" /\ thread'[c].by # thread[c].by =>
          (thread[c].by \in history.before[thread'[c].by] =>
             thread[c].shows \subseteq thread'[c].shows)
<1>1. IInv /\ [Next]_vars => [Body]_vars
  <2> SUFFICES ASSUME IInv, Next, NEW c \in DOMAIN thread, thread[c].kind = "review",
                      thread'[c].by # thread[c].by,
                      thread[c].by \in history.before[thread'[c].by]
               PROVE  thread[c].shows \subseteq thread'[c].shows
    OBVIOUS
  <2>1. PICK r \in Requests : RequestStep(r)
    BY DEF Next, Push, AddLabel, Quiescent, vars
  <2>2. Edit(r)
    BY <2>1, BySame DEF IInv
  <2>3. /\ pc[r] = "editing"
        /\ c = local[r].target
        /\ thread'[c].by = r /\ thread'[c].shows = local[r].shows
    BY <2>2, EditOK DEF IInv, SameThread
  <2>4. ~local[r].incremental /\ pc[r] \in Informed
    BY <2>3 DEF IInv, TargetInv, Informed
  <2>5. local[thread[c].by].shows \subseteq local[r].shows
    BY <2>3, <2>4 DEF IInv, ShowsInv
  <2>6. thread[c].shows = local[thread[c].by].shows
    BY DEF IInv, ShowsInv
  <2>. QED
    BY <2>3, <2>5, <2>6
<1>. QED
  BY <1>1, IInvAlways, PTL DEF Spec, NoStaleOverwrite

(***************************************************************************)
(* In one worker, the comment that an announcement says was updated to a   *)
(* commit shows just that, unless the edit failed: nobody else edits it    *)
(* between the edit and the announcement.                                  *)
(***************************************************************************)
THEOREM AnnouncementsTrueHolds ==
  ASSUME OneWorker
  PROVE  Spec => AnnouncementsTrue
<1> DEFINE Body ==
      Len(thread') > Len(thread) =>
        LET new == thread'[Len(thread')]
        IN  new.kind = "announcement" /\ new.by \notin history.unedited =>
              /\ thread[new.about].by = new.by
              /\ thread[new.about].upto = new.upto
<1>1. IInv /\ [Next]_vars => [Body]_vars
  <2> SUFFICES ASSUME IInv, Next, Len(thread') > Len(thread),
                      thread'[Len(thread')].kind = "announcement",
                      thread'[Len(thread')].by \notin history.unedited
               PROVE  LET new == thread'[Len(thread')]
                      IN  /\ thread[new.about].by = new.by
                          /\ thread[new.about].upto = new.upto
    OBVIOUS
  <2>1. Len(thread) \in Nat
    BY Types DEF IInv
  <2>2. thread' # thread
    BY <2>1
  <2>3. PICK r \in Requests : RequestStep(r)
    BY <2>2 DEF Next, Push, AddLabel, Quiescent, vars
  <2>4. TypeOK /\ TargetInv /\ DOMAIN thread' = 1..Len(thread') /\ Len(thread') \in Nat
        /\ DOMAIN thread = 1..Len(thread)
    BY <2>3, StepOK, Types DEF IInv, Effect, Kept
  <2>5. Skip(r) \/ Prepare(r) \/ Announce(r) \/ Create(r)
    <3>1. Edit(r) \/ Clean(r) => Len(thread') = Len(thread)
      BY <2>4, EditOK, CleanOK
    <3>2. ~Edit(r) /\ ~Clean(r)
      BY <2>1, <3>1
    <3>3. Open(r) \/ List(r) \/ Predict(r) \/ ReadLabels(r) \/ WriteLabels(r)
          \/ Withhold(r) \/ Find(r) => thread' = thread
      BY <2>4, OpenOK, ListOK, PredictOK, ReadLabelsOK, WriteLabelsOK, WithholdOK, FindOK
      DEF SameThread
    <3>. QED
      BY <2>2, <2>3, <3>2, <3>3 DEF RequestStep
  <2>6. Len(thread') \in DOMAIN thread' \ DOMAIN thread
    BY <2>1, <2>4
  <2>7. CASE Skip(r)
    BY <2>4, <2>6, <2>7, SkipOK
  <2>8. CASE Prepare(r)
    <3>1. Len(thread') = Len(thread) + 1 /\ thread'[Len(thread) + 1].kind = "temporary"
      BY <2>2, <2>4, <2>8, PrepareOK DEF SameThread
    <3>. QED
      BY <3>1
  <2>9. CASE Create(r)
    <3>1. /\ Len(thread') = Len(thread) + 1
          /\ thread'[Len(thread) + 1] =
               Comment(IF local[r].incremental THEN "incremental" ELSE "review",
                       r, local[r].shows, 0, 0)
      BY <2>2, <2>4, <2>9, CreateOK DEF SameThread
    <3>2. thread'[Len(thread')].kind \in {"incremental", "review"}
      BY <3>1 DEF Comment
    <3>. QED
      BY <3>2
  <2>10. CASE Announce(r)
    <3>1. /\ Len(thread') = Len(thread) + 1
          /\ thread'[Len(thread) + 1] =
               Comment("announcement", r, {}, local[r].upto, local[r].target)
          /\ pc[r] = "announcing"
      BY <2>2, <2>4, <2>10, AnnounceOK DEF SameThread
    <3>2. LET new == thread'[Len(thread')]
          IN  new.by = r /\ new.about = local[r].target /\ new.upto = local[r].upto
      BY <3>1 DEF Comment
    <3>3. /\ thread[local[r].target].by = r
          /\ thread[local[r].target].upto = local[r].upto
      BY <3>1, <3>2 DEF IInv, ReviewInv
    <3>. QED
      BY <3>2, <3>3
  <2>. QED
    BY <2>5, <2>7, <2>8, <2>9, <2>10
<1>. QED
  BY <1>1, IInvAlways, PTL DEF Spec, AnnouncementsTrue
=============================================================================
