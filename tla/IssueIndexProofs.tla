--------------------------- MODULE IssueIndexProofs ---------------------------
(***************************************************************************)
(* Proofs about IssueIndex, for any repositories, commands and bounds:     *)
(* the index has no gaps however commands overlap, and a command lists     *)
(* only issues of its own repository.                                      *)
(***************************************************************************)
EXTENDS IssueIndex, FiniteSetTheorems, TLAPS

Pcs == {"idle", "creating", "listing", "walking", "indexing", "querying"} \cup Ended

Present(r, n) == n \in DOMAIN issues[r]
Counts(r, n) == Present(r, n) /\ ~Is(r, n, "pull")

\* An issue is in the index, or something excuses that it is not.
Accounted(r, n) == Is(r, n, "issue") => Known(r, n) \/ <<r, n>> \in excused

\* The records of a repository are of its issues that could be embedded.
RecordInv ==
  \A id \in Ids, r \in Repos : index[id] = r => Is(r, id[1], "issue")

\* A command that has not looked for new issues yet, or is past indexing them, has none.
FreshOK(c) ==
  pc[c] \in {"idle", "creating", "listing", "querying"} \cup Ended => new[c] = {}

\* A walk has taken up everything it came past.
WalkOK(c) ==
  pc[c] = "walking" =>
    \A n \in new[c] :
      /\ n > at[c]
      /\ \A m \in 1..(n - 1) : m > at[c] /\ Counts(Repo(c), m) => m \in new[c]

\* Older issues than those that a command is about to index are indexed with
\* them, or are accounted for, whatever other commands have done since it walked.
IndexOK(c) ==
  pc[c] = "indexing" =>
    \A n \in new[c] : \A m \in 1..(n - 1) :
      m \in new[c] \/ Accounted(Repo(c), m)

CommandInv == \A c \in Commands : FreshOK(c) /\ WalkOK(c) /\ IndexOK(c)

IInv == TypeOK /\ RecordInv /\ CommandInv /\ NoGaps /\ OwnAnswers

-----------------------------------------------------------------------------
(***************************************************************************)
(* Numbers, ids and kinds.                                                 *)
(***************************************************************************)
LEMMA Basics ==
  ASSUME TypeOK
  PROVE  /\ \A c \in Commands : Repo(c) \in Repos
         /\ \A r \in Repos : /\ Len(issues[r]) \in 1..MaxNumber
                             /\ DOMAIN issues[r] = 1..Len(issues[r])
                             /\ DOMAIN issues[r] \subseteq Numbers
                             /\ \A n \in DOMAIN issues[r] : issues[r][n] \in Kinds
         /\ \A n \in Numbers : <<n, 0>> \in Ids /\ <<n, 0>>[1] = n
         /\ \A id \in Ids : id[1] \in Numbers
<1>1. \A c \in Commands : Repo(c) \in Repos
  BY DEF TypeOK, Repo
<1>2. ASSUME NEW r \in Repos
      PROVE  /\ Len(issues[r]) \in 1..MaxNumber
             /\ DOMAIN issues[r] = 1..Len(issues[r])
             /\ DOMAIN issues[r] \subseteq Numbers
             /\ \A n \in DOMAIN issues[r] : issues[r][n] \in Kinds
  <2>1. issues[r] \in Seq(Kinds) /\ Len(issues[r]) \in 1..MaxNumber
    BY DEF TypeOK, Numbers
  <2>2. DOMAIN issues[r] = 1..Len(issues[r])
    BY <2>1
  <2>3. 1..Len(issues[r]) \subseteq 1..MaxNumber
    BY <2>1, IssueIndexAssumption
  <2>. QED
    BY <2>1, <2>2, <2>3 DEF Numbers
<1>3. \A n \in Numbers : <<n, 0>> \in Ids /\ <<n, 0>>[1] = n
  BY IssueIndexAssumption DEF Ids
<1>4. \A id \in Ids : id[1] \in Numbers
  BY DEF Ids
<1>. QED
  BY <1>1, <1>2, <1>3, <1>4

\* An issue that can be embedded is no pull request.
LEMMA IssueCounts ==
  ASSUME NEW r, NEW n, Is(r, n, "issue")
  PROVE  Counts(r, n)
BY DEF Is, Counts, Present

(***************************************************************************)
(* Issues are only added, the newest at the end.                           *)
(***************************************************************************)
LEMMA IssuesGrow ==
  ASSUME TypeOK, NEW r \in Repos, NEW kind \in Kinds, OpenIssue(r, kind)
  PROVE  /\ issues' \in [Repos -> Seq(Kinds)]
         /\ \A q \in Repos : /\ Len(issues'[q]) \in Numbers
                             /\ Len(issues[q]) <= Len(issues'[q])
                             /\ DOMAIN issues[q] \subseteq DOMAIN issues'[q]
                             /\ \A n \in DOMAIN issues[q] : issues'[q][n] = issues[q][n]
<1>1. issues[r] \in Seq(Kinds) /\ Len(issues[r]) \in 1..MaxNumber /\ Len(issues[r]) < MaxNumber
  BY DEF TypeOK, OpenIssue, Numbers
<1> DEFINE longer == Append(issues[r], kind)
<1>2. /\ longer \in Seq(Kinds) /\ Len(longer) = Len(issues[r]) + 1
      /\ DOMAIN longer = 1..(Len(issues[r]) + 1)
      /\ \A n \in 1..Len(issues[r]) : longer[n] = issues[r][n]
  BY <1>1
<1>3. issues' = [issues EXCEPT ![r] = longer]
  BY DEF OpenIssue
<1> HIDE DEF longer
<1>4. issues' \in [Repos -> Seq(Kinds)] /\ issues'[r] = longer
      /\ \A q \in Repos \ {r} : issues'[q] = issues[q]
  BY <1>2, <1>3 DEF TypeOK
<1>5. ASSUME NEW q \in Repos
      PROVE  /\ Len(issues'[q]) \in Numbers
             /\ Len(issues[q]) <= Len(issues'[q])
             /\ DOMAIN issues[q] \subseteq DOMAIN issues'[q]
             /\ \A n \in DOMAIN issues[q] : issues'[q][n] = issues[q][n]
  <2>1. CASE q = r
    <3>1. DOMAIN issues[r] = 1..Len(issues[r])
      BY <1>1
    <3>2. Len(longer) \in 1..MaxNumber
      BY <1>1, <1>2, IssueIndexAssumption
    <3>3. 1..Len(issues[r]) \subseteq 1..(Len(issues[r]) + 1) /\ Len(issues[r]) <= Len(issues[r]) + 1
      BY <1>1
    <3>. QED
      BY <1>2, <1>4, <2>1, <3>1, <3>2, <3>3 DEF Numbers
  <2>2. CASE q # r
    <3>1. issues'[q] = issues[q] /\ Len(issues[q]) \in Numbers
      BY <1>4, <2>2 DEF TypeOK
    <3>. QED
      BY <3>1 DEF Numbers
  <2>. QED
    BY <2>1, <2>2
<1>. QED
  BY <1>4, <1>5

\* So what is known of an issue stays true.
LEMMA IsStays ==
  ASSUME TypeOK, NEW r \in Repos, NEW kind \in Kinds, OpenIssue(r, kind),
         NEW q \in Repos, NEW n \in DOMAIN issues[q]
  PROVE  /\ (Is(q, n, "issue")') <=> Is(q, n, "issue")
         /\ (Is(q, n, "pull")') <=> Is(q, n, "pull")
         /\ (Counts(q, n)') <=> Counts(q, n)
         /\ Present(q, n)'
<1>1. n \in DOMAIN issues'[q] /\ issues'[q][n] = issues[q][n]
  BY IssuesGrow
<1>2. ((Is(q, n, "issue")') <=> Is(q, n, "issue")) /\ ((Is(q, n, "pull")') <=> Is(q, n, "pull"))
  BY <1>1 DEF Is
<1>. QED
  BY <1>1, <1>2 DEF Counts, Present, Is

-----------------------------------------------------------------------------
(***************************************************************************)
(* The k-th smallest of a finite set of numbers exists: the map from a     *)
(* number to how many are not above it is a bijection with 1..Cardinality. *)
(***************************************************************************)
Below(S, i) == {j \in S : j <= i}

LEMMA BelowStrict ==
  ASSUME NEW S \in SUBSET Nat, IsFiniteSet(S), NEW i \in S, NEW j \in S, i < j
  PROVE  Cardinality(Below(S, i)) # Cardinality(Below(S, j))
<1>1. Below(S, i) \in SUBSET Below(S, j) /\ Below(S, j) \in SUBSET S
  <2>1. \A l \in S : l \in Nat
    OBVIOUS
  <2>2. \A l \in S : l <= i => l <= j
    BY <2>1
  <2>. QED
    BY <2>2 DEF Below
<1>2. IsFiniteSet(Below(S, j))
  BY <1>1, FS_Subset
<1>3. j \in Below(S, j) /\ j \notin Below(S, i)
  BY DEF Below
<1>. QED
  BY <1>1, <1>2, <1>3, FS_Subset

LEMMA KthExists ==
  ASSUME NEW S \in SUBSET Nat, IsFiniteSet(S), NEW k \in 1..Cardinality(S)
  PROVE  \E i \in S : Cardinality(Below(S, i)) = k
<1>1. Cardinality(S) \in Nat
  BY FS_CardinalityType
<1> DEFINE n == Cardinality(S)
           f == [i \in S |-> Cardinality(Below(S, i))]
<1>2. ASSUME NEW i \in S PROVE Cardinality(Below(S, i)) \in 1..n
  <2>1. Below(S, i) \in SUBSET S /\ i \in Below(S, i)
    BY DEF Below
  <2>2. IsFiniteSet(Below(S, i)) /\ Cardinality(Below(S, i)) <= n
    BY <2>1, FS_Subset
  <2>3. Cardinality(Below(S, i)) \in Nat /\ Cardinality(Below(S, i)) # 0
    BY <2>1, <2>2, FS_CardinalityType, FS_EmptySet
  <2>. QED
    BY <1>1, <2>2, <2>3
<1>3. f \in [S -> 1..n]
  BY <1>2
<1>4. ASSUME NEW i \in S, NEW j \in S, f[i] = f[j] PROVE i = j
  <2>1. f[i] = Cardinality(Below(S, i)) /\ f[j] = Cardinality(Below(S, j))
    OBVIOUS
  <2>2. ~(i < j) /\ ~(j < i)
    BY <1>4, <2>1, BelowStrict
  <2>3. i \in Nat /\ j \in Nat
    OBVIOUS
  <2>. QED
    BY <2>2, <2>3
<1>5. f \in Injection(S, 1..n)
  BY <1>3, <1>4 DEF Injection, IsInjective
<1>6. IsFiniteSet(1..n) /\ Cardinality(1..n) = n
  <2>1. 1 \in Int /\ n \in Int
    BY <1>1
  <2>2. Cardinality(1..n) = IF 1 > n THEN 0 ELSE n - 1 + 1
    BY <2>1, FS_Interval
  <2>. QED
    BY <1>1, <2>1, <2>2, FS_Interval
<1>7. f \in Surjection(S, 1..n)
  BY <1>5, <1>6, FS_Injection
<1>8. \E i \in S : f[i] = k
  BY <1>7 DEF Surjection
<1>. QED
  BY <1>8

(***************************************************************************)
(* What a query lists: issues that are among its results, each once.       *)
(***************************************************************************)
LEMMA ListedOK ==
  ASSUME NEW n \in Nat, NEW S \in SUBSET Ids, NEW s \in [1..n -> S]
  PROVE  /\ Listed(s) \in Seq(Ids)
         /\ \A k \in DOMAIN Listed(s) : \E i \in 1..n : Listed(s)[k][1] = s[i][1]
         /\ \A j, k \in DOMAIN Listed(s) : Listed(s)[j][1] = Listed(s)[k][1] => j = k
<1> DEFINE first == FirstOf(s)
           count == Cardinality(first)
<1>1. /\ first \in SUBSET (1..n) /\ first \in SUBSET Nat
      /\ \A i, j \in first : s[i][1] = s[j][1] => i = j
  <2>1. DOMAIN s = 1..n
    OBVIOUS
  <2>2. ASSUME NEW i \in first, NEW j \in first, s[i][1] = s[j][1] PROVE i = j
    <3>1. i \in 1..n /\ j \in 1..n
      BY <2>1 DEF FirstOf
    <3>2. ~(j \in 1..(i - 1)) /\ ~(i \in 1..(j - 1))
      BY <2>2 DEF FirstOf
    <3>. QED
      BY <3>1, <3>2
  <2>. QED
    BY <2>1, <2>2 DEF FirstOf
<1>2. IsFiniteSet(first)
  <2>1. IsFiniteSet(1..n)
    BY FS_Interval
  <2>. QED
    BY <1>1, <2>1, FS_Subset
<1>3. ASSUME NEW k \in 1..count
      PROVE  /\ NthFirst(s, k) \in first
             /\ Cardinality(Below(first, NthFirst(s, k))) = k
             /\ Listed(s)[k][1] = s[NthFirst(s, k)][1]
  <2>1. \E i \in first : Cardinality(Below(first, i)) = k
    BY <1>1, <1>2, KthExists
  <2>2. \A i : Below(first, i) = {j \in FirstOf(s) : j <= i}
    BY DEF Below
  <2>3. NthFirst(s, k) = CHOOSE i \in first : Cardinality(Below(first, i)) = k
    BY <2>2 DEF NthFirst
  <2>4. Listed(s)[k] = <<s[NthFirst(s, k)][1], s[k][2]>>
    BY DEF Listed
  <2>. QED
    BY <2>1, <2>3, <2>4
<1>4. DOMAIN Listed(s) = 1..count
  BY DEF Listed
<1>5. ASSUME NEW j \in 1..count, NEW k \in 1..count, Listed(s)[j][1] = Listed(s)[k][1]
      PROVE  j = k
  <2>1. NthFirst(s, j) = NthFirst(s, k)
    BY <1>1, <1>3, <1>5
  <2>. QED
    BY <1>3, <2>1
<1>6. \A k \in 1..count : NthFirst(s, k) \in 1..n /\ Listed(s)[k][1] = s[NthFirst(s, k)][1]
  BY <1>1, <1>3
<1>7. Listed(s) \in Seq(Ids)
  <2>1. IsFiniteSet(1..n) /\ Cardinality(1..n) = n
    <3>1. 1 \in Int /\ n \in Int
      OBVIOUS
    <3>2. Cardinality(1..n) = IF 1 > n THEN 0 ELSE n - 1 + 1
      BY <3>1, FS_Interval
    <3>. QED
      BY <3>1, <3>2, FS_Interval
  <2>2. count \in Nat /\ count <= n
    BY <1>1, <1>2, <2>1, FS_Subset, FS_CardinalityType
  <2>3. ASSUME NEW k \in 1..count PROVE Listed(s)[k] \in Ids
    <3>1. k \in 1..n /\ NthFirst(s, k) \in 1..n
      BY <1>6, <2>2
    <3>2. s[k] \in Ids /\ s[NthFirst(s, k)] \in Ids
      BY <3>1
    <3>3. Listed(s)[k] = <<s[NthFirst(s, k)][1], s[k][2]>>
      BY DEF Listed
    <3>. QED
      BY <3>2, <3>3 DEF Ids
  <2>4. Listed(s) = [k \in 1..count |-> Listed(s)[k]]
    BY DEF Listed
  <2> HIDE DEF count
  <2>. QED
    BY <2>2, <2>3, <2>4
<1> HIDE DEF first, count
<1>. QED
  BY <1>4, <1>5, <1>6, <1>7

-----------------------------------------------------------------------------
(***************************************************************************)
(* The inductive invariant.                                                *)
(***************************************************************************)
LEMMA InitIInv == Init => IInv
<1> SUFFICES ASSUME Init PROVE IInv
  OBVIOUS
<1>1. /\ issues \in [Repos -> Seq(Kinds)]
      /\ \A r \in Repos : Len(issues[r]) = 1
  <2>1. issues \in [Repos -> {<<k>> : k \in {j \in Kinds : j.what = "issue"}}]
    BY DEF Init
  <2>2. \A x \in {<<k>> : k \in {j \in Kinds : j.what = "issue"}} :
          x \in Seq(Kinds) /\ Len(x) = 1
    <3>1. \A k \in Kinds : <<k>> \in Seq(Kinds) /\ Len(<<k>>) = 1
      OBVIOUS
    <3>. QED
      BY <3>1
  <2>3. {<<k>> : k \in {j \in Kinds : j.what = "issue"}} \subseteq Seq(Kinds)
    BY <2>2
  <2>. QED
    BY <2>1, <2>2, <2>3
<1>2. TypeOK
  <2>1. 1 \in Numbers /\ 0 \in 0..MaxNumber /\ 0 \in 0..MaxFailures
    BY IssueIndexAssumption DEF Numbers
  <2>2. \A c \in Commands : {at[c]} \cup new[c] \subseteq 0..Len(issues[Repo(c)])
    <3>1. \A c \in Commands : at[c] = 0 /\ new[c] = {} /\ Repo(c) \in Repos
      BY DEF Init, Repo
    <3>2. \A c \in Commands : 0 \in 0..Len(issues[Repo(c)])
      BY <1>1, <3>1
    <3>. QED
      BY <3>1, <3>2
  <2>3. at \in [Commands -> 0..MaxNumber] /\ new \in [Commands -> SUBSET Numbers]
    BY <2>1 DEF Init
  <2>4. /\ index \in [Ids -> Repos \cup {Nobody}] /\ example \subseteq Repos
        /\ pc \in [Commands -> Pcs]
        /\ \A c \in Commands : pc[c] = "idle"
    BY DEF Init, Pcs
  <2>5. answer \in [Commands -> Seq(Ids)]
    <3>1. <<>> \in Seq(Ids)
      OBVIOUS
    <3>. QED
      BY <3>1 DEF Init
  <2>. QED
    BY <1>1, <2>1, <2>2, <2>3, <2>4, <2>5 DEF Init, TypeOK, Pcs
<1>3. RecordInv /\ NoGaps
  BY IssueIndexAssumption DEF Init, RecordInv, NoGaps, Known, Nobody, Ids, Numbers
<1>4. CommandInv
  BY DEF Init, CommandInv, FreshOK, WalkOK, IndexOK
<1>5. OwnAnswers
  BY DEF Init, OwnAnswers
<1>. QED
  BY <1>2, <1>3, <1>4, <1>5 DEF IInv

(***************************************************************************)
(* A command takes a step that touches neither the index nor the issues:   *)
(* only what is known of itself is in question.                            *)
(***************************************************************************)
LEMMA LocalStep ==
  ASSUME IInv, TypeOK', OwnAnswers', NEW c \in Commands,
         UNCHANGED <<issues, asked, index, excused>>,
         \A d \in Commands \ {c} : pc'[d] = pc[d] /\ at'[d] = at[d] /\ new'[d] = new[d],
         FreshOK(c)', WalkOK(c)', IndexOK(c)'
  PROVE  IInv'
<1>1. ASSUME NEW d \in Commands \ {c}
      PROVE  FreshOK(d)' /\ WalkOK(d)' /\ IndexOK(d)'
  <2>1. FreshOK(d) /\ WalkOK(d) /\ IndexOK(d)
    BY DEF IInv, CommandInv
  <2>2. pc'[d] = pc[d] /\ at'[d] = at[d] /\ new'[d] = new[d]
    OBVIOUS
  <2>3. FreshOK(d)'
    BY <2>1, <2>2 DEF FreshOK
  <2>4. WalkOK(d)'
    BY <2>1, <2>2 DEF WalkOK, Counts, Present, Is, Repo
  <2>5. IndexOK(d)'
    BY <2>1, <2>2 DEF IndexOK, Accounted, Is, Known, Repo
  <2>. QED
    BY <2>3, <2>4, <2>5
<1>2. CommandInv'
  BY <1>1 DEF CommandInv
<1>3. RecordInv' /\ NoGaps'
  BY DEF IInv, RecordInv, NoGaps, Known, Is
<1>. QED
  BY <1>2, <1>3 DEF IInv

LEMMA TypeStep == ASSUME TypeOK, Next PROVE TypeOK'
<1>1. ASSUME NEW r \in Repos, NEW kind \in Kinds, OpenIssue(r, kind) PROVE TypeOK'
  <2>1. /\ issues' \in [Repos -> Seq(Kinds)]
        /\ \A q \in Repos : Len(issues'[q]) \in Numbers
        /\ \A q \in Repos : Len(issues[q]) <= Len(issues'[q])
    BY <1>1, IssuesGrow
  <2>2. UNCHANGED <<database, asked, exists, index, example, excused, pc, at, new,
                    answer, failures>>
    BY <1>1 DEF OpenIssue, store
  <2>3. ASSUME NEW c \in Commands
        PROVE  {at[c]} \cup new[c] \subseteq 0..Len(issues'[Repo(c)])
    <3>1. Repo(c) \in Repos
      BY Basics
    <3>2. {at[c]} \cup new[c] \subseteq 0..Len(issues[Repo(c)])
      BY DEF TypeOK
    <3>3. /\ Len(issues[Repo(c)]) \in Nat /\ Len(issues'[Repo(c)]) \in Nat
          /\ Len(issues[Repo(c)]) <= Len(issues'[Repo(c)])
      BY <2>1, <3>1, Basics DEF Numbers
    <3>. QED
      BY <3>2, <3>3
  <2>. QED
    BY <2>1, <2>2, <2>3 DEF TypeOK, Repo
<1>2. ASSUME NEW c \in Commands,
             \/ Construct(c) \/ ConstructPinecone(c) \/ ConstructLance(c) \/ Create(c)
             \/ List(c) \/ Walk(c)
      PROVE  /\ UNCHANGED <<database, issues, asked, index, example, excused, answer, failures>>
             /\ exists => exists'
             /\ pc' \in [Commands -> Pcs] /\ at' \in [Commands -> 0..MaxNumber]
             /\ new' \in [Commands -> SUBSET Numbers]
             /\ \A d \in Commands \ {c} : pc'[d] = pc[d] /\ at'[d] = at[d] /\ new'[d] = new[d]
             /\ {at'[c]} \cup new'[c] \subseteq 0..Len(issues[Repo(c)])
             /\ pc'[c] = "walking" => exists' /\ Repo(c) \in example
  <2>1. /\ pc \in [Commands -> Pcs] /\ at \in [Commands -> 0..MaxNumber]
        /\ new \in [Commands -> SUBSET Numbers]
        /\ {at[c]} \cup new[c] \subseteq 0..Len(issues[Repo(c)])
        /\ pc[c] = "walking" => exists /\ Repo(c) \in example
    BY DEF TypeOK, Pcs
  <2>2. /\ Repo(c) \in Repos /\ Len(issues[Repo(c)]) \in 1..MaxNumber
        /\ DOMAIN issues[Repo(c)] = 1..Len(issues[Repo(c)])
        /\ DOMAIN issues[Repo(c)] \subseteq Numbers
    BY Basics
  <2>3. /\ Len(issues[Repo(c)]) \in 0..MaxNumber
        /\ Len(issues[Repo(c)]) \in 0..Len(issues[Repo(c)])
        /\ DOMAIN issues[Repo(c)] \subseteq 0..Len(issues[Repo(c)])
    BY <2>2, IssueIndexAssumption
  <2>4. CASE Construct(c)
    BY <2>1, <2>3, <2>4 DEF Construct, Goto, store, Indexed, Pcs
  <2>5. CASE ConstructPinecone(c) \/ ConstructLance(c)
    BY <2>1, <2>5 DEF ConstructPinecone, ConstructLance, Goto, store, Pcs, Ended
  <2>6. CASE Create(c)
    BY <2>1, <2>6 DEF Create, Goto, Pcs, Ended
  <2>7. CASE List(c)
    <3> DEFINE all == {n \in DOMAIN issues[Repo(c)] : ~Is(Repo(c), n, "pull")}
    <3>1. all \subseteq Numbers /\ all \subseteq 0..Len(issues[Repo(c)])
      BY <2>2, <2>3
    <3>2. new' = [new EXCEPT ![c] = all]
      BY <2>7 DEF List
    <3> HIDE DEF all
    <3>. QED
      BY <2>1, <2>7, <3>1, <3>2 DEF List, Goto, store, Pcs
  <2>8. CASE Walk(c)
    <3>1. CASE at[c] = 0 \/ StopsAt(c, at[c])
      <4>1. /\ UNCHANGED <<at, new, database, issues, asked, exists, index, example, excused,
                           answer, failures>>
            /\ pc' = [pc EXCEPT ![c] = IF new[c] = {} THEN "querying" ELSE "indexing"]
        BY <2>8, <3>1 DEF Walk, Goto, store
      <4>. QED
        BY <2>1, <4>1 DEF Pcs
    <3>2. CASE ~(at[c] = 0 \/ StopsAt(c, at[c]))
      <4>1. /\ UNCHANGED <<pc, database, issues, asked, exists, index, example, excused,
                           answer, failures>>
            /\ at' = [at EXCEPT ![c] = at[c] - 1]
            /\ new' = new \/ new' = [new EXCEPT ![c] = new[c] \cup {at[c]}]
        BY <2>8, <3>2 DEF Walk, store
      <4>2. /\ at[c] \in Numbers /\ at[c] - 1 \in 0..MaxNumber
            /\ at[c] - 1 \in 0..Len(issues[Repo(c)])
        BY <2>1, <2>2, <3>2, IssueIndexAssumption DEF Numbers
      <4>3. CASE new' = new
        BY <2>1, <4>1, <4>2, <4>3
      <4>4. CASE new' = [new EXCEPT ![c] = new[c] \cup {at[c]}]
        BY <2>1, <4>1, <4>2, <4>4
      <4>. QED
        BY <4>1, <4>3, <4>4
    <3>. QED
      BY <3>1, <3>2
  <2>. QED
    BY <1>2, <2>4, <2>5, <2>6, <2>7, <2>8
<1>3. ASSUME NEW c \in Commands,
             \/ Construct(c) \/ ConstructPinecone(c) \/ ConstructLance(c) \/ Create(c)
             \/ List(c) \/ Walk(c)
      PROVE  TypeOK'
  <2>1. \A d \in Commands : {at'[d]} \cup new'[d] \subseteq 0..Len(issues[Repo(d)])
    BY <1>2, <1>3 DEF TypeOK
  <2>2. \A d \in Commands : pc'[d] = "walking" => exists' /\ Repo(d) \in example
    BY <1>2, <1>3 DEF TypeOK
  <2>. QED
    BY <1>2, <1>3, <2>1, <2>2 DEF TypeOK, Pcs, Repo
<1>4. ASSUME NEW c \in Commands, Index(c) PROVE TypeOK'
  <2>1. /\ UNCHANGED <<database, issues, asked, exists, answer, failures>>
        /\ pc' = [pc EXCEPT ![c] = "querying"] /\ index' = Stored(c)
        /\ example' = example \cup {Repo(c)}
        /\ excused' = excused \cup {<<Repo(c), n>> : n \in new[c] \ Scanned(c)} \cup Ousted(c)
        /\ at' = [at EXCEPT ![c] = 0] /\ new' = [new EXCEPT ![c] = {}]
    BY <1>4 DEF Index, Goto
  <2>2. index' \in [Ids -> Repos \cup {Nobody}] /\ example' \subseteq Repos
    BY <2>1, Basics DEF Stored, TypeOK
  <2>3. excused' \subseteq Repos \X Numbers
    <3>1. Repo(c) \in Repos /\ new[c] \subseteq Numbers
      BY Basics DEF TypeOK
    <3>2. {<<Repo(c), n>> : n \in new[c] \ Scanned(c)} \subseteq Repos \X Numbers
      BY <3>1
    <3>3. Ousted(c) \subseteq Repos \X Numbers
      BY DEF Ousted
    <3>. QED
      BY <2>1, <3>2, <3>3 DEF TypeOK
  <2>4. /\ pc' \in [Commands -> Pcs] /\ at' \in [Commands -> 0..MaxNumber]
        /\ new' \in [Commands -> SUBSET Numbers]
        /\ \A d \in Commands \ {c} : at'[d] = at[d] /\ new'[d] = new[d] /\ pc'[d] = pc[d]
        /\ at'[c] = 0 /\ new'[c] = {} /\ pc'[c] = "querying"
    BY <2>1, IssueIndexAssumption DEF TypeOK, Pcs
  <2>5. \A d \in Commands : {at'[d]} \cup new'[d] \subseteq 0..Len(issues[Repo(d)])
    <3>1. 0 \in 0..Len(issues[Repo(c)])
      BY Basics
    <3>. QED
      BY <2>4, <3>1 DEF TypeOK
  <2>6. \A d \in Commands : pc'[d] = "walking" => exists /\ Repo(d) \in example'
    BY <2>1, <2>4 DEF TypeOK
  <2>. QED
    BY <2>1, <2>2, <2>3, <2>4, <2>5, <2>6 DEF TypeOK, Repo, Pcs
<1>5. ASSUME NEW c \in Commands, Query(c) PROVE TypeOK'
  <2>1. /\ UNCHANGED <<database, issues, asked, exists, index, example, excused, at, new>>
        /\ pc' = [pc EXCEPT ![c] = "done"] \/ pc' = [pc EXCEPT ![c] = "failed"]
        /\ failures' = failures \/ (failures < MaxFailures /\ failures' = failures + 1)
        /\ answer' = answer \/ \E s \in Results(c) : answer' = [answer EXCEPT ![c] = Listed(s)]
    BY <1>5 DEF Query, Goto, store, Succeed, Fail
  <2>2. /\ pc' \in [Commands -> Pcs]
        /\ \A d \in Commands : pc'[d] = "walking" => pc[d] = "walking"
    BY <2>1 DEF TypeOK, Pcs, Ended
  <2>3. failures' \in 0..MaxFailures
    BY <2>1, IssueIndexAssumption DEF TypeOK
  <2>4. answer' \in [Commands -> Seq(Ids)]
    <3>1. ASSUME NEW s \in Results(c) PROVE Listed(s) \in Seq(Ids)
      <4> DEFINE mine == {id \in Mine(c) : id[1] # asked[c].number}
      <4>1. PICK k \in 0..TopK : s \in [1..k -> mine]
        BY <3>1 DEF Results
      <4>2. k \in Nat /\ mine \in SUBSET Ids
        BY <4>1, IssueIndexAssumption DEF Mine
      <4>. QED
        BY <4>1, <4>2, ListedOK
    <3>. QED
      BY <2>1, <3>1 DEF TypeOK
  <2>. QED
    BY <2>1, <2>2, <2>3, <2>4 DEF TypeOK, Repo, Pcs
<1>6. CASE Quiescent
  BY <1>6 DEF Quiescent, vars, TypeOK, Repo
<1>. QED
  BY <1>1, <1>3, <1>4, <1>5, <1>6 DEF Next, Step

(***************************************************************************)
(* The steps of a command that touch neither the index nor the issues.     *)
(***************************************************************************)
LEMMA SearchStep ==
  ASSUME IInv, TypeOK', NEW c \in Commands,
         \/ Construct(c) \/ ConstructPinecone(c) \/ ConstructLance(c) \/ Create(c)
         \/ List(c) \/ Walk(c)
  PROVE  IInv'
<1>1. /\ pc \in [Commands -> Pcs] /\ at \in [Commands -> 0..MaxNumber]
      /\ new \in [Commands -> SUBSET Numbers]
      /\ FreshOK(c) /\ WalkOK(c) /\ IndexOK(c)
      /\ UNCHANGED <<issues, asked, index, excused, answer>>
      /\ OwnAnswers
  BY DEF IInv, TypeOK, CommandInv, Pcs, Construct, ConstructPinecone, ConstructLance, Create,
         List, Walk, store
<1>a. OwnAnswers'
  BY <1>1 DEF OwnAnswers, Is, Repo
<1>2. CASE \/ Construct(c) \/ ConstructPinecone(c) \/ ConstructLance(c) \/ Create(c)
  <2>1. /\ new' = new
        /\ \A d \in Commands \ {c} : pc'[d] = pc[d] /\ at'[d] = at[d]
        /\ pc[c] \in {"idle", "creating"}
        /\ pc'[c] # "indexing"
    BY <1>1, <1>2 DEF Construct, ConstructPinecone, ConstructLance, Create, Goto
  <2>2. new'[c] = {}
    BY <1>1, <2>1 DEF FreshOK
  <2>. QED
    BY <1>1, <1>a, <2>1, <2>2, LocalStep DEF FreshOK, WalkOK, IndexOK
<1>3. CASE List(c)
  <2>1. /\ pc' = [pc EXCEPT ![c] = "indexing"] /\ at' = at
        /\ new' = [new EXCEPT ![c] =
             {n \in DOMAIN issues[Repo(c)] : ~Is(Repo(c), n, "pull")}]
    BY <1>3 DEF List, Goto
  <2>2. /\ \A d \in Commands \ {c} : pc'[d] = pc[d] /\ at'[d] = at[d] /\ new'[d] = new[d]
        /\ pc'[c] = "indexing"
        /\ new'[c] = {n \in DOMAIN issues[Repo(c)] : ~Is(Repo(c), n, "pull")}
    BY <1>1, <2>1
  <2>3. FreshOK(c)' /\ WalkOK(c)'
    BY <2>2 DEF FreshOK, WalkOK, Ended
  <2>4. IndexOK(c)'
    <3>1. ASSUME NEW m \in Nat, ~(m \in new'[c]) PROVE ~Is(Repo(c), m, "issue")
      BY <2>2, <3>1 DEF Is
    <3>2. \A n \in new'[c] : \A m \in 1..(n - 1) :
            m \in new'[c] \/ Accounted(Repo(c), m)'
      <4>1. \A m : Accounted(Repo(c), m)' = Accounted(Repo(c), m)
        BY <1>1 DEF Accounted, Is, Known, Repo
      <4>2. \A m \in Nat : m \in new'[c] \/ Accounted(Repo(c), m)
        BY <3>1 DEF Accounted
      <4>. QED
        BY <4>1, <4>2
    <3>. QED
      BY <1>1, <3>2 DEF IndexOK, Repo, Accounted
  <2>. QED
    BY <1>1, <1>a, <2>2, <2>3, <2>4, LocalStep
<1>4. CASE Walk(c) /\ (at[c] = 0 \/ StopsAt(c, at[c]))
  <2>1. /\ pc' = [pc EXCEPT ![c] = IF new[c] = {} THEN "querying" ELSE "indexing"]
        /\ UNCHANGED <<at, new>> /\ pc[c] = "walking"
    BY <1>4 DEF Walk, Goto
  <2>2. /\ \A d \in Commands \ {c} : pc'[d] = pc[d]
        /\ pc'[c] = IF new[c] = {} THEN "querying" ELSE "indexing"
    BY <1>1, <2>1
  <2>3. FreshOK(c)' /\ WalkOK(c)'
    BY <2>1, <2>2 DEF FreshOK, WalkOK, Ended
  <2>4. ASSUME NEW n \in new[c], NEW m \in 1..(n - 1), m \notin new[c]
        PROVE  Accounted(Repo(c), m)
    <3>1. CASE ~Is(Repo(c), m, "issue")
      BY <3>1 DEF Accounted
    <3>2. CASE Is(Repo(c), m, "issue")
      <4>1. /\ n \in Numbers /\ m \in Numbers /\ at[c] \in 0..MaxNumber
            /\ at[c] \in Nat /\ m \in Nat /\ n \in Nat
        BY <1>1, IssueIndexAssumption DEF Numbers
      <4>2. ~(m > at[c])
        BY <2>1, <1>1, <2>4, <3>2, IssueCounts DEF WalkOK
      <4>3. at[c] # 0 /\ Known(Repo(c), at[c])
        BY <1>4, <4>1, <4>2 DEF StopsAt
      <4>4. CASE m = at[c]
        BY <4>3, <4>4 DEF Accounted
      <4>5. CASE m # at[c]
        <5>1. m \in 1..(at[c] - 1) /\ at[c] \in Numbers /\ Repo(c) \in Repos
          BY <4>1, <4>2, <4>3, <4>5, Basics DEF IInv, Numbers
        <5>. QED
          BY <3>2, <4>3, <5>1 DEF IInv, NoGaps, Accounted
      <4>. QED
        BY <4>4, <4>5
    <3>. QED
      BY <3>1, <3>2
  <2>5. IndexOK(c)'
    <3>1. \A m : Accounted(Repo(c), m)' = Accounted(Repo(c), m)
      BY <1>1 DEF Accounted, Is, Known, Repo
    <3>. QED
      BY <1>1, <2>1, <2>4, <3>1 DEF IndexOK, Repo, Accounted
  <2>. QED
    BY <1>1, <1>a, <2>1, <2>2, <2>3, <2>5, LocalStep
<1>5. CASE Walk(c) /\ ~(at[c] = 0 \/ StopsAt(c, at[c]))
  <2>1. /\ pc' = pc /\ pc[c] = "walking"
        /\ at' = [at EXCEPT ![c] = at[c] - 1]
        /\ new' = IF Is(Repo(c), at[c], "pull") THEN new
                  ELSE [new EXCEPT ![c] = new[c] \cup {at[c]}]
    BY <1>5 DEF Walk
  <2>2. /\ \A d \in Commands \ {c} : at'[d] = at[d] /\ new'[d] = new[d]
        /\ at'[c] = at[c] - 1
        /\ new'[c] = IF Is(Repo(c), at[c], "pull") THEN new[c] ELSE new[c] \cup {at[c]}
    BY <1>1, <2>1
  <2>3. at[c] \in Nat /\ at[c] # 0 /\ \A n \in new[c] : n \in Nat
    BY <1>1, <1>5 DEF Numbers
  <2>4. FreshOK(c)' /\ IndexOK(c)'
    BY <2>1 DEF FreshOK, IndexOK, Ended
  <2>5. ASSUME NEW n \in new'[c]
        PROVE  /\ n > at[c] - 1
               /\ \A m \in 1..(n - 1) : m > at[c] - 1 /\ Counts(Repo(c), m) => m \in new'[c]
    <3>1. n \in new[c] \/ n = at[c]
      BY <2>2
    <3>2. n > at[c] - 1 /\ n \in Nat
      BY <1>1, <2>1, <2>3, <3>1 DEF WalkOK
    <3>3. ASSUME NEW m \in 1..(n - 1), m > at[c] - 1, Counts(Repo(c), m)
          PROVE  m \in new'[c]
      <4>1. CASE m = at[c]
        BY <2>2, <3>3, <4>1 DEF Counts
      <4>2. CASE m # at[c]
        <5>1. m > at[c]
          BY <2>3, <3>3, <4>2
        <5>2. n \in new[c]
          BY <2>3, <3>1, <5>1
        <5>. QED
          BY <1>1, <2>1, <2>2, <3>3, <5>1, <5>2 DEF WalkOK
      <4>. QED
        BY <4>1, <4>2
    <3>. QED
      BY <3>2, <3>3
  <2>6. WalkOK(c)'
    <3>1. \A m : Counts(Repo(c), m)' = Counts(Repo(c), m)
      BY <1>1 DEF Counts, Present, Is, Repo
    <3>. QED
      BY <1>1, <2>2, <2>5, <3>1 DEF WalkOK, Repo, Counts
  <2>. QED
    BY <1>1, <1>a, <2>1, <2>2, <2>4, <2>6, LocalStep
<1>. QED
  BY <1>2, <1>3, <1>4, <1>5

(***************************************************************************)
(* The records go into the index: what was accounted for still is, and so  *)
(* is what the command was about to index.                                 *)
(***************************************************************************)
LEMMA IndexEffect ==
  ASSUME IInv, NEW c \in Commands, Index(c)
  PROVE  /\ UNCHANGED <<issues, asked, answer>>
         /\ \A id \in Ids : index'[id] = IF id \in Records(c) THEN Repo(c) ELSE index[id]
         /\ \A d \in Commands \ {c} : pc'[d] = pc[d] /\ at'[d] = at[d] /\ new'[d] = new[d]
         /\ pc'[c] = "querying" /\ new'[c] = {}
         /\ \A r \in Repos, n \in Numbers : Accounted(r, n) => Accounted(r, n)'
         /\ \A n \in new[c] : Accounted(Repo(c), n)'
<1>1. /\ UNCHANGED <<issues, asked, answer>>
      /\ pc' = [pc EXCEPT ![c] = "querying"] /\ index' = Stored(c)
      /\ excused' = excused \cup {<<Repo(c), n>> : n \in new[c] \ Scanned(c)} \cup Ousted(c)
      /\ at' = [at EXCEPT ![c] = 0] /\ new' = [new EXCEPT ![c] = {}]
  BY DEF Index, Goto
<1>2. \A id \in Ids : index'[id] = IF id \in Records(c) THEN Repo(c) ELSE index[id]
  BY <1>1 DEF Stored
<1>3. /\ \A d \in Commands \ {c} : pc'[d] = pc[d] /\ at'[d] = at[d] /\ new'[d] = new[d]
      /\ pc'[c] = "querying" /\ new'[c] = {}
  BY <1>1 DEF IInv, TypeOK
<1>4. ASSUME NEW r \in Repos, NEW n \in Numbers, Accounted(r, n)
      PROVE  Accounted(r, n)'
  <2>1. <<n, 0>> \in Ids
    BY Basics DEF IInv
  <2>2. CASE Known(r, n) /\ r # Repo(c) /\ <<n, 0>> \in Records(c)
    <3>1. <<r, n>> \in Ousted(c)
      BY <2>2 DEF Ousted
    <3>. QED
      BY <1>1, <3>1 DEF Accounted
  <2>3. CASE Known(r, n) /\ (r = Repo(c) \/ <<n, 0>> \notin Records(c))
    <3>1. index'[<<n, 0>>] = r
      BY <1>2, <2>1, <2>3 DEF Known
    <3>. QED
      BY <3>1 DEF Accounted, Known
  <2>4. CASE ~Known(r, n)
    <3>1. Is(r, n, "issue")' => <<r, n>> \in excused'
      BY <1>1, <1>4, <2>4 DEF Accounted, Is
    <3>. QED
      BY <3>1 DEF Accounted
  <2>. QED
    BY <2>2, <2>3, <2>4
<1>5. ASSUME NEW n \in new[c], Is(Repo(c), n, "issue")
      PROVE  index'[<<n, 0>>] = Repo(c) \/ <<Repo(c), n>> \in excused'
  <2>1. n \in Numbers /\ <<n, 0>> \in Ids /\ <<n, 0>>[1] = n /\ <<n, 0>>[2] = 0
    BY Basics DEF IInv, TypeOK
  <2>2. CASE n \in Scanned(c)
    <3>1. issues[Repo(c)][n] \in Kinds
      BY <1>5, Basics DEF IInv, Is
    <3>2. 0 <= issues[Repo(c)][n].comments
      BY <3>1, IssueIndexAssumption
    <3>3. <<n, 0>> \in Records(c)
      BY <1>5, <2>1, <2>2, <3>2 DEF Records
    <3>. QED
      BY <1>2, <2>1, <3>3
  <2>3. CASE n \notin Scanned(c)
    BY <1>1, <1>5, <2>3
  <2>. QED
    BY <2>2, <2>3
<1>6. \A n \in new[c] : Accounted(Repo(c), n)'
  <2>1. Repo(c)' = Repo(c) /\ \A n : Is(Repo(c), n, "issue")' = Is(Repo(c), n, "issue")
    BY <1>1 DEF Repo, Is
  <2>. QED
    BY <1>5, <2>1 DEF Accounted, Known
<1>. QED
  BY <1>1, <1>2, <1>3, <1>4, <1>6

LEMMA IndexStep ==
  ASSUME IInv, TypeOK', NEW c \in Commands, Index(c)
  PROVE  IInv'
<1>1. /\ UNCHANGED <<issues, asked, answer>>
      /\ \A id \in Ids : index'[id] = IF id \in Records(c) THEN Repo(c) ELSE index[id]
      /\ \A d \in Commands \ {c} : pc'[d] = pc[d] /\ at'[d] = at[d] /\ new'[d] = new[d]
      /\ pc'[c] = "querying" /\ new'[c] = {}
      /\ \A r \in Repos, n \in Numbers : Accounted(r, n) => Accounted(r, n)'
      /\ \A n \in new[c] : Accounted(Repo(c), n)'
  BY IndexEffect
<1>2. RecordInv'
  <2>1. ASSUME NEW id \in Ids, NEW r \in Repos, index'[id] = r
        PROVE  Is(r, id[1], "issue")
    <3>1. CASE id \in Records(c)
      BY <1>1, <2>1, <3>1 DEF Records
    <3>2. CASE id \notin Records(c)
      BY <1>1, <2>1, <3>2 DEF IInv, RecordInv
    <3>. QED
      BY <3>1, <3>2
  <2>. QED
    BY <1>1, <2>1 DEF RecordInv, Is
<1>3. OwnAnswers'
  BY <1>1 DEF IInv, OwnAnswers, Is, Repo
<1>4. CommandInv'
  <2>1. FreshOK(c)' /\ WalkOK(c)' /\ IndexOK(c)'
    BY <1>1 DEF FreshOK, WalkOK, IndexOK
  <2>2. ASSUME NEW d \in Commands \ {c}
        PROVE  FreshOK(d)' /\ WalkOK(d)' /\ IndexOK(d)'
    <3>1. FreshOK(d) /\ WalkOK(d) /\ IndexOK(d)
      BY DEF IInv, CommandInv
    <3>2. pc'[d] = pc[d] /\ at'[d] = at[d] /\ new'[d] = new[d]
      BY <1>1
    <3>3. FreshOK(d)' /\ WalkOK(d)'
      BY <1>1, <3>1, <3>2 DEF FreshOK, WalkOK, Counts, Present, Is, Repo
    <3>4. ASSUME pc[d] = "indexing", NEW n \in new[d], NEW m \in 1..(n - 1), m \notin new[d]
          PROVE  Accounted(Repo(d), m)'
      <4>1. Repo(d) \in Repos /\ n \in Numbers
        BY Basics DEF IInv, TypeOK
      <4>2. m \in Numbers
        BY <4>1, IssueIndexAssumption DEF Numbers
      <4>3. Accounted(Repo(d), m)
        BY <3>1, <3>4 DEF IndexOK
      <4>. QED
        BY <1>1, <4>1, <4>2, <4>3 DEF Repo, Accounted
    <3>5. IndexOK(d)'
      BY <1>1, <3>2, <3>4 DEF IndexOK, Repo, Accounted
    <3>. QED
      BY <3>3, <3>5
  <2>. QED
    BY <2>1, <2>2 DEF CommandInv
<1>5. NoGaps'
  <2>1. ASSUME NEW r \in Repos, NEW n \in Numbers, NEW m \in 1..(n - 1), index'[<<n, 0>>] = r
        PROVE  Accounted(r, m)'
    <3>1. n \in Nat /\ m \in Numbers /\ <<n, 0>> \in Ids
      BY Basics, IssueIndexAssumption DEF IInv, Numbers
    <3>2. CASE <<n, 0>> \in Records(c)
      <4>1. r = Repo(c) /\ n \in new[c]
        BY <1>1, <2>1, <3>1, <3>2 DEF Records, Scanned
      <4>2. pc[c] = "indexing"
        BY DEF Index
      <4>3. m \in new[c] \/ Accounted(Repo(c), m)
        BY <4>1, <4>2 DEF IInv, CommandInv, IndexOK
      <4>4. r \in Repos /\ Accounted(r, m)'
        <5>1. CASE m \in new[c]
          BY <1>1, <4>1, <5>1 DEF Accounted, Is, Known, Repo
        <5>2. CASE Accounted(Repo(c), m)
          BY <1>1, <3>1, <4>1, <5>2
        <5>. QED
          BY <4>3, <5>1, <5>2
      <4>. QED
        BY <4>4
    <3>3. CASE <<n, 0>> \notin Records(c)
      <4>1. Known(r, n)
        BY <1>1, <2>1, <3>1, <3>3 DEF Known
      <4>2. Accounted(r, m)
        BY <4>1 DEF IInv, NoGaps, Accounted
      <4>. QED
        BY <1>1, <3>1, <4>2
    <3>. QED
      BY <3>2, <3>3
  <2>. QED
    BY <2>1 DEF NoGaps, Accounted, Known
<1>. QED
  BY <1>2, <1>3, <1>4, <1>5 DEF IInv

(***************************************************************************)
(* A command answers, or fails.                                            *)
(***************************************************************************)
LEMMA QueryStep ==
  ASSUME IInv, TypeOK', NEW c \in Commands, Query(c)
  PROVE  IInv'
<1>1. /\ UNCHANGED <<issues, asked, index, excused, at, new>>
      /\ pc[c] = "querying" /\ new[c] = {}
      /\ pc' = [pc EXCEPT ![c] = "done"] \/ pc' = [pc EXCEPT ![c] = "failed"]
  BY DEF Query, Goto, store, IInv, CommandInv, FreshOK
<1>2. /\ \A d \in Commands \ {c} : pc'[d] = pc[d]
      /\ pc'[c] \in {"done", "failed"} /\ new'[c] = {}
  BY <1>1 DEF IInv, TypeOK
<1>3. FreshOK(c)' /\ WalkOK(c)' /\ IndexOK(c)'
  BY <1>2 DEF FreshOK, WalkOK, IndexOK
<1>4. OwnAnswers'
  <2>1. CASE answer' = answer
    BY <1>1, <2>1 DEF IInv, OwnAnswers, Is, Repo
  <2>2. ASSUME NEW s \in Results(c), answer' = [answer EXCEPT ![c] = Listed(s)]
        PROVE  OwnAnswers'
    <3> DEFINE mine == {id \in Mine(c) : id[1] # asked[c].number}
    <3>1. PICK k \in 0..TopK : s \in [1..k -> mine]
      BY <2>2 DEF Results
    <3>2. k \in Nat /\ mine \in SUBSET Ids
      BY <3>1, IssueIndexAssumption DEF Mine
    <3>3. \A id \in mine : Is(Repo(c), id[1], "issue") /\ id[1] # asked[c].number
      BY Basics DEF Mine, IInv, RecordInv
    <3>4. /\ \A j \in DOMAIN Listed(s) : \E i \in 1..k : Listed(s)[j][1] = s[i][1]
          /\ \A i, j \in DOMAIN Listed(s) : Listed(s)[i][1] = Listed(s)[j][1] => i = j
      BY <3>1, <3>2, ListedOK
    <3>5. \A j \in DOMAIN Listed(s) :
            Is(Repo(c), Listed(s)[j][1], "issue") /\ Listed(s)[j][1] # asked[c].number
      BY <3>1, <3>3, <3>4
    <3>6. ASSUME NEW d \in Commands
          PROVE  /\ \A j \in DOMAIN answer'[d] :
                      Is(Repo(d), answer'[d][j][1], "issue") /\ answer'[d][j][1] # asked[d].number
                 /\ \A i, j \in DOMAIN answer'[d] :
                      answer'[d][i][1] = answer'[d][j][1] => i = j
      <4>1. d \in DOMAIN answer
        BY DEF IInv, TypeOK
      <4>2. CASE d = c
        <5>1. answer'[d] = Listed(s)
          BY <2>2, <4>1, <4>2
        <5>. QED
          BY <3>4, <3>5, <4>2, <5>1
      <4>3. CASE d # c
        <5>1. answer'[d] = answer[d]
          BY <2>2, <4>1, <4>3
        <5>. QED
          BY <5>1 DEF IInv, OwnAnswers
      <4>. QED
        BY <4>2, <4>3
    <3>. QED
      BY <1>1, <3>6 DEF OwnAnswers, Is, Repo
  <2>. QED
    BY <2>1, <2>2 DEF Query
<1>. QED
  BY <1>1, <1>2, <1>3, <1>4, LocalStep

(***************************************************************************)
(* An issue is opened: it is newer than all that anything is known about.  *)
(***************************************************************************)
LEMMA OpenStep ==
  ASSUME IInv, TypeOK', NEW r \in Repos, NEW kind \in Kinds, OpenIssue(r, kind)
  PROVE  IInv'
<1>1. UNCHANGED <<asked, index, excused, pc, at, new, answer>>
  BY DEF OpenIssue, store
<1>2. \A q \in Repos : \A n \in DOMAIN issues[q] :
        /\ (Is(q, n, "issue")') = Is(q, n, "issue")
        /\ (Counts(q, n)') = Counts(q, n)
        /\ (Accounted(q, n)') = Accounted(q, n)
  <2>1. ASSUME NEW q \in Repos, NEW n \in DOMAIN issues[q]
        PROVE  /\ Is(q, n, "issue") <=> Is(q, n, "issue")'
               /\ Counts(q, n) <=> Counts(q, n)'
    BY IsStays DEF IInv
  <2>. QED
    BY <1>1, <2>1 DEF Is, Counts, Present, Accounted, Known
<1>3. \A q \in Repos : \A n : Is(q, n, "issue") => n \in DOMAIN issues[q] /\ Is(q, n, "issue")'
  BY <1>2 DEF Is
<1>4. RecordInv'
  BY <1>1, <1>3 DEF IInv, RecordInv
<1>5. \A q \in Repos : \A n \in DOMAIN issues[q] : \A m \in 1..(n - 1) : m \in DOMAIN issues[q]
  BY Basics DEF IInv
<1>6. NoGaps'
  <2>1. ASSUME NEW q \in Repos, NEW n \in Numbers, NEW m \in 1..(n - 1), Known(q, n)
        PROVE  Accounted(q, m)'
    <3>1. Is(q, n, "issue") /\ <<n, 0>> \in Ids
      BY <2>1, Basics DEF IInv, RecordInv, Known
    <3>2. m \in DOMAIN issues[q]
      BY <1>3, <1>5, <3>1
    <3>3. Accounted(q, m)
      BY <2>1 DEF IInv, NoGaps, Accounted
    <3>. QED
      BY <1>2, <3>2, <3>3
  <2>. QED
    BY <1>1, <2>1 DEF NoGaps, Accounted, Known
<1>7. CommandInv'
  <2>1. ASSUME NEW d \in Commands
        PROVE  FreshOK(d)' /\ WalkOK(d)' /\ IndexOK(d)'
    <3>1. FreshOK(d) /\ WalkOK(d) /\ IndexOK(d)
      BY DEF IInv, CommandInv
    <3>2. Repo(d) \in Repos /\ Repo(d)' = Repo(d)
      BY <1>1, Basics DEF IInv, Repo
    <3>3. \A n \in new[d] : \A m \in 1..(n - 1) : m \in DOMAIN issues[Repo(d)]
      <4>1. new[d] \subseteq 0..Len(issues[Repo(d)]) /\ new[d] \subseteq Numbers
        BY DEF IInv, TypeOK
      <4>2. DOMAIN issues[Repo(d)] = 1..Len(issues[Repo(d)]) /\ Len(issues[Repo(d)]) \in Nat
        BY <3>2, Basics DEF IInv
      <4>. QED
        BY <4>1, <4>2 DEF Numbers
    <3>4. WalkOK(d)'
      <4>1. ASSUME pc[d] = "walking", NEW n \in new[d], NEW m \in 1..(n - 1), m > at[d],
                   Counts(Repo(d), m)'
            PROVE  m \in new[d]
        <5>1. Counts(Repo(d), m)
          BY <1>2, <3>2, <3>3, <4>1 DEF Counts, Present, Is
        <5>. QED
          BY <3>1, <4>1, <5>1 DEF WalkOK
      <4>. QED
        BY <1>1, <3>1, <3>2, <4>1 DEF WalkOK, Counts, Present, Is
    <3>5. IndexOK(d)'
      <4>1. ASSUME pc[d] = "indexing", NEW n \in new[d], NEW m \in 1..(n - 1), m \notin new[d]
            PROVE  Accounted(Repo(d), m)'
        <5>1. Accounted(Repo(d), m) /\ m \in DOMAIN issues[Repo(d)]
          BY <3>1, <3>3, <4>1 DEF IndexOK
        <5>2. Accounted(Repo(d), m)' = Accounted(Repo(d), m)
          BY <1>1, <1>2, <3>2, <5>1 DEF Accounted, Is, Known, Repo
        <5>. QED
          BY <5>1, <5>2
      <4>. QED
        BY <1>1, <3>2, <4>1 DEF IndexOK, Accounted, Is, Known
    <3>. QED
      BY <1>1, <3>1, <3>4, <3>5 DEF FreshOK
  <2>. QED
    BY <2>1 DEF CommandInv
<1>8. OwnAnswers'
  <2>1. \A d \in Commands : Repo(d)' = Repo(d) /\ Repo(d) \in Repos
    BY <1>1, Basics DEF IInv, Repo
  <2>. QED
    BY <1>1, <1>3, <2>1 DEF IInv, OwnAnswers
<1>. QED
  BY <1>4, <1>6, <1>7, <1>8 DEF IInv

LEMMA NextIInv == IInv /\ [Next]_vars => IInv'
<1> SUFFICES ASSUME IInv, [Next]_vars PROVE IInv'
  OBVIOUS
<1>1. CASE UNCHANGED vars
  BY <1>1 DEF vars, IInv, TypeOK, RecordInv, CommandInv, FreshOK, WalkOK, IndexOK, NoGaps,
     OwnAnswers, Accounted, Counts, Present, Is, Known, Repo
<1>2. CASE Next
  <2>1. TypeOK'
    BY <1>2, TypeStep DEF IInv
  <2>2. ASSUME NEW c \in Commands, Step(c) PROVE IInv'
    BY <2>1, <2>2, SearchStep, IndexStep, QueryStep DEF Step
  <2>3. ASSUME NEW r \in Repos, NEW kind \in Kinds, OpenIssue(r, kind) PROVE IInv'
    BY <2>1, <2>3, OpenStep
  <2>. QED
    BY <1>1, <1>2, <2>2, <2>3 DEF Next, Quiescent
<1>. QED
  BY <1>1, <1>2

LEMMA IInvAlways == Spec => []IInv
BY InitIInv, NextIInv, PTL DEF Spec

-----------------------------------------------------------------------------
(***************************************************************************)
(* What the runs check.                                                    *)
(***************************************************************************)
\* The state stays well-typed: a command looks only at issues that exist, and a
\* walk is only begun on a repository that has been indexed.
THEOREM TypesHold == Spec => []TypeOK
BY IInvAlways, PTL DEF IInv

\* However the commands of all repositories overlap and whatever is opened in the
\* meanwhile, an issue is never in the index without the older ones.
THEOREM NoGapsHolds == Spec => []NoGaps
BY IInvAlways, PTL DEF IInv

\* A command lists different issues of its own repository, without the asked one.
THEOREM OwnAnswersHolds == Spec => []OwnAnswers
BY IInvAlways, PTL DEF IInv
=============================================================================
