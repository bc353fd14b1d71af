------------------------------ MODULE IssueIndex ------------------------------
(***************************************************************************)
(* The index of issues behind /similar_issue (PRSimilarIssue in            *)
(* pr_insight/tools/pr_similar_issue.py): one vector database, shared by   *)
(* all repositories, that each command brings up to date and then queries. *)
(*                                                                         *)
(* The database is qdrant.  With pinecone and lancedb the command always   *)
(* fails: the methods that build the index use modules which only the      *)
(* constructor's scope imports.                                            *)
(***************************************************************************)
EXTENDS Naturals, FiniteSets, Sequences

CONSTANTS
  Repos,          \* the repositories
  Commands,       \* the /similar_issue commands that are given
  Kinds,          \* kinds of issues: [what, comments]
  Databases,      \* the databases that may be configured
  MaxIssuesToScan, \* pr_similar_issue.max_issues_to_scan
  TopK,           \* results of a query (5 in the code)
  MaxNumber,      \* bound: issues and pull requests of a repository
  MaxComments,    \* bound: comments of an issue
  MaxFailures     \* bound: calls of the embedding service that fail

\* A "long" issue exceeds the embedding model's input and is not indexed.
ASSUME IssueIndexAssumption ==
  /\ Kinds \subseteq [what : {"issue", "long", "pull"}, comments : 0..MaxComments]
  /\ Databases \subseteq {"qdrant", "pinecone", "lancedb"}
  /\ "nobody" \notin Repos
  /\ MaxIssuesToScan \in Nat \ {0}
  /\ TopK \in Nat /\ MaxNumber \in Nat \ {0}
  /\ MaxComments \in Nat /\ MaxFailures \in Nat

VARIABLES
  database,   \* pr_similar_issue.vectordb
  issues,     \* issues[r]: the issues and pull requests of r, oldest first
  asked,      \* asked[c]: the repository and the number of the issue of c
  exists,     \* the collection exists
  index,      \* index[id]: the repository of the record with this id, if any
  example,    \* the repositories whose example record is in the index
  pc,         \* pc[c]: where the command c is
  at,         \* at[c]: the number of the issue that c looks at next
  new,        \* new[c]: the numbers of the issues that c will index
  answer,     \* answer[c]: the issues and comments that c has listed
  failures,   \* calls that failed so far
  excused     \* <<r, n>>: dropped by the scan's limit or by another repository

vars == <<database, issues, asked, exists, index, example, pc, at, new,
          answer, failures, excused>>
store == <<exists, index, example, excused>>

Numbers == 1..MaxNumber
\* Record ids name the issue and the comment (0 for the issue), not the repository.
Ids == Numbers \X (0..MaxComments)
Nobody == "nobody"
Ended == {"done", "failed"}

Repo(c) == asked[c].repo
Is(r, n, what) == n \in DOMAIN issues[r] /\ issues[r][n].what = what
Known(r, n) == index[<<n, 0>>] = r

-----------------------------------------------------------------------------
Init ==
  /\ database \in Databases
  /\ issues \in [Repos -> {<<k>> : k \in {j \in Kinds : j.what = "issue"}}]
  /\ asked \in [Commands -> [repo : Repos, number : {1}]]
  /\ exists = FALSE
  /\ index = [id \in Ids |-> Nobody]
  /\ example = {}
  /\ pc = [c \in Commands |-> "idle"]
  /\ at = [c \in Commands |-> 0]
  /\ new = [c \in Commands |-> {}]
  /\ answer = [c \in Commands |-> <<>>]
  /\ failures = 0
  /\ excused = {}

Goto(c, state) == pc' = [pc EXCEPT ![c] = state]
Succeed == UNCHANGED failures
Fail == failures < MaxFailures /\ failures' = failures + 1

\* Somebody opens an issue or a pull request.
OpenIssue(r, kind) ==
  /\ Len(issues[r]) < MaxNumber
  /\ issues' = [issues EXCEPT ![r] = Append(@, kind)]
  /\ UNCHANGED <<database, asked, store, pc, at, new, answer, failures>>

Indexed(c) == Repo(c) \in example

\* The constructor: a missing collection is created; without the repository's
\* example record everything is indexed, otherwise what is new.
Construct(c) ==
  /\ pc[c] = "idle"
  /\ database = "qdrant"
  /\ Goto(c, IF ~exists THEN "creating"
             ELSE IF Indexed(c) THEN "walking" ELSE "listing")
  /\ at' = [at EXCEPT ![c] = Len(issues[Repo(c)])]
  /\ UNCHANGED <<database, issues, asked, store, new, answer, failures>>

\* The modules that build a pinecone index or a lancedb table are not in scope.
ConstructPinecone(c) ==
  /\ pc[c] = "idle"
  /\ database = "pinecone"
  /\ Goto(c, "failed")
  /\ UNCHANGED <<database, issues, asked, store, at, new, answer, failures>>

ConstructLance(c) ==
  /\ pc[c] = "idle"
  /\ database = "lancedb"
  /\ Goto(c, "failed")
  /\ UNCHANGED <<database, issues, asked, store, at, new, answer, failures>>

\* Another command may have created the collection since it was looked for.
Create(c) ==
  /\ pc[c] = "creating"
  /\ Goto(c, IF exists THEN "failed" ELSE "listing")
  /\ exists' = TRUE
  /\ UNCHANGED <<database, issues, asked, index, example, excused, at, new, answer,
                 failures>>

\* All issues are listed, of which pull requests are passed over.
List(c) ==
  /\ pc[c] = "listing"
  /\ Goto(c, "indexing")
  /\ new' = [new EXCEPT ![c] =
       {n \in DOMAIN issues[Repo(c)] : ~Is(Repo(c), n, "pull")}]
  /\ UNCHANGED <<database, issues, asked, store, at, answer, failures>>

StopsAt(c, n) == ~Is(Repo(c), n, "pull") /\ Known(Repo(c), n)

\* From the newest issue on, until the first that is in the index.
Walk(c) ==
  /\ pc[c] = "walking"
  /\ IF at[c] = 0 \/ StopsAt(c, at[c])
     THEN /\ Goto(c, IF new[c] = {} THEN "querying" ELSE "indexing")
          /\ UNCHANGED <<at, new>>
     ELSE /\ at' = [at EXCEPT ![c] = @ - 1]
          /\ new' = IF Is(Repo(c), at[c], "pull") THEN new
                    ELSE [new EXCEPT ![c] = @ \cup {at[c]}]
          /\ UNCHANGED pc
  /\ UNCHANGED <<database, issues, asked, store, answer, failures>>

\* The newest of the new issues, one short of the limit; of each its comments.
Scanned(c) ==
  {n \in new[c] : Cardinality({m \in new[c] : m >= n}) < MaxIssuesToScan}
Records(c) ==
  {id \in Ids : /\ id[1] \in Scanned(c)
                /\ Is(Repo(c), id[1], "issue")
                /\ id[2] <= issues[Repo(c)][id[1]].comments}

\* The issues of other repositories whose records these take the place of.
Ousted(c) ==
  {i \in Repos \X Numbers :
     i[1] # Repo(c) /\ Known(i[1], i[2]) /\ <<i[2], 0>> \in Records(c)}

\* Mutant of Stored: the records of the repository are replaced.
StoredAnew(c) ==
  [id \in Ids |-> IF id \in Records(c) THEN Repo(c)
                  ELSE IF index[id] = Repo(c) THEN Nobody ELSE index[id]]

\* A record with the same id is overwritten, whosever it is.
Stored(c) == [id \in Ids |-> IF id \in Records(c) THEN Repo(c) ELSE index[id]]

\* The records go into the collection at once.  A text that cannot be embedded,
\* neither with the others nor alone, is stored all the same, with a zero vector.
Index(c) ==
  /\ pc[c] = "indexing"
  /\ Goto(c, "querying")
  /\ index' = Stored(c)
  /\ example' = example \cup {Repo(c)}
  /\ excused' = excused \cup {<<Repo(c), n>> : n \in new[c] \ Scanned(c)} \cup Ousted(c)
  /\ at' = [at EXCEPT ![c] = 0]
  /\ new' = [new EXCEPT ![c] = {}]
  /\ UNCHANGED <<database, issues, asked, exists, answer, failures>>

\* Mutant of Mine: the query is not restricted to the repository.
MineAll(c) == {id \in Ids : index[id] # Nobody}

Mine(c) == {id \in Ids : index[id] = Repo(c)}

\* The results of a query in the order of their scores: any of the
\* repository's records, the example's and the asked issue's left out.
Results(c) ==
  UNION {{s \in [1..k -> {id \in Mine(c) : id[1] # asked[c].number}] :
            \A i, j \in 1..k : s[i] = s[j] => i = j} : k \in 0..TopK}

\* An issue is listed once, but every result adds a comment number, so they
\* need not correspond; a number that is no position among the issue's
\* comments (they are counted from 1 in the ids) raises an exception.
FirstOf(s) == {i \in DOMAIN s : \A j \in 1..(i - 1) : s[j][1] # s[i][1]}
NthFirst(s, k) ==
  CHOOSE i \in FirstOf(s) : Cardinality({j \in FirstOf(s) : j <= i}) = k
Listed(s) ==
  [k \in 1..Cardinality(FirstOf(s)) |-> <<s[NthFirst(s, k)][1], s[k][2]>>]
Linkable(c, list) ==
  \A k \in DOMAIN list : list[k][2] = 0 \/ list[k][2] < issues[Repo(c)][list[k][1]].comments

\* The issue is embedded and looked up, and the comment published.
Query(c) ==
  /\ pc[c] = "querying"
  /\ \/ /\ Succeed
        /\ \E s \in Results(c) :
             IF Linkable(c, Listed(s))
             THEN Goto(c, "done") /\ answer' = [answer EXCEPT ![c] = Listed(s)]
             ELSE Goto(c, "failed") /\ UNCHANGED answer
     \/ Fail /\ Goto(c, "failed") /\ UNCHANGED answer
  /\ UNCHANGED <<database, issues, asked, store, at, new>>

Quiescent ==
  /\ \A c \in Commands : pc[c] \in Ended
  /\ UNCHANGED vars

Step(c) ==
  \/ Construct(c) \/ ConstructPinecone(c) \/ ConstructLance(c) \/ Create(c)
  \/ List(c) \/ Walk(c) \/ Index(c) \/ Query(c)

Next ==
  \/ \E c \in Commands : Step(c)
  \/ \E r \in Repos, kind \in Kinds : OpenIssue(r, kind)
  \/ Quiescent

Spec == Init /\ [][Next]_vars

-----------------------------------------------------------------------------
(* Every field keeps to its values; only issues that exist are looked at and *)
(* indexed, and only a repository that was indexed is brought up to date.    *)
TypeOK ==
  /\ database \in Databases
  /\ issues \in [Repos -> Seq(Kinds)]
  /\ \A r \in Repos : Len(issues[r]) \in Numbers
  /\ asked \in [Commands -> [repo : Repos, number : {1}]]
  /\ index \in [Ids -> Repos \cup {Nobody}]
  /\ example \subseteq Repos
  /\ pc \in [Commands -> {"idle", "creating", "listing", "walking", "indexing",
                          "querying"} \cup Ended]
  /\ at \in [Commands -> 0..MaxNumber] /\ new \in [Commands -> SUBSET Numbers]
  /\ \A c \in Commands : {at[c]} \cup new[c] \subseteq 0..Len(issues[Repo(c)])
  /\ \A c \in Commands : pc[c] = "walking" => exists /\ Repo(c) \in example
  /\ answer \in [Commands -> Seq(Ids)]
  /\ excused \subseteq Repos \X Numbers
  /\ failures \in 0..MaxFailures

(* However the commands of a repository overlap, the index has no gap: once  *)
(* an issue is in it, every older issue of the repository is, unless it is   *)
(* too long, fell to the limit of a scan, or another repository's issue with *)
(* the same number took its place.  The search for new issues relies on it,  *)
(* as it stops at the first that it knows.                                   *)
NoGaps ==
  \A r \in Repos, n \in Numbers : \A m \in 1..(n - 1) :
    Known(r, n) /\ Is(r, m, "issue") => Known(r, m) \/ <<r, m>> \in excused

(* What a command lists are different issues of its own repository, none of  *)
(* them the one that was asked about, although all repositories share ids.   *)
OwnAnswers ==
  \A c \in Commands :
    LET list == answer[c] IN
      /\ \A k \in DOMAIN list :
           Is(Repo(c), list[k][1], "issue") /\ list[k][1] # asked[c].number
      /\ \A j, k \in DOMAIN list : list[j][1] = list[k][1] => j = k
=============================================================================
