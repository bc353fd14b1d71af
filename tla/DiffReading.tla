----------------------------- MODULE DiffReading -----------------------------
(***************************************************************************)
(* How the providers other than GitHub's read the diff of a pull request:  *)
(* get_diff_files of each, from the changes that the service has and the   *)
(* calls that fail to what the model will be shown.                        *)
(*                                                                         *)
(* A change is [name, type, hunks, valid, ignored, large, inside]: a large *)
(* one has no patch in the service's answer, and one with files inside is  *)
(* a submodule that moves.  A file's text is {} where there is none, and   *)
(* {its name} otherwise; a line of a patch is <<file, part>>.              *)
(***************************************************************************)
EXTENDS Naturals, FiniteSets, SequencesExt

CONSTANT Changes   \* the changes of the pull request, in the service's order

\* A file changes once, and no other path begins with a submodule's.
ASSUME ChangesAssumption ==
  /\ Changes \in Seq(ToSet(Changes))
  /\ \A i, j \in DOMAIN Changes : Changes[i].name = Changes[j].name => i = j
  /\ \A c \in ToSet(Changes) :
       /\ c.type \in {"add", "delete", "modify", "rename"}
       /\ c.hunks \in Seq(ToSet(c.hunks))
       /\ c.type = "add" => c.hunks = <<"added">>
       /\ c.type = "delete" => c.hunks = <<"removed">>
       /\ \A d \in ToSet(Changes) : c.name \notin d.inside

Before(c) == IF c.type = "add" THEN {} ELSE {c.name}
After(c) == IF c.type = "delete" THEN {} ELSE {c.name}

HunksOf(f) == UNION {ToSet(c.hunks) : c \in {d \in ToSet(Changes) : d.name = f}}

\* A patch that is computed from the file's text before and after.
Computed(base, head) ==
  IF base = {} THEN head \X {"added"}
  ELSE IF head = {} THEN base \X {"removed"}
  ELSE UNION {{f} \X HunksOf(f) : f \in head}

\* The patch of a change.
Patch(c) == Computed(Before(c), After(c))

Entry(f, patch) == [file |-> f, patch |-> patch]

(* A reading: the entries it returns, those that the provider keeps for the  *)
(* next one, and whether it raised.                                          *)
Returned(entries) == [entries |-> entries, kept |-> entries, raised |-> FALSE]
Raised(kept) == [entries |-> {}, kept |-> kept, raised |-> TRUE]
Swallowed == [entries |-> {}, kept |-> {}, raised |-> FALSE]

\* filter_ignored and is_valid_file.
Kept == {c \in ToSet(Changes) : ~c.ignored /\ c.valid}

Everything == Returned({Entry(c.name, Patch(c)) : c \in ToSet(Changes)})

Overall(kind) == <<kind, "">>
Contents(c) == ({"base"} \X Before(c)) \cup ({"head"} \X After(c))
ContentCalls(cs) == UNION {Contents(c) : c \in cs}
\* The text of a file, {} when the call failed.
BaseOr(c, failed) == IF <<"base", c.name>> \in failed THEN {} ELSE Before(c)
HeadOr(c, failed) == IF <<"head", c.name>> \in failed THEN {} ELSE After(c)

-----------------------------------------------------------------------------
\* The submodule's project and the comparison of its commits are found.
Resolved(c, failed) == failed \cap {Overall("modules"), <<"compare", c.name>>} = {}

Inside(c, failed) ==
  {Entry(f, {<<f, "inside">>}) : f \in IF Resolved(c, failed) THEN c.inside ELSE {}}

(* GitLab: the files of a submodule are added to the list, before ignored    *)
(* files are taken out of it.  A large file's patch is computed.             *)
ReadGitlab(failed) ==
  IF Overall("list") \in failed THEN Raised({})
  ELSE Returned(
    {Entry(c.name, IF c.large THEN Computed(BaseOr(c, failed), HeadOr(c, failed)) ELSE Patch(c)) :
       c \in Kept}
    \cup UNION {Inside(c, failed) : c \in ToSet(Changes)})

(* Gitea: one diff of the whole pull request, which is taken apart line by   *)
(* line: of each change a header and its hunks.                              *)

\* What was collected for a file is put away when the next one begins.
PutAway(p) == IF p.patch = {} THEN p.done ELSE p.done \cup {Entry(p.file, p.patch)}
TakeHeader(p, f) == [file |-> f, patch |-> {}, done |-> PutAway(p)]

\* A hunk begins the patch of its file anew.
TakeHunk(p, line) == [p EXCEPT !.patch = {line}]

TakeApart(p, c) ==
  LET after[j \in 0..Len(c.hunks)] ==
        IF j = 0 THEN TakeHeader(p, c.name) ELSE TakeHunk(after[j - 1], <<c.name, c.hunks[j]>>)
  IN  after[Len(c.hunks)]

TakenApart ==
  LET after[n \in 0..Len(Changes)] ==
        IF n = 0 THEN [file |-> "", patch |-> {}, done |-> {}]
        ELSE TakeApart(after[n - 1], Changes[n])
  IN  PutAway(after[Len(Changes)])

\* It never raises: without the list there are no files, without the diff no patches.
ReadGitea(failed) ==
  IF Overall("list") \in failed THEN Swallowed
  ELSE Returned({Entry(c.name,
         IF Overall("diff") \in failed THEN {}
         ELSE UNION {e.patch : e \in {d \in TakenApart : d.file = c.name}}) : c \in Kept})

(* Azure DevOps: every patch is computed, of a renamed file as of a new one; *)
(* whatever is raised, there are no files.                                   *)
ReadAzure(failed) ==
  IF Overall("list") \in failed THEN Swallowed
  ELSE Returned({Entry(c.name,
         Computed(IF c.type = "rename" THEN {} ELSE BaseOr(c, failed), HeadOr(c, failed))) :
           c \in Kept})

(* Bitbucket: one diff of the whole pull request, asked for again if need    *)
(* be, whose parts are matched to the files by their place.  The header of a *)
(* renamed file has two more lines, with which its patch is not recognised.  *)
Parts == [i \in DOMAIN Changes |-> IF Changes[i].type = "rename" THEN {} ELSE Patch(Changes[i])]

\* The places of changes, in their order; of[n] has those of the first n.
Places(chosen) ==
  LET of[n \in 0..Len(Changes)] ==
        IF n = 0 THEN <<>> ELSE IF n \in chosen THEN Append(of[n - 1], n) ELSE of[n - 1]
  IN  of[Len(Changes)]
Unignored == Places({i \in DOMAIN Changes : ~Changes[i].ignored})

\* Mutant of KeptParts: the parts of ignored files are not taken out.
KeptPartsAll == Parts

KeptParts == [j \in DOMAIN Unignored |-> Parts[Unignored[j]]]

ReadBitbucket(failed) ==
  LET files == [j \in DOMAIN Unignored |-> Changes[Unignored[j]]] IN
  IF Overall("list") \in failed \/ {Overall("diff"), Overall("again")} \subseteq failed
  THEN Raised({})
  ELSE IF Len(KeptParts) # Len(files) THEN Swallowed
  ELSE Returned({Entry(files[i].name, KeptParts[i]) : i \in {j \in DOMAIN files : files[j].valid}})

(* Bitbucket Server: patches are computed from two variables that a renamed  *)
(* file leaves as the file before it set them.  An HTTP error stands for no  *)
(* text; any other error ends the reading.                                   *)
NextFile(r, c, failed) ==
  LET base == IF c.type = "rename" THEN r.base ELSE BaseOr(c, failed)
      head == IF c.type = "rename" THEN r.head ELSE HeadOr(c, failed)
  IN  [base |-> base, head |-> head,
       entries |-> r.entries \cup {Entry(c.name, Computed(base, head))}]

ReadBitbucketServer(failed, o) ==
  IF o = "lost" \/ failed \cap {Overall("list"), Overall("base")} # {} THEN Raised({})
  ELSE LET after[n \in 0..Len(Changes)] ==
             IF n = 0 THEN [base |-> {}, head |-> {}, entries |-> {}]
             ELSE IF Changes[n] \in Kept THEN NextFile(after[n - 1], Changes[n], failed)
             ELSE after[n - 1]
       IN  Returned(after[Len(Changes)].entries)

(* CodeCommit: the list that is returned the next time is filled file by     *)
(* file, until a call fails.  A deleted file has no path after the change.   *)
ReadCodecommit(failed) ==
  LET first == SelectInSeq(Changes, LAMBDA c : Contents(c) \cap failed # {})
      done == {Entry(c.name, Patch(c)) :
                 c \in {Changes[i] : i \in {j \in DOMAIN Changes :
                          /\ first = 0 \/ j < first
                          /\ Changes[j].valid /\ Changes[j].type # "delete"}}}
  IN  IF Overall("list") \in failed THEN Raised({})
      ELSE IF first # 0 THEN Raised(done)
      ELSE Returned(done)

\* Gerrit: a clone of the repository, of which nothing is left out.
ReadGerrit == Everything

\* The local provider: likewise, against the merge base.
ReadLocal == Everything

-----------------------------------------------------------------------------
\* The calls of a reading whose failure makes a difference to it.
ReadCalls(service) ==
  CASE service = "gitlab" ->
         {Overall("list"), Overall("modules")} \cup ContentCalls({c \in Kept : c.large})
         \cup {<<"compare", c.name>> : c \in {d \in ToSet(Changes) : d.inside # {}}}
    [] service = "gitea" -> {Overall("list"), Overall("diff")}
    [] service = "azure" -> {Overall("list")} \cup ContentCalls(Kept)
    [] service = "bitbucket" -> {Overall("list"), Overall("diff"), Overall("again")}
    [] service = "bitbucket_server" -> {Overall("list"), Overall("base")} \cup ContentCalls(Kept)
    [] service = "codecommit" -> {Overall("list")} \cup ContentCalls(ToSet(Changes))
    [] OTHER -> {}

\* Bound: at most one of them fails, or Bitbucket's diff both times.
ReadFailures(service) ==
  {{}} \cup {{call} : call \in ReadCalls(service)}
  \cup IF service = "bitbucket" THEN {{Overall("diff"), Overall("again")}} ELSE {}

(* What a provider that keeps kept reads when the calls failed are refused,  *)
(* or, if o is "lost", not answered.                                         *)
Reading(service, kept, failed, o) ==
  IF kept # {} THEN Returned(kept)
  ELSE CASE service = "gitlab" -> ReadGitlab(failed)
         [] service = "gitea" -> ReadGitea(failed)
         [] service = "azure" -> ReadAzure(failed)
         [] service = "bitbucket" -> ReadBitbucket(failed)
         [] service = "bitbucket_server" -> ReadBitbucketServer(failed, o)
         [] service = "codecommit" -> ReadCodecommit(failed)
         [] service = "gerrit" -> ReadGerrit
         [] service = "local" -> ReadLocal

Shows(entries) == \E e \in entries : e.patch # {}
PatchOf(entries, f) == UNION {e.patch : e \in {d \in entries : d.file = f}}
=============================================================================
