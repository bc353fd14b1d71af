----------------------------- MODULE DiffPacking -----------------------------
(***************************************************************************)
(* How the files of a pull request are packed into prompts for the model   *)
(* (algo/pr_processing.py).  If the whole diff, extended with context, is  *)
(* too long, the patches are pruned and packed                             *)
(*   - into one prompt that names the files left out (get_pr_diff),        *)
(*   - by /describe into several, if it takes more than one                *)
(*     (get_pr_diff_multiple_patchs), or                                   *)
(*   - by /improve into several at once (get_pr_multi_diffs).              *)
(* An action is one turn of the loops over the files.                      *)
(***************************************************************************)
EXTENDS Integers, Sequences, FiniteSets

CONSTANTS
  Files,      \* the files, numbered in the order the provider lists them
  Shapes,     \* what a file may look like
  Requests,   \* who asks, for which model
  Soft,       \* OUTPUT_BUFFER_TOKENS_SOFT_THRESHOLD
  Hard,       \* OUTPUT_BUFFER_TOKENS_HARD_THRESHOLD
  Delta,      \* delta_tokens
  NameTokens, \* tokens of a file's name in a list, or of a list's heading
  ClipTokens, \* tokens that a clipped patch may have
  MaxRounds,  \* pr_description.max_ai_calls - 1
  MaxCalls    \* pr_code_suggestions.max_number_of_calls

\* "unpatched": the provider has no patch.  "gone": the file was deleted.
\* "pruned": all hunks only delete lines.  "patched": some hunk adds lines.
Kinds == {"unpatched", "gone", "pruned", "patched"}

\* A file belongs to a main language of the repository, or to the rest.  Its
\* patch has tokens when extended, when pruned, and for the line that names it.
Shape ==
  [language : Nat, kind : Kinds, edit : {"added", "modified", "renamed", "deleted", "unknown"},
   extended : Nat, pruned : Nat, header : Nat]

\* mode: /review and others, /describe, /improve.  prompt: the tokens of the
\* prompt without the patches, and of the one /describe has for several calls.
Request ==
  [mode : {"single", "large", "multi"}, numbered : BOOLEAN, clip : BOOLEAN,
   max : Nat, prompt : Nat, filesPrompt : Nat]

ASSUME DiffPackingAssumption ==
  /\ Files \subseteq Nat /\ IsFiniteSet(Files)
  /\ Shapes \subseteq Shape
  /\ Requests \subseteq Request
  /\ Soft \in Nat /\ Hard \in Nat /\ Delta \in Nat /\ NameTokens \in Nat
  /\ Hard <= Soft
  /\ ClipTokens \subseteq Nat
  /\ MaxRounds \in Nat /\ MaxCalls \in Nat \ {0}

VARIABLES
  request,  \* who asks
  file,     \* file[f]: what the file looks like
  pc,       \* "extending", "packing", "listing", "filling" or "done"
  again,    \* get_pr_diff left the packing to get_pr_diff_multiple_patchs
  todo,     \* the files that the loop has not come to
  total,    \* total_tokens of the prompt that is being packed
  patches,  \* the files whose patches it has
  left,     \* the files kept for another prompt, or too large for any
  skipped,  \* the files that were skipped for want of tokens
  rounds,   \* calls of generate_full_patch, or prompts, that are through
  prompts,  \* the prompts that are packed
  named     \* the files that are named only

vars == <<request, file, pc, again, todo, total, patches, left, skipped, rounds,
          prompts, named>>

Prompt(files, tokens, remaining) ==
  [files |-> files, tokens |-> tokens, left |-> remaining]

WithPatch == {f \in Files : file[f].kind # "unpatched"}

\* handle_patch_deletions leaves these; their keys are those of file_dict.
FileDict == {f \in Files : file[f].kind \in {"pruned", "patched"}}

\* A pruned patch has no hunk left: only its file's name, with line numbers.
HasText(f) == file[f].kind = "patched" \/ request.numbered
PatchTokens(f) == IF HasText(f) THEN file[f].pruned ELSE 0

\* With line numbers the file's name is part of the patch already.
HeaderTokens(f) == IF request.numbered THEN 0 ELSE file[f].header

\* By language, within a language by the tokens of the extended patch (-1 if
\* there is none), then in the provider's order.
SortKey(f) == IF file[f].kind = "unpatched" THEN -1 ELSE file[f].extended
Before(f, g) ==
  \/ file[f].language < file[g].language
  \/ /\ file[f].language = file[g].language
     /\ \/ SortKey(f) > SortKey(g)
        \/ SortKey(f) = SortKey(g) /\ f < g

IsNext(f) == f \in todo /\ \A g \in todo \ {f} : Before(f, g)

\* The prompt in use: /describe has one of its own for several calls.
BasePrompt == IF again THEN request.filesPrompt ELSE request.prompt
SoftLimit == request.max - Soft
HardLimit == request.max - Hard

Init ==
  /\ request \in Requests
  /\ file \in [Files -> Shapes]
  /\ pc = "extending"
  /\ again = FALSE
  /\ todo = WithPatch
  /\ patches = {} /\ left = {} /\ skipped = {} /\ named = {}
  /\ total = request.prompt /\ rounds = 0
  /\ prompts = <<>>

-----------------------------------------------------------------------------
\* A new packing begins.
Start(state, isAgain) ==
  /\ pc' = state
  /\ again' = isAgain
  /\ todo' = FileDict
  /\ total' = IF isAgain THEN request.filesPrompt ELSE request.prompt
  /\ patches' = {} /\ left' = {} /\ skipped' = {} /\ rounds' = 0
  /\ prompts' = <<>>
  /\ UNCHANGED <<request, file, named>>

\* pr_generate_extended_diff comes to a file.  It only sums their tokens, so the
\* order, by language in the code, makes no difference.
Extend(f) ==
  /\ pc = "extending" /\ f \in todo /\ \A g \in todo : f <= g
  /\ todo' = todo \ {f}
  /\ total' = total + file[f].extended
  /\ UNCHANGED <<request, file, pc, again, patches, left, skipped, rounds, prompts,
                 named>>

\* The whole diff is taken if it fits; none is no diff.
EndExtend ==
  LET fits == total + Soft < request.max
      empty == WithPatch = {}
  IN  /\ pc = "extending" /\ todo = {}
      /\ \/ /\ fits /\ ~(request.mode = "large" /\ empty)
            /\ pc' = "done"
            /\ prompts' = IF request.mode = "multi" /\ empty THEN <<>>
                          ELSE <<Prompt(WithPatch, total, {})>>
            /\ UNCHANGED <<request, file, again, todo, total, patches, left,
                           skipped, rounds, named>>
         \/ /\ fits /\ request.mode = "large" /\ empty
            /\ Start("packing", TRUE)
         \/ /\ ~fits
            /\ Start(IF request.mode = "multi" THEN "filling" ELSE "packing", FALSE)

-----------------------------------------------------------------------------
\* Mutant of Fits: the hard threshold is taken for the soft one.
FitsHard(f) == total + PatchTokens(f) <= HardLimit

Fits(f) == total + PatchTokens(f) <= SoftLimit

\* Mutant of Pack: the first patch that does not fit ends the round.
PackUntil(f) ==
  /\ pc = "packing" /\ IsNext(f)
  /\ \/ /\ total > HardLimit
        /\ todo' = todo \ {f}
        /\ skipped' = skipped \cup {f}
        /\ UNCHANGED <<total, patches, left>>
     \/ /\ total <= HardLimit /\ ~Fits(f)
        /\ todo' = {}
        /\ left' = left \cup todo
        /\ UNCHANGED <<total, patches, skipped>>
     \/ /\ total <= HardLimit /\ Fits(f)
        /\ todo' = todo \ {f}
        /\ patches' = patches \cup {f}
        /\ total' = total + PatchTokens(f) + HeaderTokens(f)
        /\ UNCHANGED <<left, skipped>>
  /\ UNCHANGED <<request, file, pc, again, rounds, prompts, named>>

\* generate_full_patch comes to a file.  One that does not fit is kept for
\* another prompt; past the hard threshold it is not.
Pack(f) ==
  /\ pc = "packing" /\ IsNext(f)
  /\ todo' = todo \ {f}
  /\ \/ /\ total > HardLimit
        /\ skipped' = skipped \cup {f}
        /\ UNCHANGED <<total, patches, left>>
     \/ /\ total <= HardLimit /\ ~Fits(f)
        /\ left' = left \cup {f}
        /\ UNCHANGED <<total, patches, skipped>>
     \/ /\ total <= HardLimit /\ Fits(f) /\ HasText(f)
        /\ patches' = patches \cup {f}
        /\ total' = total + PatchTokens(f) + HeaderTokens(f)
        /\ UNCHANGED <<left, skipped>>
     \/ /\ total <= HardLimit /\ Fits(f) /\ ~HasText(f)
        /\ UNCHANGED <<total, patches, left, skipped>>
  /\ UNCHANGED <<request, file, pc, again, rounds, prompts, named>>

\* The first prompt is kept even if it is empty.
WithPatches ==
  IF prompts = <<>> \/ patches # {}
  THEN Append(prompts, Prompt(patches, total, left)) ELSE prompts

\* Mutants of Remaining: the next prompt is packed from all patches again, or
\* from all files.
RemainingAll == FileDict
RemainingFiles == Files

Remaining == left

\* generate_full_patch returns, and is called again for what remains.
EndRound ==
  LET more == request.mode = "large" /\ left # {} /\ rounds + 1 < MaxRounds
      several == request.mode = "large" /\ Len(WithPatches) > 1
  IN  /\ pc = "packing" /\ todo = {}
      /\ \/ /\ more
            /\ prompts' = WithPatches
            /\ todo' = Remaining
            /\ total' = BasePrompt
            /\ patches' = {} /\ left' = {}
            /\ rounds' = rounds + 1
            /\ UNCHANGED <<request, file, pc, again, skipped, named>>
         \/ /\ ~more /\ several /\ ~again
            /\ Start("packing", TRUE)
         \/ /\ ~more /\ (several => again)
            /\ pc' = IF again THEN "done" ELSE "listing"
            /\ prompts' = WithPatches
            /\ rounds' = rounds + 1
            /\ UNCHANGED <<request, file, again, todo, total, patches, left,
                           skipped, named>>

\* A list has a heading, and is appended after an empty line.
ListTokens(files) ==
  IF files = {} THEN 0 ELSE NameTokens * (Cardinality(files) + 1) + 2

\* get_pr_diff names the files that were added, modified or deleted and are not
\* shown, as far as there is room; what clip_tokens leaves of a list that is
\* too long is left open.
List ==
  LET shown == prompts[1]
      room == HardLimit - shown.tokens
      listed(edits) == {f \in FileDict \ shown.files : file[f].edit \in edits}
      added == listed({"added"})
      modified == listed({"modified", "renamed"})
      deleted == listed({"deleted"})
      all == added \cup modified \cup deleted
  IN  /\ pc = "listing"
      /\ \/ /\ room > Delta
            /\ \E names \in SUBSET all :
                 /\ ListTokens(added) + ListTokens(modified) + ListTokens(deleted) <= room =>
                      names = all
                 /\ named' = names
            /\ request.mode = "large" => shown.files # {} \/ all # {}
            /\ pc' = "done"
            /\ UNCHANGED <<request, file, again, todo, total, patches, left,
                           skipped, rounds, prompts>>
         \/ /\ room <= Delta
            /\ request.mode = "large" => shown.files # {}
            /\ pc' = "done"
            /\ UNCHANGED <<request, file, again, todo, total, patches, left,
                           skipped, rounds, prompts, named>>
         \/ /\ request.mode = "large" /\ shown.files = {}
            /\ room > Delta => all = {}
            /\ Start("packing", TRUE)

-----------------------------------------------------------------------------
\* The tokens of a file's patch under its name, for /improve.
FullTokens(f) == PatchTokens(f) + HeaderTokens(f)
FitsAlone(f) == request.prompt + FullTokens(f) <= SoftLimit

\* Mutant of LastCall: one call too many.
LastCallLate == rounds >= MaxCalls

LastCall == rounds + 1 >= MaxCalls

\* A patch is added; if the prompt is full, to the next one, unless it was the
\* last.
Add(f, tokens) ==
  \/ /\ total + tokens <= SoftLimit
     /\ todo' = todo \ {f}
     /\ patches' = patches \cup {f}
     /\ total' = total + tokens
     /\ UNCHANGED <<rounds, prompts>>
  \/ /\ total + tokens > SoftLimit
     /\ prompts' = Append(prompts, Prompt(patches, total, {}))
     /\ rounds' = rounds + 1
     /\ IF LastCall
        THEN todo' = {} /\ patches' = {} /\ total' = request.prompt
        ELSE todo' = todo \ {f} /\ patches' = {f} /\ total' = request.prompt + tokens

\* A patch that is too large for a prompt of its own is left out.
LeaveOut(f) ==
  /\ todo' = todo \ {f}
  /\ left' = left \cup {f}
  /\ UNCHANGED <<total, patches, rounds, prompts>>

\* get_pr_multi_diffs comes to a file.
Fill(f) ==
  /\ pc = "filling" /\ IsNext(f)
  /\ \/ FitsAlone(f) /\ Add(f, FullTokens(f)) /\ UNCHANGED left
     \/ ~FitsAlone(f) /\ ~request.clip /\ LeaveOut(f)
     \/ /\ ~FitsAlone(f) /\ request.clip
        /\ \E tokens \in IF request.prompt < SoftLimit THEN ClipTokens ELSE {0} :
             IF tokens = 0 \/ request.prompt + tokens > SoftLimit
             THEN LeaveOut(f) ELSE Add(f, tokens) /\ UNCHANGED left
  /\ UNCHANGED <<request, file, pc, again, skipped, named>>

EndFill ==
  /\ pc = "filling" /\ todo = {}
  /\ pc' = "done"
  /\ prompts' = IF patches = {} THEN prompts
                ELSE Append(prompts, Prompt(patches, total, {}))
  /\ UNCHANGED <<request, file, again, todo, total, patches, left, skipped,
                 rounds, named>>

Quiescent == pc = "done" /\ UNCHANGED vars

Next ==
  \/ \E f \in Files : Extend(f) \/ Pack(f) \/ Fill(f)
  \/ EndExtend
  \/ EndRound
  \/ List
  \/ EndFill
  \/ Quiescent

Spec == Init /\ [][Next]_vars

-----------------------------------------------------------------------------
States == {"extending", "packing", "listing", "filling", "done"}

Prompts == [files : SUBSET Files, tokens : Nat, left : SUBSET Files]

TypeOK ==
  /\ request \in Requests
  /\ file \in [Files -> Shapes]
  /\ pc \in States
  /\ again \in BOOLEAN
  /\ todo \subseteq (IF pc = "extending" THEN Files ELSE FileDict)
  /\ total \in Nat
  /\ patches \subseteq FileDict /\ left \subseteq FileDict /\ skipped \subseteq FileDict
  /\ rounds \in Nat
  /\ prompts \in Seq(Prompts)
  /\ named \subseteq FileDict

\* A prompt that has patches leaves the model room for its answer: the soft
\* buffer, less the name of the last file where names are added to the count
\* afterwards.
WithinBudget ==
  \A i \in DOMAIN prompts : prompts[i].files # {} =>
    \/ prompts[i].tokens <= SoftLimit
    \/ /\ request.mode # "multi"
       /\ \E f \in prompts[i].files : prompts[i].tokens <= SoftLimit + HeaderTokens(f)

\* No file is shown to the model in two prompts.
ShownOnce ==
  \A i, j \in DOMAIN prompts :
    i # j => prompts[i].files \cap prompts[j].files = {}

\* No file disappears: at the end each one is shown, or kept as remaining.
\* One is skipped only if the prompt alone is past the hard threshold, or a
\* file's name is longer than the distance between the thresholds.
NothingVanishes ==
  pc = "done" /\ request.mode # "multi" =>
    \A f \in FileDict :
      \/ ~HasText(f)
      \/ \E i \in DOMAIN prompts : f \in prompts[i].files
      \/ f \in left
      \/ /\ f \in skipped
         /\ \/ BasePrompt > HardLimit
            \/ \E g \in FileDict : HeaderTokens(g) > Soft - Hard

\* A file is put off only if it does not fit next to all that its prompt shows
\* in the end: a smaller one after it never takes room that was left for it.
NoRoomWasted ==
  \A i \in DOMAIN prompts : \A f \in prompts[i].left :
    prompts[i].tokens + PatchTokens(f) > SoftLimit

\* /improve makes no more calls than allowed and none without a patch, and
\* leaves out a file that fits only if it used all its calls.
CallsUsed ==
  pc = "done" /\ request.mode = "multi" =>
    /\ Len(prompts) <= MaxCalls
    /\ \A i \in DOMAIN prompts : prompts[i].files # {}
    /\ \A f \in FileDict :
         \/ ~FitsAlone(f)
         \/ \E i \in DOMAIN prompts : f \in prompts[i].files
         \/ Len(prompts) = MaxCalls
=============================================================================
