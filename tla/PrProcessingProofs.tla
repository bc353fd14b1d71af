------------------------- MODULE PrProcessingProofs -------------------------
(***************************************************************************)
(* Proofs about the two models of algo/pr_processing.py:                   *)
(*   - DiffPacking, for any files, token counts, thresholds and calls;     *)
(*   - ModelFallback, for any number of models, chunks, retries and        *)
(*     commands, with or without deployments for the fallback models.      *)
(* They share no variable, and no proof uses facts of both.                *)
(***************************************************************************)
EXTENDS DiffPacking, ModelFallback, SequenceTheorems, TLAPS

(***************************************************************************)
(* Diff packing.                                                           *)
(***************************************************************************)

Shown == UNION {prompts[i].files : i \in DOMAIN prompts}

\* Which loop runs for which command.
ModeInv ==
  /\ pc \in {"packing", "listing"} => request.mode # "multi"
  /\ pc = "filling" => request.mode = "multi"
  /\ again => request.mode # "multi"
  /\ pc = "extending" =>
       ~again /\ prompts = <<>> /\ patches = {} /\ left = {} /\ skipped = {}

\* A prompt exceeds the soft limit by no more than one of its headers.
Within(tokens, files) ==
  \/ tokens <= SoftLimit
  \/ \E f \in files : tokens <= SoftLimit + HeaderTokens(f)

\* The prompt that is being packed is within the budget already.
BudgetInv ==
  /\ WithinBudget
  /\ pc = "packing" => IF patches = {} THEN total = BasePrompt ELSE Within(total, patches)
  /\ pc = "filling" => IF patches = {} THEN total = request.prompt ELSE total <= SoftLimit

\* What was put off did not fit, and the prompt has only grown since.
RoomInv ==
  /\ NoRoomWasted
  /\ pc = "packing" => \A f \in left : total + PatchTokens(f) > SoftLimit

MaySkip == BasePrompt > HardLimit \/ \E g \in FileDict : HeaderTokens(g) > Soft - Hard

\* Every file is somewhere.
AccountInv ==
  /\ skipped # {} => MaySkip
  /\ pc = "packing" =>
       \A f \in FileDict : HasText(f) =>
         f \in todo \cup left \cup skipped \cup patches \cup Shown
  /\ pc \in {"listing", "done"} /\ request.mode # "multi" =>
       \A f \in FileDict : HasText(f) => f \in left \cup skipped \cup Shown

Apart(A, B) == A \cap B = {}

\* And only there.
DisjointInv ==
  /\ ShownOnce
  /\ pc \in {"packing", "filling"} =>
       /\ Apart(todo, Shown) /\ Apart(left, Shown) /\ Apart(patches, Shown)
       /\ Apart(todo, left) /\ Apart(todo, patches) /\ Apart(left, patches)

\* A call of /improve is one prompt, and the last call ends the loop.
CallInv ==
  /\ pc = "filling" =>
       /\ Len(prompts) = rounds
       /\ rounds < MaxCalls \/ (rounds = MaxCalls /\ todo = {} /\ patches = {})
       /\ \A i \in DOMAIN prompts : prompts[i].files # {}
       /\ \A f \in FileDict :
            FitsAlone(f) => f \in todo \cup patches \cup Shown \/ rounds = MaxCalls
  /\ CallsUsed

IInv ==
  /\ TypeOK /\ ModeInv /\ BudgetInv /\ RoomInv /\ AccountInv /\ DisjointInv
  /\ CallInv

-----------------------------------------------------------------------------
(***************************************************************************)
(* What holds of the tokens, and what does not change.                     *)
(***************************************************************************)
\* The numbers that the code compares are numbers.
LEMMA Numbers ==
  ASSUME TypeOK
  PROVE  /\ SoftLimit \in Int /\ HardLimit \in Int /\ SoftLimit <= HardLimit
         /\ BasePrompt \in Nat /\ request.prompt \in Nat /\ request.filesPrompt \in Nat
         /\ request.mode \in {"single", "large", "multi"}
         /\ SoftLimit + (Soft - Hard) = HardLimit
         /\ \A f \in Files :
              /\ PatchTokens(f) \in Nat /\ HeaderTokens(f) \in Nat
              /\ FullTokens(f) \in Nat /\ file[f].extended \in Nat
<1>1. request \in Request
  BY DiffPackingAssumption DEF TypeOK
<1>2. /\ request.max \in Nat /\ request.prompt \in Nat /\ request.filesPrompt \in Nat
      /\ request.mode \in {"single", "large", "multi"}
  BY <1>1 DEF Request
<1>3. Soft \in Nat /\ Hard \in Nat /\ Hard <= Soft
  BY DiffPackingAssumption
<1>4. /\ SoftLimit \in Int /\ HardLimit \in Int /\ SoftLimit <= HardLimit
      /\ SoftLimit + (Soft - Hard) = HardLimit
  BY <1>2, <1>3 DEF SoftLimit, HardLimit
<1>5. BasePrompt \in Nat
  BY <1>2 DEF BasePrompt
<1>6. ASSUME NEW f \in Files
      PROVE  /\ PatchTokens(f) \in Nat /\ HeaderTokens(f) \in Nat
             /\ FullTokens(f) \in Nat /\ file[f].extended \in Nat
  <2>1. file[f] \in Shape
    BY DiffPackingAssumption DEF TypeOK
  <2>2. file[f].pruned \in Nat /\ file[f].header \in Nat /\ file[f].extended \in Nat
    BY <2>1 DEF Shape
  <2>. QED
    BY <2>2 DEF PatchTokens, HeaderTokens, FullTokens
<1>. QED
  BY <1>2, <1>4, <1>5, <1>6

Fixed == UNCHANGED <<request, file>>

\* The files, and what they cost, are the same for the whole packing.
LEMMA Constant ==
  ASSUME Fixed
  PROVE  /\ FileDict' = FileDict /\ WithPatch' = WithPatch
         /\ SoftLimit' = SoftLimit /\ HardLimit' = HardLimit
         /\ \A f : /\ HasText(f)' = HasText(f)
                   /\ PatchTokens(f)' = PatchTokens(f)
                   /\ HeaderTokens(f)' = HeaderTokens(f)
                   /\ FullTokens(f)' = FullTokens(f)
                   /\ FitsAlone(f)' = FitsAlone(f)
BY DEF Fixed, FileDict, WithPatch, SoftLimit, HardLimit, HasText, PatchTokens,
       HeaderTokens, FullTokens, FitsAlone

\* What a new prompt adds to those that are packed.
LEMMA Appended ==
  ASSUME TypeOK, NEW p \in Prompts, prompts' = Append(prompts, p)
  PROVE  /\ prompts' \in Seq(Prompts)
         /\ Len(prompts) \in Nat /\ Len(prompts') = Len(prompts) + 1
         /\ DOMAIN prompts' = DOMAIN prompts \cup {Len(prompts) + 1}
         /\ Len(prompts) + 1 \notin DOMAIN prompts
         /\ \A i \in DOMAIN prompts : prompts'[i] = prompts[i]
         /\ prompts'[Len(prompts) + 1] = p
         /\ Shown' = Shown \cup p.files
<1>1. prompts \in Seq(Prompts)
  BY DEF TypeOK
<1>2. /\ prompts' \in Seq(Prompts)
      /\ Len(prompts') = Len(prompts) + 1
      /\ \A i \in 1..Len(prompts) : prompts'[i] = prompts[i]
      /\ prompts'[Len(prompts) + 1] = p
  BY <1>1, AppendProperties
<1>3. /\ Len(prompts) \in Nat
      /\ DOMAIN prompts = 1..Len(prompts)
      /\ DOMAIN prompts' = 1..(Len(prompts) + 1)
  BY <1>1, <1>2, LenProperties
<1>4. /\ DOMAIN prompts' = DOMAIN prompts \cup {Len(prompts) + 1}
      /\ Len(prompts) + 1 \notin DOMAIN prompts
  BY <1>3
<1>5. Shown' = Shown \cup p.files
  <2>1. ASSUME NEW f \in Shown' PROVE f \in Shown \cup p.files
    BY <1>2, <1>3, <1>4 DEF Shown
  <2>2. ASSUME NEW f \in Shown PROVE f \in Shown'
    BY <1>2, <1>3, <1>4 DEF Shown
  <2>3. ASSUME NEW f \in p.files PROVE f \in Shown'
    BY <1>2, <1>3, <1>4 DEF Shown
  <2>. QED
    BY <2>1, <2>2, <2>3
<1>. QED
  BY <1>2, <1>3, <1>4, <1>5

\* A prompt is made of files.
LEMMA PromptOK ==
  ASSUME TypeOK, NEW files \in SUBSET Files, NEW tokens \in Nat,
         NEW remaining \in SUBSET Files
  PROVE  /\ Prompt(files, tokens, remaining) \in Prompts
         /\ Prompt(files, tokens, remaining).files = files
         /\ Prompt(files, tokens, remaining).tokens = tokens
         /\ Prompt(files, tokens, remaining).left = remaining
BY DEF Prompt, Prompts

\* The files that the loops go through are files.
LEMMA FileDictOK == FileDict \subseteq Files /\ FileDict \subseteq WithPatch
BY DEF FileDict, WithPatch

-----------------------------------------------------------------------------
(***************************************************************************)
(* The steps.                                                              *)
(***************************************************************************)
\* At first nothing is packed.
LEMMA InitIInv == Init => IInv
<1> SUFFICES ASSUME Init PROVE IInv
  OBVIOUS
<1>1. request \in Requests /\ file \in [Files -> Shapes] /\ pc = "extending"
  BY DEF Init
<1>2. prompts = <<>> /\ Len(prompts) = 0 /\ DOMAIN prompts = {} /\ prompts \in Seq(Prompts)
  BY EmptySeq DEF Init
<1>3. request.prompt \in Nat
  BY <1>1, DiffPackingAssumption DEF Request
<1>4. TypeOK
  BY <1>1, <1>2, <1>3 DEF Init, TypeOK, States, WithPatch
<1>5. ModeInv
  BY <1>1 DEF Init, ModeInv
<1>6. BudgetInv /\ RoomInv
  BY <1>1, <1>2 DEF BudgetInv, RoomInv, WithinBudget, NoRoomWasted
<1>7. AccountInv /\ DisjointInv /\ CallInv
  BY <1>1, <1>2 DEF Init, AccountInv, DisjointInv, CallInv, ShownOnce, CallsUsed
<1>. QED
  BY <1>4, <1>5, <1>6, <1>7 DEF IInv

\* A packing that begins has packed nothing, and every patch before it.
LEMMA StartStep ==
  ASSUME IInv, NEW state \in {"packing", "filling"}, NEW isAgain \in BOOLEAN,
         Start(state, isAgain),
         state = "packing" => request.mode # "multi",
         state = "filling" => request.mode = "multi" /\ ~isAgain
  PROVE  IInv'
<1>1. Fixed /\ TypeOK
  BY DEF IInv, Start, Fixed
<1>2. /\ prompts' = <<>> /\ Len(prompts') = 0 /\ DOMAIN prompts' = {}
      /\ prompts' \in Seq(Prompts)
  BY EmptySeq DEF Start
<1>3. FileDict' = FileDict
  BY <1>1, Constant
<1>4. /\ pc' = state /\ again' = isAgain /\ todo' = FileDict /\ patches' = {}
      /\ left' = {} /\ skipped' = {} /\ rounds' = 0
      /\ total' = IF isAgain THEN request.filesPrompt ELSE request.prompt
      /\ UNCHANGED <<request, file, named>>
  BY DEF Start
<1>5. total' = BasePrompt' /\ total' \in Nat
  BY <1>1, <1>4, Numbers DEF BasePrompt
<1>6. Shown' = {}
  BY <1>2 DEF Shown
<1>7. TypeOK'
  BY <1>1, <1>2, <1>3, <1>4, <1>5 DEF TypeOK, States
<1>8. ModeInv'
  BY <1>4 DEF ModeInv
<1>9. BudgetInv' /\ RoomInv'
  BY <1>2, <1>4, <1>5 DEF BudgetInv, RoomInv, WithinBudget, NoRoomWasted, BasePrompt
<1>10. AccountInv'
  BY <1>3, <1>4 DEF AccountInv
<1>11. DisjointInv'
  BY <1>2, <1>4, <1>6 DEF DisjointInv, ShownOnce, Apart
<1>12. CallInv'
  BY <1>2, <1>3, <1>4, DiffPackingAssumption DEF CallInv, CallsUsed
<1>. QED
  BY <1>7, <1>8, <1>9, <1>10, <1>11, <1>12 DEF IInv

\* A file is extended: nothing is packed yet.
LEMMA ExtendStep ==
  ASSUME IInv, NEW f \in Files, Extend(f)
  PROVE  IInv'
<1>1. Fixed /\ TypeOK /\ pc = "extending" /\ pc' = "extending"
  BY DEF IInv, Extend, Fixed
<1>2. /\ todo' \subseteq todo /\ total' = total + file[f].extended
      /\ UNCHANGED <<request, file, pc, again, patches, left, skipped, rounds,
                     prompts, named>>
  BY DEF Extend
<1>3. FileDict' = FileDict /\ SoftLimit' = SoftLimit
  BY <1>1, Constant
<1>4. total' \in Nat
  BY <1>1, <1>2, Numbers DEF TypeOK
<1>5. TypeOK'
  BY <1>1, <1>2, <1>3, <1>4 DEF TypeOK
<1>6. ModeInv' /\ prompts = <<>> /\ skipped = {}
  BY <1>1, <1>2 DEF IInv, ModeInv
<1>7. DOMAIN prompts' = {}
  BY <1>2, <1>6, EmptySeq
<1>8. BudgetInv' /\ RoomInv'
  BY <1>1, <1>7 DEF BudgetInv, RoomInv, WithinBudget, NoRoomWasted
<1>9. AccountInv' /\ DisjointInv' /\ CallInv'
  BY <1>1, <1>2, <1>6, <1>7
  DEF AccountInv, DisjointInv, CallInv, ShownOnce, CallsUsed
<1>. QED
  BY <1>5, <1>6, <1>8, <1>9 DEF IInv

\* The whole diff is taken, or the pruned one is packed.
LEMMA EndExtendStep ==
  ASSUME IInv, EndExtend
  PROVE  IInv'
<1>1. TypeOK /\ pc = "extending" /\ request.mode \in {"single", "large", "multi"}
  BY Numbers DEF IInv, EndExtend
<1>2. CASE Start("packing", TRUE) /\ request.mode = "large"
  BY <1>2, StartStep
<1>3. CASE Start(IF request.mode = "multi" THEN "filling" ELSE "packing", FALSE)
  BY <1>3, StartStep
<1>4. CASE /\ total + Soft < request.max
           /\ pc' = "done"
           /\ prompts' = IF request.mode = "multi" /\ WithPatch = {} THEN <<>>
                         ELSE <<Prompt(WithPatch, total, {})>>
           /\ UNCHANGED <<request, file, again, todo, total, patches, left,
                          skipped, rounds, named>>
  <2> DEFINE p == Prompt(WithPatch, total, {})
  <2>1. Fixed /\ todo = {}
    BY <1>4 DEF Fixed, EndExtend
  <2>2. /\ total \in Nat
        /\ p \in Prompts /\ p.files = WithPatch /\ p.tokens = total /\ p.left = {}
    BY <1>1, PromptOK DEF TypeOK, WithPatch
  <2> HIDE DEF p
  <2>3. /\ FileDict' = FileDict /\ SoftLimit' = SoftLimit
        /\ \A f : HasText(f)' = HasText(f)
    BY <2>1, Constant
  <2>4. total <= SoftLimit
    <3>1. request.max \in Nat /\ Soft \in Nat
      BY <1>1, DiffPackingAssumption DEF TypeOK, Request
    <3>. QED
      BY <1>4, <2>2, <3>1 DEF SoftLimit
  <2>5. ModeInv' /\ again = FALSE /\ skipped' = {}
    BY <1>1, <1>4 DEF IInv, ModeInv
  <2>6. CASE request.mode = "multi" /\ WithPatch = {}
    <3>1. /\ prompts' = <<>> /\ DOMAIN prompts' = {} /\ Len(prompts') = 0
          /\ prompts' \in Seq(Prompts)
      BY <1>4, <2>6, EmptySeq
    <3>2. FileDict' = {}
      BY <2>3, <2>6, FileDictOK
    <3>3. TypeOK'
      BY <1>1, <1>4, <2>1, <2>3, <3>1 DEF TypeOK, States
    <3>4. BudgetInv' /\ RoomInv' /\ AccountInv' /\ DisjointInv' /\ CallInv'
      BY <1>4, <2>5, <3>1, <3>2, DiffPackingAssumption
      DEF BudgetInv, RoomInv, AccountInv, DisjointInv, CallInv, WithinBudget,
          NoRoomWasted, ShownOnce, CallsUsed
    <3>. QED
      BY <2>5, <3>3, <3>4 DEF IInv
  <2>7. CASE ~(request.mode = "multi" /\ WithPatch = {})
    <3>1. prompts' = <<p>>
      BY <1>4, <2>7 DEF p
    <3>2. /\ prompts' \in Seq(Prompts) /\ Len(prompts') = 1
          /\ DOMAIN prompts' = {1} /\ prompts'[1] = p
      BY <2>2, <3>1
    <3>3. Shown' = WithPatch
      BY <2>2, <3>2 DEF Shown
    <3>4. TypeOK'
      BY <1>1, <1>4, <2>1, <2>3, <3>2 DEF TypeOK, States
    <3>5. BudgetInv' /\ RoomInv'
      BY <1>4, <2>2, <2>3, <2>4, <3>2 DEF BudgetInv, RoomInv, WithinBudget, NoRoomWasted
    <3>6. AccountInv' /\ DisjointInv'
      BY <1>4, <2>3, <2>5, <3>2, <3>3, FileDictOK
      DEF AccountInv, DisjointInv, ShownOnce
    <3>7. CallInv'
      BY <1>4, <2>2, <2>3, <2>7, <3>2, FileDictOK, DiffPackingAssumption
      DEF CallInv, CallsUsed
    <3>. QED
      BY <2>5, <3>4, <3>5, <3>6, <3>7 DEF IInv
  <2>. QED
    BY <2>6, <2>7
<1>. QED
  BY <1>1, <1>2, <1>3, <1>4 DEF EndExtend

\* A file is packed, put off or skipped.
LEMMA PackStep ==
  ASSUME IInv, NEW f \in Files, Pack(f)
  PROVE  IInv'
<1>1. /\ Fixed /\ TypeOK /\ pc = "packing" /\ request.mode # "multi"
      /\ f \in todo /\ todo \subseteq FileDict /\ f \in FileDict
      /\ total \in Nat
  BY DEF IInv, Pack, Fixed, ModeInv, TypeOK, IsNext
<1>2. /\ todo' = todo \ {f}
      /\ UNCHANGED <<request, file, pc, again, rounds, prompts, named>>
  BY DEF Pack
<1>3. /\ FileDict' = FileDict /\ SoftLimit' = SoftLimit /\ HardLimit' = HardLimit
      /\ \A g : /\ HasText(g)' = HasText(g) /\ PatchTokens(g)' = PatchTokens(g)
                /\ HeaderTokens(g)' = HeaderTokens(g)
      /\ BasePrompt' = BasePrompt /\ Shown' = Shown
  BY <1>1, <1>2, Constant DEF BasePrompt, Shown
<1>4. /\ SoftLimit \in Int /\ HardLimit \in Int /\ SoftLimit <= HardLimit
      /\ SoftLimit + (Soft - Hard) = HardLimit
      /\ Soft \in Nat /\ Hard \in Nat
      /\ BasePrompt \in Nat
      /\ \A g \in Files : PatchTokens(g) \in Nat /\ HeaderTokens(g) \in Nat
  BY <1>1, Numbers, DiffPackingAssumption
<1>5. WithinBudget' /\ NoRoomWasted' /\ ShownOnce' /\ CallsUsed' /\ ModeInv'
  BY <1>1, <1>2, <1>3
  DEF IInv, BudgetInv, RoomInv, DisjointInv, CallInv, WithinBudget, NoRoomWasted,
      ShownOnce, CallsUsed, ModeInv
<1>6. /\ patches \subseteq FileDict /\ left \subseteq FileDict /\ skipped \subseteq FileDict
      /\ FileDict \subseteq Files
  BY <1>1, FileDictOK DEF TypeOK
<1>7. /\ IF patches = {} THEN total = BasePrompt ELSE Within(total, patches)
      /\ \A g \in left : total + PatchTokens(g) > SoftLimit
      /\ skipped # {} => MaySkip
      /\ \A g \in FileDict : HasText(g) =>
           g \in todo \cup left \cup skipped \cup patches \cup Shown
      /\ Apart(todo, Shown) /\ Apart(left, Shown) /\ Apart(patches, Shown)
      /\ Apart(todo, left) /\ Apart(todo, patches) /\ Apart(left, patches)
  BY <1>1 DEF IInv, BudgetInv, RoomInv, AccountInv, DisjointInv
<1>8. MaySkip' = MaySkip
  BY <1>3 DEF MaySkip
<1>9. CallInv'
  BY <1>1, <1>2, <1>5 DEF CallInv
<1>10. CASE total > HardLimit /\ skipped' = skipped \cup {f} /\ UNCHANGED <<total, patches, left>>
  <2>1. MaySkip
    <3>1. CASE patches = {}
      BY <1>7, <1>10, <3>1 DEF MaySkip
    <3>2. CASE patches # {}
      <4>1. ~(total <= SoftLimit)
        BY <1>1, <1>4, <1>10
      <4>2. PICK g \in patches : total <= SoftLimit + HeaderTokens(g)
        BY <1>7, <3>2, <4>1 DEF Within
      <4>3. g \in FileDict /\ HeaderTokens(g) \in Nat
        BY <1>4, <1>6, <4>2
      <4>4. HeaderTokens(g) > Soft - Hard
        BY <1>1, <1>4, <1>10, <4>2, <4>3
      <4>. QED
        BY <4>3, <4>4 DEF MaySkip
    <3>. QED
      BY <3>1, <3>2
  <2>2. TypeOK'
    BY <1>1, <1>2, <1>3, <1>10 DEF TypeOK
  <2>3. BudgetInv' /\ RoomInv'
    BY <1>2, <1>3, <1>5, <1>7, <1>10, <1>1 DEF BudgetInv, RoomInv, Within
  <2>4. AccountInv' /\ DisjointInv'
    BY <1>1, <1>2, <1>3, <1>5, <1>7, <1>8, <1>10, <2>1 DEF AccountInv, DisjointInv, Apart
  <2>. QED
    BY <1>5, <1>9, <2>2, <2>3, <2>4 DEF IInv
<1>11. CASE ~Fits(f) /\ left' = left \cup {f} /\ UNCHANGED <<total, patches, skipped>>
  <2>1. total + PatchTokens(f) > SoftLimit
    BY <1>1, <1>4, <1>11 DEF Fits
  <2>2. TypeOK'
    BY <1>1, <1>2, <1>3, <1>11 DEF TypeOK
  <2>3. BudgetInv' /\ RoomInv'
    BY <1>1, <1>2, <1>3, <1>5, <1>7, <1>11, <2>1 DEF BudgetInv, RoomInv, Within
  <2>4. AccountInv' /\ DisjointInv'
    BY <1>1, <1>2, <1>3, <1>5, <1>7, <1>8, <1>11 DEF AccountInv, DisjointInv, Apart
  <2>. QED
    BY <1>5, <1>9, <2>2, <2>3, <2>4 DEF IInv
<1>12. CASE /\ Fits(f) /\ patches' = patches \cup {f}
            /\ total' = total + PatchTokens(f) + HeaderTokens(f)
            /\ UNCHANGED <<left, skipped>>
  <2>1. /\ PatchTokens(f) \in Nat /\ HeaderTokens(f) \in Nat
        /\ total' \in Nat /\ total' >= total
        /\ total' <= SoftLimit + HeaderTokens(f)
    BY <1>1, <1>4, <1>12 DEF Fits
  <2>2. TypeOK'
    BY <1>1, <1>2, <1>3, <1>12, <2>1 DEF TypeOK
  <2>3. BudgetInv'
    BY <1>1, <1>2, <1>3, <1>5, <1>12, <2>1 DEF BudgetInv, Within
  <2>4. RoomInv'
    <3>1. ASSUME NEW g \in left' PROVE total' + PatchTokens(g)' > SoftLimit'
      <4>1. g \in left /\ PatchTokens(g) \in Nat /\ PatchTokens(g)' = PatchTokens(g)
        BY <1>3, <1>4, <1>6, <1>12
      <4>2. total + PatchTokens(g) > SoftLimit
        BY <1>7, <4>1
      <4>. QED
        BY <1>1, <1>3, <1>4, <2>1, <4>1, <4>2
    <3>. QED
      BY <1>5, <3>1 DEF RoomInv
  <2>5. AccountInv' /\ DisjointInv'
    BY <1>1, <1>2, <1>3, <1>5, <1>7, <1>8, <1>12 DEF AccountInv, DisjointInv, Apart
  <2>. QED
    BY <1>5, <1>9, <2>2, <2>3, <2>4, <2>5 DEF IInv
<1>13. CASE ~HasText(f) /\ UNCHANGED <<total, patches, left, skipped>>
  <2>1. TypeOK'
    BY <1>1, <1>2, <1>3, <1>13 DEF TypeOK
  <2>2. BudgetInv' /\ RoomInv'
    BY <1>1, <1>2, <1>3, <1>5, <1>7, <1>13 DEF BudgetInv, RoomInv, Within
  <2>3. AccountInv' /\ DisjointInv'
    BY <1>1, <1>2, <1>3, <1>5, <1>7, <1>8, <1>13 DEF AccountInv, DisjointInv, Apart
  <2>. QED
    BY <1>5, <1>9, <2>1, <2>2, <2>3 DEF IInv
<1>. QED
  BY <1>10, <1>11, <1>12, <1>13 DEF Pack

\* A prompt that keeps the budget, wastes no room and shows other files than
\* those before it is added.
LEMMA PromptAdded ==
  ASSUME IInv, Fixed, NEW p \in Prompts, prompts' = Append(prompts, p),
         p.files # {} => \/ p.tokens <= SoftLimit
                         \/ request.mode # "multi" /\ Within(p.tokens, p.files),
         \A f \in p.left : p.tokens + PatchTokens(f) > SoftLimit,
         Apart(p.files, Shown)
  PROVE  WithinBudget' /\ NoRoomWasted' /\ ShownOnce'
<1>1. TypeOK /\ WithinBudget /\ NoRoomWasted /\ ShownOnce
  BY DEF IInv, BudgetInv, RoomInv, DisjointInv
<1>2. /\ DOMAIN prompts' = DOMAIN prompts \cup {Len(prompts) + 1}
      /\ Len(prompts) + 1 \notin DOMAIN prompts
      /\ \A i \in DOMAIN prompts : prompts'[i] = prompts[i]
      /\ prompts'[Len(prompts) + 1] = p
  BY <1>1, Appended
<1>3. /\ SoftLimit' = SoftLimit /\ request' = request
      /\ \A f : PatchTokens(f)' = PatchTokens(f) /\ HeaderTokens(f)' = HeaderTokens(f)
  BY Constant DEF Fixed
<1>4. WithinBudget'
  BY <1>1, <1>2, <1>3 DEF WithinBudget, Within
<1>5. NoRoomWasted'
  BY <1>1, <1>2, <1>3 DEF NoRoomWasted
<1>6. ShownOnce'
  <2>1. ASSUME NEW i \in DOMAIN prompts PROVE p.files \cap prompts[i].files = {}
    BY DEF Apart, Shown
  <2>. QED
    BY <1>1, <1>2, <2>1 DEF ShownOnce
<1>. QED
  BY <1>4, <1>5, <1>6

\* A round ends: its prompt is kept, unless it is empty and not the first.
LEMMA RoundPrompt ==
  ASSUME IInv, Fixed, pc = "packing", prompts' = WithPatches
  PROVE  /\ prompts' \in Seq(Prompts)
         /\ Shown' = Shown \cup patches
         /\ WithinBudget' /\ NoRoomWasted' /\ ShownOnce'
<1> DEFINE p == Prompt(patches, total, left)
<1>1. TypeOK /\ WithinBudget /\ NoRoomWasted /\ ShownOnce /\ request.mode # "multi"
  BY DEF IInv, BudgetInv, RoomInv, DisjointInv, ModeInv
<1>2. /\ patches \subseteq Files /\ left \subseteq Files /\ total \in Nat
      /\ prompts \in Seq(Prompts)
  BY <1>1, FileDictOK DEF TypeOK
<1>3. p \in Prompts /\ p.files = patches /\ p.tokens = total /\ p.left = left
  BY <1>1, <1>2, PromptOK
<1>4. prompts' = IF prompts = <<>> \/ patches # {} THEN Append(prompts, p) ELSE prompts
  BY DEF WithPatches
<1> HIDE DEF p
<1>5. CASE prompts' = Append(prompts, p)
  <2>1. /\ patches # {} => Within(total, patches)
        /\ \A f \in left : total + PatchTokens(f) > SoftLimit
        /\ Apart(patches, Shown)
    BY DEF IInv, BudgetInv, RoomInv, DisjointInv
  <2>. QED
    BY <1>1, <1>3, <1>5, <2>1, PromptAdded, Appended
<1>6. CASE prompts' = prompts /\ patches = {}
  <2>1. Shown' = Shown
    BY <1>6 DEF Shown
  <2>2. /\ SoftLimit' = SoftLimit /\ request' = request
        /\ \A f : PatchTokens(f)' = PatchTokens(f) /\ HeaderTokens(f)' = HeaderTokens(f)
    BY Constant DEF Fixed
  <2>. QED
    BY <1>1, <1>2, <1>6, <2>1, <2>2 DEF WithinBudget, NoRoomWasted, ShownOnce
<1>. QED
  BY <1>4, <1>5, <1>6

\* What remains is packed into the next prompt, or the packing ends.
LEMMA EndRoundStep ==
  ASSUME IInv, EndRound
  PROVE  IInv'
<1>1. TypeOK /\ pc = "packing" /\ todo = {} /\ request.mode # "multi"
  BY DEF IInv, ModeInv, EndRound
<1>2. CASE Start("packing", TRUE)
  BY <1>1, <1>2, StartStep
<1>3. CASE prompts' = WithPatches /\ Fixed /\ UNCHANGED <<again, skipped, named>>
           /\ rounds' = rounds + 1
  <2>1. /\ prompts' \in Seq(Prompts) /\ Shown' = Shown \cup patches
        /\ WithinBudget' /\ NoRoomWasted' /\ ShownOnce'
    BY <1>1, <1>3, RoundPrompt
  <2>2. /\ FileDict' = FileDict /\ HardLimit' = HardLimit /\ BasePrompt' = BasePrompt
        /\ request' = request /\ file' = file
        /\ \A g : HasText(g)' = HasText(g) /\ HeaderTokens(g)' = HeaderTokens(g)
    BY <1>3, Constant DEF BasePrompt, Fixed
  <2>3. MaySkip' = MaySkip
    BY <2>2 DEF MaySkip
  <2>4. rounds' \in Nat /\ BasePrompt \in Nat
    BY <1>1, <1>3, Numbers DEF TypeOK
  <2>5. /\ skipped' # {} => MaySkip'
        /\ \A g \in FileDict : HasText(g) =>
             g \in left \cup skipped \cup patches \cup Shown
        /\ Apart(left, Shown') /\ Apart(left, patches)
    BY <1>1, <1>3, <2>1, <2>3 DEF IInv, AccountInv, DisjointInv, Apart
  <2>6. CASE /\ todo' = Remaining /\ total' = BasePrompt /\ patches' = {} /\ left' = {}
             /\ UNCHANGED pc
    <3>1. TypeOK'
      BY <1>1, <1>3, <2>1, <2>2, <2>4, <2>6 DEF TypeOK, Remaining
    <3>2. ModeInv' /\ CallInv'
      BY <1>1, <1>3, <2>2, <2>6 DEF IInv, ModeInv, CallInv, CallsUsed
    <3>3. BudgetInv' /\ RoomInv'
      BY <1>1, <2>1, <2>2, <2>6 DEF BudgetInv, RoomInv
    <3>4. AccountInv'
      BY <1>1, <1>3, <2>1, <2>2, <2>5, <2>6 DEF AccountInv, Remaining
    <3>5. DisjointInv'
      BY <1>1, <2>1, <2>5, <2>6 DEF DisjointInv, Apart, Remaining
    <3>. QED
      BY <3>1, <3>2, <3>3, <3>4, <3>5 DEF IInv
  <2>7. CASE /\ pc' = IF again THEN "done" ELSE "listing"
             /\ UNCHANGED <<todo, total, patches, left>>
    <3>1. TypeOK'
      BY <1>1, <1>3, <2>1, <2>2, <2>4, <2>7 DEF TypeOK, States
    <3>2. ModeInv' /\ CallInv'
      BY <1>1, <1>3, <2>2, <2>7 DEF IInv, ModeInv, CallInv, CallsUsed
    <3>3. BudgetInv' /\ RoomInv' /\ DisjointInv'
      BY <1>1, <2>1, <2>2, <2>7 DEF BudgetInv, RoomInv, DisjointInv
    <3>4. AccountInv'
      BY <1>1, <1>3, <2>1, <2>2, <2>5, <2>7 DEF AccountInv
    <3>. QED
      BY <3>1, <3>2, <3>3, <3>4 DEF IInv
  <2>. QED
    BY <1>1, <1>2, <1>3, <2>6, <2>7 DEF EndRound
<1>. QED
  BY <1>2, <1>3 DEF EndRound, Fixed

\* The prompts stay as they are while the files left out are named.
LEMMA ListStep ==
  ASSUME IInv, List
  PROVE  IInv'
<1>1. TypeOK /\ pc = "listing" /\ request.mode # "multi"
  BY DEF IInv, ModeInv, List
<1>2. CASE Start("packing", TRUE)
  BY <1>1, <1>2, StartStep
<1>3. CASE /\ pc' = "done" /\ named' \subseteq FileDict
           /\ UNCHANGED <<request, file, again, todo, total, patches, left,
                          skipped, rounds, prompts>>
  <2>1. Fixed
    BY <1>3 DEF Fixed
  <2>2. /\ FileDict' = FileDict /\ HardLimit' = HardLimit /\ BasePrompt' = BasePrompt
        /\ SoftLimit' = SoftLimit /\ Shown' = Shown
        /\ \A g : /\ HasText(g)' = HasText(g) /\ HeaderTokens(g)' = HeaderTokens(g)
                  /\ PatchTokens(g)' = PatchTokens(g)
    BY <1>3, <2>1, Constant DEF BasePrompt, Shown
  <2>3. TypeOK'
    BY <1>1, <1>3, <2>2 DEF TypeOK, States
  <2>4. ModeInv' /\ CallInv'
    BY <1>1, <1>3 DEF IInv, ModeInv, CallInv, CallsUsed
  <2>5. BudgetInv' /\ RoomInv' /\ DisjointInv'
    BY <1>3, <2>2
    DEF IInv, BudgetInv, RoomInv, DisjointInv, WithinBudget, NoRoomWasted, ShownOnce
  <2>6. AccountInv'
    BY <1>1, <1>3, <2>2 DEF IInv, AccountInv, MaySkip
  <2>. QED
    BY <2>3, <2>4, <2>5, <2>6 DEF IInv
<1>4. named \subseteq FileDict
  BY <1>1 DEF TypeOK
<1>5. CASE \E names : names \subseteq FileDict /\ named' = names /\ pc' = "done"
           /\ UNCHANGED <<request, file, again, todo, total, patches, left,
                          skipped, rounds, prompts>>
  BY <1>3, <1>5
<1>. QED
  BY <1>2, <1>3, <1>4 DEF List

-----------------------------------------------------------------------------
\* /improve adds a patch that fits into a prompt of its own.
LEMMA AddStep ==
  ASSUME IInv, NEW f \in Files, pc = "filling", f \in todo, NEW tokens \in Nat,
         request.prompt + tokens <= SoftLimit,
         Add(f, tokens), UNCHANGED <<request, file, pc, again, left, skipped, named>>
  PROVE  IInv'
<1>1. /\ Fixed /\ TypeOK /\ request.mode = "multi" /\ ~again
      /\ todo \subseteq FileDict /\ total \in Nat /\ rounds \in Nat
      /\ patches \subseteq FileDict /\ left \subseteq FileDict
      /\ FileDict \subseteq Files
  BY FileDictOK DEF IInv, ModeInv, Fixed, TypeOK
<1>2. /\ FileDict' = FileDict /\ HardLimit' = HardLimit /\ BasePrompt' = BasePrompt
      /\ SoftLimit' = SoftLimit /\ request' = request
      /\ \A g : /\ HasText(g)' = HasText(g) /\ HeaderTokens(g)' = HeaderTokens(g)
                /\ PatchTokens(g)' = PatchTokens(g) /\ FitsAlone(g)' = FitsAlone(g)
  BY <1>1, Constant DEF BasePrompt, Fixed
<1>3. SoftLimit \in Int /\ request.prompt \in Nat /\ MaxCalls \in Nat
  BY <1>1, Numbers, DiffPackingAssumption
<1>4. /\ IF patches = {} THEN total = request.prompt ELSE total <= SoftLimit
      /\ WithinBudget /\ NoRoomWasted /\ ShownOnce
      /\ skipped # {} => MaySkip
      /\ Apart(todo, Shown) /\ Apart(left, Shown) /\ Apart(patches, Shown)
      /\ Apart(todo, left) /\ Apart(todo, patches) /\ Apart(left, patches)
  BY <1>1 DEF IInv, BudgetInv, RoomInv, AccountInv, DisjointInv
<1>5. /\ Len(prompts) = rounds
      /\ rounds < MaxCalls
      /\ \A i \in DOMAIN prompts : prompts[i].files # {}
      /\ \A g \in FileDict :
           FitsAlone(g) => g \in todo \cup patches \cup Shown \/ rounds = MaxCalls
  BY DEF IInv, CallInv
<1>6. /\ ModeInv' /\ CallsUsed'
      /\ skipped' # {} => MaySkip'
  BY <1>1, <1>2, <1>4 DEF ModeInv, CallsUsed, MaySkip
<1>7. AccountInv'
  BY <1>1, <1>2, <1>6 DEF AccountInv
<1>8. CASE /\ total + tokens <= SoftLimit
           /\ todo' = todo \ {f} /\ patches' = patches \cup {f} /\ total' = total + tokens
           /\ UNCHANGED <<rounds, prompts>>
  <2>1. Shown' = Shown /\ total' \in Nat
    BY <1>1, <1>8 DEF Shown
  <2>2. TypeOK'
    BY <1>1, <1>2, <1>8, <2>1 DEF TypeOK
  <2>3. WithinBudget' /\ NoRoomWasted' /\ ShownOnce'
    BY <1>2, <1>4, <1>8 DEF WithinBudget, NoRoomWasted, ShownOnce
  <2>4. BudgetInv' /\ RoomInv'
    BY <1>1, <1>2, <1>8, <2>3 DEF BudgetInv, RoomInv
  <2>5. DisjointInv'
    BY <1>1, <1>4, <1>8, <2>1, <2>3 DEF DisjointInv, Apart
  <2>6. CallInv'
    BY <1>1, <1>2, <1>5, <1>6, <1>8, <2>1 DEF CallInv
  <2>. QED
    BY <1>6, <1>7, <2>2, <2>4, <2>5, <2>6 DEF IInv
<1>9. CASE /\ total + tokens > SoftLimit
           /\ prompts' = Append(prompts, Prompt(patches, total, {}))
           /\ rounds' = rounds + 1
           /\ IF LastCall
              THEN todo' = {} /\ patches' = {} /\ total' = request.prompt
              ELSE /\ todo' = todo \ {f} /\ patches' = {f}
                   /\ total' = request.prompt + tokens
  <2> DEFINE p == Prompt(patches, total, {})
  <2>1. p \in Prompts /\ p.files = patches /\ p.tokens = total /\ p.left = {}
    BY <1>1, PromptOK
  <2>2. prompts' = Append(prompts, p)
    BY <1>9
  <2> HIDE DEF p
  <2>3. patches # {} /\ total <= SoftLimit
    BY <1>1, <1>3, <1>4, <1>9
  <2>4. WithinBudget' /\ NoRoomWasted' /\ ShownOnce'
    BY <1>1, <1>4, <2>1, <2>2, <2>3, PromptAdded
  <2>5. /\ prompts' \in Seq(Prompts) /\ Len(prompts') = Len(prompts) + 1
        /\ Shown' = Shown \cup patches
        /\ DOMAIN prompts' = DOMAIN prompts \cup {Len(prompts) + 1}
        /\ \A i \in DOMAIN prompts : prompts'[i] = prompts[i]
        /\ prompts'[Len(prompts) + 1] = p
    BY <1>1, <2>1, <2>2, Appended
  <2>6. \A i \in DOMAIN prompts' : prompts'[i].files # {}
    BY <1>5, <2>1, <2>3, <2>5
  <2>7. Len(prompts') = rounds' /\ rounds' \in Nat /\ rounds' <= MaxCalls
    BY <1>1, <1>3, <1>5, <1>9, <2>5
  <2>8. CASE LastCall /\ todo' = {} /\ patches' = {} /\ total' = request.prompt
    <3>1. rounds' = MaxCalls
      BY <1>1, <1>3, <1>5, <1>9, <2>8 DEF LastCall
    <3>2. TypeOK'
      BY <1>1, <1>2, <1>3, <2>5, <2>7, <2>8 DEF TypeOK
    <3>3. BudgetInv' /\ RoomInv'
      BY <1>1, <1>2, <2>4, <2>8 DEF BudgetInv, RoomInv
    <3>4. DisjointInv'
      BY <1>1, <1>4, <2>4, <2>5, <2>8 DEF DisjointInv, Apart
    <3>5. CallInv'
      BY <1>1, <1>6, <2>6, <2>7, <2>8, <3>1 DEF CallInv
    <3>. QED
      BY <1>6, <1>7, <3>2, <3>3, <3>4, <3>5 DEF IInv
  <2>9. CASE /\ ~LastCall /\ todo' = todo \ {f} /\ patches' = {f}
             /\ total' = request.prompt + tokens
    <3>1. rounds' < MaxCalls
      BY <1>1, <1>3, <1>5, <1>9, <2>9 DEF LastCall
    <3>2. TypeOK'
      BY <1>1, <1>2, <1>3, <2>5, <2>7, <2>9 DEF TypeOK
    <3>3. BudgetInv' /\ RoomInv'
      BY <1>1, <1>2, <2>4, <2>9 DEF BudgetInv, RoomInv
    <3>4. DisjointInv'
      BY <1>1, <1>4, <2>4, <2>5, <2>9 DEF DisjointInv, Apart
    <3>5. \A g \in FileDict' :
            FitsAlone(g)' => g \in todo' \cup patches' \cup Shown'
      BY <1>2, <1>3, <1>5, <2>5, <2>9
    <3>6. CallInv'
      BY <1>1, <1>6, <2>6, <2>7, <3>1, <3>5 DEF CallInv
    <3>. QED
      BY <1>6, <1>7, <3>2, <3>3, <3>4, <3>6 DEF IInv
  <2>. QED
    BY <1>9, <2>8, <2>9
<1>. QED
  BY <1>8, <1>9 DEF Add

\* A patch that is too large is left out.
LEMMA LeaveOutStep ==
  ASSUME IInv, NEW f \in Files, pc = "filling", f \in todo, ~FitsAlone(f),
         LeaveOut(f), UNCHANGED <<request, file, pc, again, skipped, named>>
  PROVE  IInv'
<1>1. /\ Fixed /\ TypeOK /\ request.mode = "multi" /\ ~again
      /\ todo \subseteq FileDict
      /\ todo' = todo \ {f} /\ left' = left \cup {f}
      /\ UNCHANGED <<total, patches, rounds, prompts>>
  BY DEF IInv, ModeInv, Fixed, TypeOK, LeaveOut
<1>2. /\ FileDict' = FileDict /\ HardLimit' = HardLimit /\ BasePrompt' = BasePrompt
      /\ SoftLimit' = SoftLimit /\ Shown' = Shown
      /\ \A g : /\ HasText(g)' = HasText(g) /\ HeaderTokens(g)' = HeaderTokens(g)
                /\ PatchTokens(g)' = PatchTokens(g) /\ FitsAlone(g)' = FitsAlone(g)
  BY <1>1, Constant DEF BasePrompt, Shown
<1>3. TypeOK'
  BY <1>1, <1>2 DEF TypeOK
<1>4. ModeInv' /\ AccountInv'
  BY <1>1, <1>2 DEF IInv, ModeInv, AccountInv, MaySkip
<1>5. BudgetInv' /\ RoomInv'
  BY <1>1, <1>2 DEF IInv, BudgetInv, RoomInv, WithinBudget, NoRoomWasted
<1>6. DisjointInv'
  BY <1>1, <1>2 DEF IInv, DisjointInv, ShownOnce, Apart
<1>7. CallInv'
  BY <1>1, <1>2 DEF IInv, CallInv, CallsUsed
<1>. QED
  BY <1>3, <1>4, <1>5, <1>6, <1>7 DEF IInv

\* A file comes to /improve's loop: its patch fits, or what is left after
\* clipping does.
LEMMA FillStep ==
  ASSUME IInv, NEW f \in Files, Fill(f)
  PROVE  IInv'
<1>1. /\ pc = "filling" /\ f \in todo /\ TypeOK
      /\ UNCHANGED <<request, file, pc, again, skipped, named>>
  BY DEF IInv, Fill, IsNext
<1>2. FullTokens(f) \in Nat /\ SoftLimit \in Int /\ request.prompt \in Nat
  BY <1>1, Numbers
<1>3. CASE FitsAlone(f) /\ Add(f, FullTokens(f)) /\ UNCHANGED left
  BY <1>1, <1>2, <1>3, AddStep DEF FitsAlone
<1>4. CASE ~FitsAlone(f) /\ LeaveOut(f)
  BY <1>1, <1>4, LeaveOutStep
<1>5. CASE \E tokens \in Nat : /\ ~(request.prompt + tokens > SoftLimit)
                               /\ Add(f, tokens) /\ UNCHANGED left
  BY <1>1, <1>2, <1>5, AddStep
<1>6. ClipTokens \subseteq Nat /\ {0} \subseteq Nat
  BY DiffPackingAssumption
<1>. QED
  BY <1>3, <1>4, <1>5, <1>6 DEF Fill

\* The last prompt is kept if it has a patch.
LEMMA EndFillStep ==
  ASSUME IInv, EndFill
  PROVE  IInv'
<1>1. /\ Fixed /\ TypeOK /\ pc = "filling" /\ todo = {} /\ pc' = "done"
      /\ request.mode = "multi" /\ ~again
      /\ UNCHANGED <<request, file, again, todo, total, patches, left, skipped,
                     rounds, named>>
  BY DEF IInv, ModeInv, Fixed, EndFill
<1>2. /\ FileDict' = FileDict /\ SoftLimit' = SoftLimit /\ FileDict \subseteq Files
      /\ HardLimit' = HardLimit /\ BasePrompt' = BasePrompt
      /\ \A g : /\ HeaderTokens(g)' = HeaderTokens(g)
                /\ PatchTokens(g)' = PatchTokens(g) /\ FitsAlone(g)' = FitsAlone(g)
  BY <1>1, FileDictOK, Constant DEF BasePrompt
<1>3. /\ IF patches = {} THEN total = request.prompt ELSE total <= SoftLimit
      /\ WithinBudget /\ NoRoomWasted /\ ShownOnce /\ Apart(patches, Shown)
      /\ skipped # {} => MaySkip
      /\ Len(prompts) = rounds /\ rounds \in Nat
      /\ rounds < MaxCalls \/ (rounds = MaxCalls /\ todo = {} /\ patches = {})
      /\ \A i \in DOMAIN prompts : prompts[i].files # {}
      /\ \A g \in FileDict :
           FitsAlone(g) => g \in todo \cup patches \cup Shown \/ rounds = MaxCalls
  BY <1>1 DEF IInv, BudgetInv, RoomInv, AccountInv, DisjointInv, CallInv, TypeOK
<1>4. ModeInv' /\ AccountInv'
  BY <1>1, <1>2, <1>3 DEF ModeInv, AccountInv, MaySkip
<1>5. SUFFICES /\ prompts' \in Seq(Prompts)
               /\ WithinBudget' /\ NoRoomWasted' /\ ShownOnce' /\ CallsUsed'
  BY <1>1, <1>2, <1>4
  DEF IInv, TypeOK, States, BudgetInv, RoomInv, DisjointInv, CallInv
<1>6. CASE patches = {} /\ prompts' = prompts
  <2>1. \A g \in FileDict : FitsAlone(g) => g \in Shown \/ Len(prompts) = MaxCalls
    BY <1>1, <1>3, <1>6
  <2>2. CallsUsed'
    BY <1>1, <1>2, <1>3, <1>6, <2>1, DiffPackingAssumption DEF CallsUsed, Shown
  <2>. QED
    BY <1>1, <1>2, <1>3, <1>6, <2>2
    DEF TypeOK, WithinBudget, NoRoomWasted, ShownOnce
<1>7. CASE patches # {} /\ prompts' = Append(prompts, Prompt(patches, total, {}))
  <2> DEFINE p == Prompt(patches, total, {})
  <2>1. p \in Prompts /\ p.files = patches /\ p.tokens = total /\ p.left = {}
    BY <1>1, <1>2, PromptOK DEF TypeOK
  <2>2. prompts' = Append(prompts, p)
    BY <1>7
  <2> HIDE DEF p
  <2>3. WithinBudget' /\ NoRoomWasted' /\ ShownOnce'
    BY <1>1, <1>3, <1>7, <2>1, <2>2, PromptAdded
  <2>4. /\ prompts' \in Seq(Prompts) /\ Len(prompts') = rounds + 1
        /\ Shown' = Shown \cup patches
        /\ \A i \in DOMAIN prompts' : prompts'[i].files # {}
    BY <1>1, <1>3, <1>7, <2>1, <2>2, Appended
  <2>5. \A g \in FileDict : FitsAlone(g) => g \in Shown'
    <3>1. rounds # MaxCalls
      BY <1>3, <1>7, DiffPackingAssumption
    <3>. QED
      BY <1>1, <1>3, <2>4, <3>1
  <2>6. Len(prompts') <= MaxCalls
    BY <1>3, <1>7, <2>4, DiffPackingAssumption
  <2>7. CallsUsed'
    BY <1>1, <1>2, <2>4, <2>5, <2>6 DEF CallsUsed, Shown
  <2>. QED
    BY <2>3, <2>4, <2>7
<1>. QED
  BY <1>6, <1>7 DEF EndFill

\* A step that changes nothing keeps the invariant.
LEMMA StutterStep ==
  ASSUME IInv, UNCHANGED vars
  PROVE  IInv'
<1>1. Fixed /\ TypeOK
  BY DEF IInv, vars, Fixed
<1>2. /\ FileDict' = FileDict /\ HardLimit' = HardLimit /\ BasePrompt' = BasePrompt
      /\ SoftLimit' = SoftLimit /\ Shown' = Shown
      /\ \A g : /\ HasText(g)' = HasText(g) /\ HeaderTokens(g)' = HeaderTokens(g)
                /\ PatchTokens(g)' = PatchTokens(g) /\ FitsAlone(g)' = FitsAlone(g)
  BY <1>1, Constant DEF vars, BasePrompt, Shown
<1>3. TypeOK' /\ ModeInv'
  BY <1>1, <1>2 DEF IInv, TypeOK, ModeInv, vars
<1>4. BudgetInv' /\ RoomInv' /\ DisjointInv'
  BY <1>2 DEF IInv, BudgetInv, RoomInv, DisjointInv, WithinBudget, NoRoomWasted,
              ShownOnce, Within, vars
<1>5. AccountInv' /\ CallInv'
  BY <1>2 DEF IInv, AccountInv, MaySkip, CallInv, CallsUsed, vars
<1>. QED
  BY <1>3, <1>4, <1>5 DEF IInv

\* Every step keeps the invariant.
LEMMA IInvStep == IInv /\ [Next]_vars => IInv'
<1> SUFFICES ASSUME IInv, [Next]_vars PROVE IInv'
  OBVIOUS
<1>1. CASE UNCHANGED vars
  BY <1>1, StutterStep
<1>2. CASE \E f \in Files : Extend(f) \/ Pack(f) \/ Fill(f)
  BY <1>2, ExtendStep, PackStep, FillStep
<1>3. CASE EndExtend \/ EndRound \/ List \/ EndFill
  BY <1>3, EndExtendStep, EndRoundStep, ListStep, EndFillStep
<1>. QED
  BY <1>1, <1>2, <1>3 DEF Next, Quiescent

\* The inductive invariant holds at every step.
LEMMA IInvAlways == Spec => []IInv
BY InitIInv, IInvStep, PTL DEF Spec

-----------------------------------------------------------------------------
(***************************************************************************)
(* The theorems.                                                           *)
(***************************************************************************)

\* The type invariant: in particular only patches that handle_patch_deletions
\* leaves are ever packed, put off or named.
THEOREM TypeCorrect == Spec => []TypeOK
BY IInvAlways, PTL DEF IInv

\* Whatever the sizes of the patches, a prompt with a patch leaves the soft
\* buffer free, but for one file's name (pr_processing.py:303-317).
THEOREM BudgetKept == Spec => []WithinBudget
<1>1. IInv => WithinBudget
  BY DEF IInv, BudgetInv
<1>. QED
  BY <1>1, IInvAlways, PTL

\* Neither several rounds nor several calls show a file twice
\* (pr_processing.py:264-282, 434-489).
THEOREM NoneTwice == Spec => []ShownOnce
<1>1. IInv => ShownOnce
  BY DEF IInv, DisjointInv
<1>. QED
  BY <1>1, IInvAlways, PTL

\* A file that is put off would not have fitted (pr_processing.py:303-310).
THEOREM RoomUsed == Spec => []NoRoomWasted
<1>1. IInv => NoRoomWasted
  BY DEF IInv, RoomInv
<1>. QED
  BY <1>1, IInvAlways, PTL

\* Every file is shown or remains, unless the prompt alone, or a file's name,
\* is out of bounds (pr_processing.py:288-320).
THEOREM AllAccounted == Spec => []NothingVanishes
<1>1. IInv => NothingVanishes
  BY DEF IInv, AccountInv, MaySkip, NothingVanishes, Shown
<1>. QED
  BY <1>1, IInvAlways, PTL

\* /improve uses the calls it may make before it leaves out a file that fits
\* (pr_processing.py:434-495).
THEOREM CallsSpent == Spec => []CallsUsed
<1>1. IInv => CallsUsed
  BY DEF IInv, CallInv
<1>. QED
  BY <1>1, IInvAlways, PTL

-----------------------------------------------------------------------------
(***************************************************************************)
(* Calls to the model.                                                     *)
(***************************************************************************)

Coroutines == [state : TaskStates, tries : 0..ModelRetries, model : Models,
               deployment : Models]

\* The setting names the deployment of the round, and the deployments of a
\* command are the configured ones, but for the first one of a later command,
\* which is what the setting was when it began.
DeploymentInv ==
  /\ ~FallbackDeployments => deployment = 1
  /\ command = 1 /\ ~running => deployment = 1
  /\ running =>
       /\ command \in Commands
       /\ deployment = deployments[attempt]
       /\ \A m \in Models :
            ~FallbackDeployments \/ command = 1 \/ m > 1 => deployments[m] = Own(m)

\* A call of the round that is under way began while the setting was what it is.
RoundInv ==
  \A t \in Tasks :
    Current(t) /\ task[t].state \in InCall => task[t].deployment = deployment

FailedAt(k, m) == \E c \in Chunks : task[<<k, m, c>>].state = "failed"

\* The models before the one that is tried failed, and the commands that are not
\* over have no answer.
AnswerInv ==
  /\ FirstThatWorks
  /\ running => \A m \in Models : m < attempt => FailedAt(command, m)
  /\ \A k \in Commands : k >= command => result[k] = 0

\* A call is retried only while it may be.
RetryInv == \A t \in Tasks : task[t].state \in InRetry => MayRetry(t)

\* A chunk calls the model of its round, and for the reflection the one that
\* reflects on that model's suggestions.
ModelInv ==
  \A t \in Tasks :
    /\ task[t].state \in {"calling", "retrying"} => task[t].model = t[2]
    /\ task[t].state \in {"reflecting", "retrying reflection"} => task[t].model = Reflector(t)

CallsInv == CallsTypeOK /\ RetryInv /\ DeploymentInv /\ RoundInv /\ ModelInv /\ AnswerInv

-----------------------------------------------------------------------------
(***************************************************************************)
(* Operators.                                                              *)
(***************************************************************************)
LEMMA TaskParts ==
  /\ \A t \in Tasks : t[1] \in Commands /\ t[2] \in Models /\ t[3] \in Chunks
                      /\ t = <<t[1], t[2], t[3]>>
  /\ \A k \in Commands, m \in Models, c \in Chunks :
       <<k, m, c>> \in Tasks /\ <<k, m, c>>[1] = k /\ <<k, m, c>>[2] = m
BY DEF Tasks

LEMMA ModelsOK ==
  /\ 1 \in Models /\ Models \subseteq Nat /\ NumModels \in Models
  /\ Commands \subseteq Nat \ {0} /\ 1 \in 0..ModelRetries
  /\ \A m \in Models : Own(m) \in Models
BY ModelFallbackAssumption DEF Models, Commands, Own

\* The deployments of a command are deployments, and the configured ones but for
\* the first one, which is what the setting is.
LEMMA AllDeploymentsOK ==
  ASSUME NEW d \in Models, ~FallbackDeployments => d = 1
  PROVE  /\ AllDeployments(d) \in [Models -> Models]
         /\ AllDeployments(d)[1] = d
         /\ \A m \in Models :
              ~FallbackDeployments \/ d = 1 \/ m > 1 => AllDeployments(d)[m] = Own(m)
<1>1. \A m \in Models :
        AllDeployments(d)[m] = IF FallbackDeployments /\ m > 1 THEN m ELSE d
  BY DEF AllDeployments
<1>2. AllDeployments(d) \in [Models -> Models]
  BY DEF AllDeployments
<1>3. 1 \in Models /\ ~(1 > 1)
  BY ModelsOK
<1>4. ASSUME NEW m \in Models, ~FallbackDeployments \/ d = 1 \/ m > 1
      PROVE  AllDeployments(d)[m] = Own(m)
  <2>1. m \in Nat /\ m >= 1
    BY DEF Models
  <2>. QED
    BY <1>1, <1>4, <2>1 DEF Own
<1>. QED
  BY <1>1, <1>2, <1>3, <1>4

\* A call that begins is one.
LEMMA CallingOK ==
  ASSUME NEW s \in TaskStates, NEW m \in Models, NEW d \in Models, NEW n \in 0..ModelRetries
  PROVE  /\ Calling(s, m, d, n) \in Coroutines
         /\ Calling(s, m, d, n).state = s /\ Calling(s, m, d, n).model = m
         /\ Calling(s, m, d, n).deployment = d
BY DEF Calling, Coroutines

LEMMA NoCallOK ==
  ASSUME NEW s \in {"none", "done", "failed"}
  PROVE  NoCall(s) \in Coroutines /\ NoCall(s).state = s
<1>1. s \in TaskStates /\ 1 \in Models /\ 0 \in 0..ModelRetries
  BY ModelsOK, ModelFallbackAssumption DEF TaskStates
<1>. QED
  BY <1>1, CallingOK DEF NoCall

LEMMA StatesOK ==
  /\ InCall \subseteq TaskStates /\ InRetry \subseteq TaskStates
  /\ {"none", "done", "failed"} \subseteq TaskStates
  /\ InCall = {"calling", "reflecting"}
  /\ InRetry = {"retrying", "retrying reflection"}
BY DEF TaskStates, InCall, InRetry

(***************************************************************************)
(* A round begins: its calls name the deployment that the setting gets,    *)
(* and no call of another round changes.                                   *)
(***************************************************************************)
LEMMA TryOK ==
  ASSUME CallsTypeOK, NEW m \in Models, NEW ds \in [Models -> Models], Try(m, ds)
  PROVE  /\ attempt' = m /\ deployment' = ds[m] /\ deployment' \in Models
         /\ task' \in [Tasks -> Coroutines]
         /\ \A t \in Tasks : t[1] = command /\ t[2] = m => task'[t].deployment = ds[m]
         /\ \A t \in Tasks : ~(t[1] = command /\ t[2] = m) => task'[t] = task[t]
<1>1. ds[m] \in Models /\ 1 \in 0..ModelRetries /\ "calling" \in TaskStates
  BY ModelsOK, StatesOK
<1> DEFINE new == Calling("calling", m, ds[m], 1)
<1>2. new \in Coroutines /\ new.deployment = ds[m]
  BY <1>1, CallingOK
<1>3. task' = [t \in Tasks |-> IF t[1] = command /\ t[2] = m THEN new ELSE task[t]]
  BY DEF Try
<1>4. task \in [Tasks -> Coroutines]
  BY DEF CallsTypeOK, Coroutines
<1> HIDE DEF new
<1>5. task' \in [Tasks -> Coroutines]
  BY <1>2, <1>3, <1>4
<1>. QED
  BY <1>1, <1>2, <1>3, <1>5 DEF Try

(***************************************************************************)
(* A step of a chunk's coroutine: what has ended stays as it is, and a     *)
(* call begins with what the setting is.                                   *)
(***************************************************************************)
LEMMA TaskStepOK ==
  ASSUME CallsTypeOK, RetryInv, NEW t \in Tasks, TaskStep(t)
  PROVE  /\ UNCHANGED <<deployment, command, running, deployments, attempt, result>>
         /\ task' \in [Tasks -> Coroutines]
         /\ task[t].state \notin {"done", "failed"}
         /\ \A u \in Tasks \ {t} : task'[u] = task[u]
         /\ task'[t].state \in InCall => task'[t].deployment = deployment
         /\ task'[t].state \in InRetry => task'[t].tries < ModelRetries
<1>1. task[t] \in Coroutines /\ deployment \in Models /\ task \in [Tasks -> Coroutines]
  BY DEF CallsTypeOK, Coroutines
<1>2. task[t].tries \in 0..ModelRetries /\ task[t].model \in Models
  BY <1>1 DEF Coroutines
<1>3. /\ UNCHANGED <<deployment, command, running, deployments, attempt, result>>
      /\ task[t].state \notin {"done", "failed"}
  BY DEF TaskStep, Answer, Reflect, Refuse, Retry, Set, InCall, InRetry
<1>0. ASSUME NEW s \in {"done", "failed"}, task' = [task EXCEPT ![t] = NoCall(s)]
      PROVE  /\ task' \in [Tasks -> Coroutines]
             /\ task'[t].state = s
             /\ \A u \in Tasks \ {t} : task'[u] = task[u]
  <2>1. NoCall(s) \in Coroutines /\ NoCall(s).state = s
    BY NoCallOK
  <2>. QED
    BY <1>0, <1>1, <2>1
<1>4. ASSUME NEW s \in InRetry,
             task' = [task EXCEPT ![t] = [task[t] EXCEPT !.state = s]]
      PROVE  /\ task' \in [Tasks -> Coroutines]
             /\ task'[t].state = s /\ task'[t].tries = task[t].tries
             /\ \A u \in Tasks \ {t} : task'[u] = task[u]
  <2> DEFINE value == [task[t] EXCEPT !.state = s]
  <2>0. s \in TaskStates
    BY StatesOK
  <2>1. value \in Coroutines /\ value.state = s /\ value.tries = task[t].tries
    BY <1>1, <2>0 DEF Coroutines
  <2>2. task' = [task EXCEPT ![t] = value]
    BY <1>4
  <2> HIDE DEF value
  <2>. QED
    BY <1>1, <2>1, <2>2
<1>5. ASSUME NEW s \in InCall, NEW m \in Models, NEW n \in 0..ModelRetries,
             task' = [task EXCEPT ![t] = Calling(s, m, deployment, n)]
      PROVE  /\ task' \in [Tasks -> Coroutines]
             /\ task'[t].state = s /\ task'[t].deployment = deployment
             /\ \A u \in Tasks \ {t} : task'[u] = task[u]
  <2> DEFINE value == Calling(s, m, deployment, n)
  <2>0. s \in TaskStates
    BY StatesOK
  <2>1. value \in Coroutines /\ value.state = s /\ value.deployment = deployment
    BY <1>1, <2>0, CallingOK
  <2>2. task' = [task EXCEPT ![t] = value]
    BY <1>5
  <2> HIDE DEF value
  <2>. QED
    BY <1>1, <2>1, <2>2
<1>6. CASE Answer(t)
  <2>1. Reflector(t) \in Models /\ 1 \in 0..ModelRetries /\ "reflecting" \in InCall
    BY TaskParts, ModelsOK, StatesOK DEF Reflector
  <2>2. CASE Set(t, NoCall("done"))
    BY <1>0, <1>3, <2>2, StatesOK DEF Set
  <2>3. CASE Set(t, Calling("reflecting", Reflector(t), deployment, 1))
    BY <1>3, <1>5, <2>1, <2>3, StatesOK DEF Set
  <2>. QED
    BY <1>6, <2>2, <2>3 DEF Answer
<1>7. CASE Reflect(t)
  BY <1>0, <1>3, <1>7, StatesOK DEF Reflect, Set
<1>8. CASE Refuse(t)
  <2>1. CASE /\ MayRetry(t)
             /\ Set(t, [task[t] EXCEPT !.state = IF @ = "calling" THEN "retrying"
                                                 ELSE "retrying reflection"])
    <3>1. PICK s \in InRetry : task' = [task EXCEPT ![t] = [task[t] EXCEPT !.state = s]]
      <4>1. CASE task[t].state = "calling"
        BY <2>1, <4>1, StatesOK DEF Set
      <4>2. CASE task[t].state # "calling"
        BY <2>1, <4>2, StatesOK DEF Set
      <4>. QED
        BY <4>1, <4>2
    <3>2. s \notin InCall
      BY StatesOK
    <3>. QED
      BY <1>3, <1>4, <2>1, <3>1, <3>2 DEF MayRetry
  <2>2. CASE Set(t, NoCall(IF task[t].state = "calling" THEN "failed" ELSE "done"))
    <3>1. PICK s \in {"done", "failed"} : task' = [task EXCEPT ![t] = NoCall(s)]
      BY <2>2 DEF Set
    <3>. QED
      BY <1>0, <1>3, <3>1, StatesOK
  <2>. QED
    BY <1>8, <2>1, <2>2 DEF Refuse
<1>9. CASE Retry(t)
  <2>1. PICK s \in InCall : Set(t, Calling(s, task[t].model, deployment, task[t].tries + 1))
    BY <1>9, StatesOK DEF Retry
  <2>2. task[t].tries + 1 \in 0..ModelRetries
    BY <1>2, <1>9, ModelFallbackAssumption DEF Retry, RetryInv, MayRetry
  <2>. QED
    BY <1>2, <1>3, <1>5, <2>1, <2>2, StatesOK DEF Set
<1>. QED
  BY <1>3, <1>6, <1>7, <1>8, <1>9 DEF TaskStep

\* Whose model a coroutine calls.
LEMMA TryModels ==
  ASSUME CallsTypeOK, ModelInv, NEW m \in Models, NEW ds \in [Models -> Models], Try(m, ds)
  PROVE  ModelInv'
<1>1. SUFFICES ASSUME NEW t \in Tasks
               PROVE  /\ task'[t].state \in {"calling", "retrying"} => task'[t].model = t[2]
                      /\ task'[t].state \in {"reflecting", "retrying reflection"}
                           => task'[t].model = Reflector(t)
  BY DEF ModelInv, Reflector
<1>2. CASE t[1] = command /\ t[2] = m
  <2>1. task'[t] = Calling("calling", m, ds[m], 1)
    BY <1>2 DEF Try
  <2>2. task'[t].state = "calling" /\ task'[t].model = m
    BY <2>1 DEF Calling
  <2>. QED
    BY <1>2, <2>2
<1>3. CASE ~(t[1] = command /\ t[2] = m)
  BY <1>3, TryOK DEF ModelInv
<1>. QED
  BY <1>2, <1>3

LEMMA TaskModels ==
  ASSUME CallsTypeOK, RetryInv, ModelInv, NEW t \in Tasks, TaskStep(t)
  PROVE  ModelInv'
<1>1. /\ task[t].state \in {"calling", "retrying"} => task[t].model = t[2]
      /\ task[t].state \in {"reflecting", "retrying reflection"} => task[t].model = Reflector(t)
  BY DEF ModelInv
<1>2. task \in [Tasks -> Coroutines] /\ task[t] \in Coroutines
  BY DEF CallsTypeOK, Coroutines
<1>3. ASSUME NEW x, task' = [task EXCEPT ![t] = [task[t] EXCEPT !.state = x]]
      PROVE  task'[t].state = x /\ task'[t].model = task[t].model
  <2> DEFINE value == [task[t] EXCEPT !.state = x]
  <2>1. value.state = x /\ value.model = task[t].model
    BY <1>2 DEF Coroutines
  <2>2. task' = [task EXCEPT ![t] = value]
    BY <1>3
  <2> HIDE DEF value
  <2>. QED
    BY <1>2, <2>1, <2>2
<1>4. ASSUME NEW x, NEW m, NEW d, NEW n, task' = [task EXCEPT ![t] = Calling(x, m, d, n)]
      PROVE  task'[t].state = x /\ task'[t].model = m
  <2> DEFINE value == Calling(x, m, d, n)
  <2>1. value.state = x /\ value.model = m
    BY DEF Calling
  <2>2. task' = [task EXCEPT ![t] = value]
    BY <1>4
  <2> HIDE DEF value
  <2>. QED
    BY <1>2, <2>1, <2>2
<1> DEFINE Goal == /\ task'[t].state \in {"calling", "retrying"} => task'[t].model = t[2]
                   /\ task'[t].state \in {"reflecting", "retrying reflection"}
                        => task'[t].model = Reflector(t)
<1>5. ASSUME Answer(t) PROVE Goal
  <2>1. CASE Set(t, NoCall("done"))
    BY <1>4, <2>1 DEF NoCall, Set
  <2>2. CASE Set(t, Calling("reflecting", Reflector(t), deployment, 1))
    BY <1>4, <2>2 DEF Set
  <2>. QED
    BY <1>5, <2>1, <2>2 DEF Answer
<1>6. ASSUME Reflect(t) PROVE Goal
  <2>1. PICK x \in {"done", "failed"} : task' = [task EXCEPT ![t] = NoCall(x)]
    BY <1>6 DEF Reflect, Set
  <2>. QED
    BY <1>4, <2>1 DEF NoCall
<1>7. ASSUME Refuse(t) PROVE Goal
  <2>1. CASE Set(t, [task[t] EXCEPT !.state = IF @ = "calling" THEN "retrying"
                                              ELSE "retrying reflection"])
    <3>1. task[t].state \in {"calling", "reflecting"}
      BY <1>7 DEF Refuse, InCall
    <3>2. task' = [task EXCEPT ![t] = [task[t] EXCEPT !.state =
                     IF task[t].state = "calling" THEN "retrying" ELSE "retrying reflection"]]
      BY <2>1 DEF Set
    <3>3. /\ task'[t].state = IF task[t].state = "calling" THEN "retrying"
                             ELSE "retrying reflection"
          /\ task'[t].model = task[t].model
      BY <1>3, <3>2
    <3>. QED
      BY <1>1, <3>1, <3>3
  <2>2. CASE Set(t, NoCall(IF task[t].state = "calling" THEN "failed" ELSE "done"))
    <3>1. PICK x \in {"done", "failed"} : task' = [task EXCEPT ![t] = NoCall(x)]
      BY <2>2 DEF Set
    <3>. QED
      BY <1>4, <3>1 DEF NoCall
  <2>. QED
    BY <1>7, <2>1, <2>2 DEF Refuse
<1>8. ASSUME Retry(t) PROVE Goal
  <2> DEFINE next == IF task[t].state = "retrying" THEN "calling" ELSE "reflecting"
  <2>1. task'[t].state = next /\ task'[t].model = task[t].model
    BY <1>4, <1>8 DEF Retry, Set
  <2>2. task[t].state \in {"retrying", "retrying reflection"}
    BY <1>8 DEF Retry, InRetry
  <2>. QED
    BY <1>1, <2>1, <2>2
<1>9. Goal
  BY <1>5, <1>6, <1>7, <1>8 DEF TaskStep
<1> HIDE DEF Goal
<1>10. \A u \in Tasks \ {t} : task'[u] = task[u]
  BY TaskStepOK
<1>. QED
  BY <1>9, <1>10 DEF ModelInv, Goal, Reflector

-----------------------------------------------------------------------------
(***************************************************************************)
(* The inductive invariant.                                                *)
(***************************************************************************)
LEMMA InitCallsInv == CallsInit => CallsInv
<1> SUFFICES ASSUME CallsInit PROVE CallsInv
  OBVIOUS
<1> DEFINE first == NoCall("none")
<1>1. first \in Coroutines /\ first.state = "none"
  BY NoCallOK
<1>2. task = [t \in Tasks |-> first]
  BY DEF CallsInit
<1> HIDE DEF first
<1>3. CallsTypeOK
  <2>1. task \in [Tasks -> Coroutines]
    BY <1>1, <1>2
  <2>2. command \in 1..(NumCommands + 1)
    BY ModelFallbackAssumption DEF CallsInit
  <2>3. result \in [Commands -> 0..NumModels]
    BY ModelFallbackAssumption DEF CallsInit
  <2>. QED
    BY <2>1, <2>2, <2>3, ModelsOK DEF CallsInit, CallsTypeOK, Coroutines
<1>4. RetryInv
  BY <1>1, <1>2, StatesOK DEF RetryInv
<1>5. DeploymentInv /\ RoundInv
  BY DEF CallsInit, DeploymentInv, RoundInv, Current
<1>b. ModelInv
  BY <1>1, <1>2 DEF ModelInv
<1>6. AnswerInv
  <2>1. \A k \in Commands : ~(k < command)
    BY DEF CallsInit, Commands
  <2>2. FirstThatWorks
    BY <2>1 DEF FirstThatWorks
  <2>. QED
    BY <2>2 DEF CallsInit, AnswerInv
<1>. QED
  BY <1>3, <1>4, <1>5, <1>b, <1>6 DEF CallsInv

(***************************************************************************)
(* A round begins, with the deployments ds.                                *)
(***************************************************************************)
LEMMA TryTypes ==
  ASSUME CallsInv, NEW m \in Models, NEW ds \in [Models -> Models], Try(m, ds),
         running' = TRUE, deployments' = ds, UNCHANGED <<command, result>>,
         command \in Commands
  PROVE  CallsTypeOK' /\ RetryInv' /\ RoundInv' /\ ModelInv'
<1>1. /\ attempt' = m /\ deployment' = ds[m] /\ deployment' \in Models
      /\ task' \in [Tasks -> Coroutines]
      /\ \A t \in Tasks : t[1] = command /\ t[2] = m => task'[t].deployment = ds[m]
      /\ \A t \in Tasks : ~(t[1] = command /\ t[2] = m) => task'[t] = task[t]
  BY TryOK DEF CallsInv
<1>2. CallsTypeOK'
  BY <1>1 DEF CallsInv, CallsTypeOK, Coroutines
<1>3. ASSUME NEW t \in Tasks, task'[t].state \in InRetry
      PROVE  task'[t].tries < ModelRetries
  <2>1. CASE t[1] = command /\ t[2] = m
    <3>1. task'[t] = Calling("calling", m, ds[m], 1)
      BY <2>1 DEF Try
    <3>2. task'[t].state = "calling"
      BY <3>1 DEF Calling
    <3>. QED
      BY <1>3, <3>2, StatesOK
  <2>2. CASE ~(t[1] = command /\ t[2] = m)
    BY <1>1, <1>3, <2>2 DEF CallsInv, RetryInv, MayRetry
  <2>. QED
    BY <2>1, <2>2
<1>4. RetryInv'
  BY <1>3 DEF RetryInv, MayRetry
<1>5. RoundInv'
  BY <1>1 DEF RoundInv, Current
<1>6. ModelInv'
  BY TryModels DEF CallsInv
<1>. QED
  BY <1>2, <1>4, <1>5, <1>6

\* What FirstThatWorks says of the commands that are over, and what is known of
\* the models that failed, stays true when no call of theirs that has ended changes.
LEMMA EndedStays ==
  ASSUME CallsTypeOK, FirstThatWorks, UNCHANGED <<command, result>>,
         \A t \in Tasks : t[1] < command /\ task[t].state \in {"done", "failed"} =>
                            task'[t] = task[t]
  PROVE  FirstThatWorks'
<1> SUFFICES ASSUME NEW k \in Commands, k < command
             PROVE  /\ \A m \in Models : result[k] = 0 \/ m < result[k] =>
                         \E c \in Chunks : task'[<<k, m, c>>].state = "failed"
                    /\ (result[k] # 0 =>
                         \A c \in Chunks : task'[<<k, result[k], c>>].state = "done")
  BY DEF FirstThatWorks
<1>1. \A m \in Models, c \in Chunks : task[<<k, m, c>>].state \in {"done", "failed"} =>
        task'[<<k, m, c>>] = task[<<k, m, c>>]
  BY TaskParts
<1>2. ASSUME NEW m \in Models, result[k] = 0 \/ m < result[k]
      PROVE  \E c \in Chunks : task'[<<k, m, c>>].state = "failed"
  <2>1. PICK c \in Chunks : task[<<k, m, c>>].state = "failed"
    BY <1>2 DEF FirstThatWorks
  <2>. QED
    BY <1>1, <2>1
<1>3. ASSUME result[k] # 0, NEW c \in Chunks
      PROVE  task'[<<k, result[k], c>>].state = "done"
  <2>1. result[k] \in Models
    BY <1>3, ModelFallbackAssumption DEF CallsTypeOK, Models
  <2>2. task[<<k, result[k], c>>].state = "done"
    BY <1>3 DEF FirstThatWorks
  <2>. QED
    BY <1>1, <2>1, <2>2
<1>. QED
  BY <1>2, <1>3

LEMMA BeginStep == ASSUME CallsInv, Begin PROVE CallsInv'
<1>1. /\ command \in Commands /\ ~running /\ running' = TRUE
      /\ deployments' = AllDeployments(deployment)
      /\ Try(1, AllDeployments(deployment))
      /\ UNCHANGED <<command, result>>
  BY DEF Begin
<1>2. /\ deployment \in Models
      /\ ~FallbackDeployments => deployment = 1
      /\ command = 1 => deployment = 1
  BY <1>1 DEF CallsInv, CallsTypeOK, DeploymentInv
<1>3. /\ AllDeployments(deployment) \in [Models -> Models]
      /\ AllDeployments(deployment)[1] = deployment
      /\ \A m \in Models : ~FallbackDeployments \/ deployment = 1 \/ m > 1 =>
           AllDeployments(deployment)[m] = Own(m)
  BY <1>2, AllDeploymentsOK
<1>4. CallsTypeOK' /\ RetryInv' /\ RoundInv' /\ ModelInv'
  BY <1>1, <1>3, ModelsOK, TryTypes
<1>5. /\ attempt' = 1 /\ deployment' = AllDeployments(deployment)[1]
      /\ \A t \in Tasks : ~(t[1] = command /\ t[2] = 1) => task'[t] = task[t]
  BY <1>1, <1>3, ModelsOK, TryOK DEF CallsInv
<1>6. DeploymentInv'
  BY <1>1, <1>2, <1>3, <1>5 DEF DeploymentInv
<1>7. FirstThatWorks'
  <2>1. \A t \in Tasks : t[1] < command => task'[t] = task[t]
    BY <1>1, <1>5, TaskParts, ModelsOK
  <2>. QED
    BY <1>1, <2>1, EndedStays DEF CallsInv, AnswerInv
<1>8. \A m \in Models : ~(m < 1)
  BY DEF Models
<1>9. AnswerInv'
  BY <1>1, <1>5, <1>7, <1>8 DEF CallsInv, AnswerInv
<1>. QED
  BY <1>4, <1>6, <1>9 DEF CallsInv

LEMMA FallbackStep == ASSUME CallsInv, Fallback PROVE CallsInv'
<1>1. /\ running /\ running' /\ Broken /\ attempt < NumModels
      /\ Try(attempt + 1, deployments)
      /\ UNCHANGED <<command, running, deployments, result>>
  BY DEF Fallback
<1>2. /\ attempt \in Models /\ attempt + 1 \in Models
      /\ deployments \in [Models -> Models]
      /\ command \in Commands /\ running \in BOOLEAN
  <2>1. /\ attempt \in Models /\ deployments \in [Models -> Models] /\ running \in BOOLEAN
    BY DEF CallsInv, CallsTypeOK
  <2>2. command \in Commands
    BY <1>1 DEF CallsInv, DeploymentInv
  <2>3. attempt + 1 \in Models
    BY <1>1, <2>1, ModelFallbackAssumption DEF Models
  <2>. QED
    BY <2>1, <2>2, <2>3
<1>3. CallsTypeOK' /\ RetryInv' /\ RoundInv' /\ ModelInv'
  BY <1>1, <1>2, TryTypes
<1>4. /\ attempt' = attempt + 1 /\ deployment' = deployments[attempt + 1]
      /\ \A t \in Tasks : ~(t[1] = command /\ t[2] = attempt + 1) => task'[t] = task[t]
  BY <1>1, <1>2, TryOK DEF CallsInv
<1>5. DeploymentInv'
  <2>1. ~FallbackDeployments => deployments[attempt + 1] = 1
    BY <1>1, <1>2 DEF CallsInv, DeploymentInv, Own
  <2>. QED
    BY <1>1, <1>2, <1>4, <2>1 DEF CallsInv, DeploymentInv
<1>6. FirstThatWorks'
  <2>1. \A t \in Tasks : t[1] < command => task'[t] = task[t]
    BY <1>2, <1>4, TaskParts, ModelsOK
  <2>. QED
    BY <1>1, <2>1, EndedStays DEF CallsInv, AnswerInv
<1>7. ASSUME NEW m \in Models, m < attempt + 1
      PROVE  FailedAt(command, m)'
  <2>1. FailedAt(command, m)
    <3>1. CASE m < attempt
      BY <1>1, <3>1 DEF CallsInv, AnswerInv
    <3>2. CASE m = attempt
      BY <1>1, <3>2, TaskParts DEF Broken, Current, FailedAt
    <3>. QED
      BY <1>2, <1>7, <3>1, <3>2 DEF Models
  <2>2. PICK c \in Chunks : task[<<command, m, c>>].state = "failed"
    BY <2>1 DEF FailedAt
  <2>3. /\ <<command, m, c>> \in Tasks
        /\ ~(<<command, m, c>>[2] = attempt + 1)
    BY <1>2, <1>7, TaskParts DEF Models
  <2>4. task'[<<command, m, c>>] = task[<<command, m, c>>]
    BY <1>4, <2>3
  <2>. QED
    BY <1>1, <2>2, <2>4 DEF FailedAt
<1>8. AnswerInv'
  BY <1>1, <1>4, <1>6, <1>7 DEF CallsInv, AnswerInv
<1>. QED
  BY <1>3, <1>5, <1>8 DEF CallsInv

(***************************************************************************)
(* A command ends: it is over, with the answer that result has for it now. *)
(***************************************************************************)
LEMMA EndStep ==
  ASSUME CallsInv, running, running' = FALSE, command' = command + 1,
         UNCHANGED <<deployment, deployments, attempt, task>>,
         result' \in [Commands -> 0..NumModels],
         \A k \in Commands \ {command} : result'[k] = result[k],
         \A m \in Models : result'[command] = 0 \/ m < result'[command] =>
           FailedAt(command, m),
         result'[command] # 0 =>
           \A c \in Chunks : task[<<command, result'[command], c>>].state = "done"
  PROVE  CallsInv'
<1>1. command \in Commands /\ command \in 1..NumCommands
  BY DEF CallsInv, DeploymentInv, Commands
<1>2. CallsTypeOK' /\ RetryInv' /\ RoundInv' /\ ModelInv' /\ DeploymentInv'
  <2>1. command' \in 1..(NumCommands + 1) /\ command' # 1
    BY <1>1, ModelFallbackAssumption
  <2>. QED
    BY <2>1 DEF CallsInv, CallsTypeOK, RetryInv, MayRetry, RoundInv, Current, ModelInv,
                Reflector, DeploymentInv
<1>3. ASSUME NEW k \in Commands, k < command'
      PROVE  /\ \A m \in Models : result'[k] = 0 \/ m < result'[k] =>
                  \E c \in Chunks : task'[<<k, m, c>>].state = "failed"
             /\ (result'[k] # 0 =>
                  \A c \in Chunks : task'[<<k, result'[k], c>>].state = "done")
  <2>1. CASE k = command
    BY <2>1 DEF FailedAt
  <2>2. CASE k # command
    <3>1. k < command
      BY <1>1, <1>3, <2>2 DEF Commands
    <3>2. result'[k] = result[k] /\ task' = task
      BY <2>2
    <3>3. FirstThatWorks
      BY DEF CallsInv, AnswerInv
    <3>4. \A m \in Models : result[k] = 0 \/ m < result[k] =>
            \E c \in Chunks : task[<<k, m, c>>].state = "failed"
      BY <3>1, <3>3 DEF FirstThatWorks
    <3>5. result[k] # 0 => \A c \in Chunks : task[<<k, result[k], c>>].state = "done"
      BY <3>1, <3>3 DEF FirstThatWorks
    <3>. QED
      BY <3>2, <3>4, <3>5
  <2>. QED
    BY <2>1, <2>2
<1>4. FirstThatWorks'
  BY <1>3 DEF FirstThatWorks
<1>5. ASSUME NEW k \in Commands, k >= command'
      PROVE  result'[k] = 0
  <2>1. k >= command /\ k # command
    BY <1>1, <1>5 DEF Commands
  <2>. QED
    BY <2>1 DEF CallsInv, AnswerInv
<1>6. AnswerInv'
  BY <1>4, <1>5 DEF AnswerInv
<1>. QED
  BY <1>2, <1>6 DEF CallsInv

LEMMA GiveUpStep == ASSUME CallsInv, GiveUp PROVE CallsInv'
<1>1. /\ running /\ Broken /\ attempt = NumModels
      /\ running' = FALSE /\ command' = command + 1
      /\ UNCHANGED <<deployment, deployments, attempt, task, result>>
  BY DEF GiveUp
<1>2. command \in Commands /\ result[command] = 0
  BY <1>1 DEF CallsInv, DeploymentInv, AnswerInv, Commands
<1>3. ASSUME NEW m \in Models PROVE FailedAt(command, m)
  <2>1. CASE m < attempt
    BY <1>1, <2>1 DEF CallsInv, AnswerInv
  <2>2. CASE m = attempt
    BY <1>1, <2>2, TaskParts DEF Broken, Current, FailedAt
  <2>. QED
    BY <1>1, <2>1, <2>2, ModelFallbackAssumption DEF Models
<1>. QED
  BY <1>1, <1>2, <1>3, EndStep DEF CallsInv, CallsTypeOK

LEMMA ReturnStep == ASSUME CallsInv, Return PROVE CallsInv'
<1>1. /\ running /\ Whole
      /\ result' = [result EXCEPT ![command] = attempt]
      /\ running' = FALSE /\ command' = command + 1
      /\ UNCHANGED <<deployment, deployments, attempt, task>>
  BY DEF Return
<1>2. command \in Commands /\ attempt \in Models /\ attempt \in 0..NumModels
  BY <1>1, ModelFallbackAssumption DEF CallsInv, DeploymentInv, CallsTypeOK, Models
<1>3. /\ result' \in [Commands -> 0..NumModels] /\ result'[command] = attempt
      /\ \A k \in Commands \ {command} : result'[k] = result[k]
  BY <1>1, <1>2 DEF CallsInv, CallsTypeOK
<1>4. attempt # 0
  BY <1>2 DEF Models
<1>5. \A c \in Chunks : task[<<command, attempt, c>>].state = "done"
  BY <1>1, <1>2, TaskParts DEF Whole, Current
<1>6. \A m \in Models : m < attempt => FailedAt(command, m)
  BY <1>1 DEF CallsInv, AnswerInv
<1>. QED
  BY <1>1, <1>3, <1>4, <1>5, <1>6, EndStep

LEMMA TaskStepStep ==
  ASSUME CallsInv, NEW t \in Tasks, TaskStep(t) PROVE CallsInv'
<1>1. /\ UNCHANGED <<deployment, command, running, deployments, attempt, result>>
      /\ task' \in [Tasks -> Coroutines]
      /\ task[t].state \notin {"done", "failed"}
      /\ \A u \in Tasks \ {t} : task'[u] = task[u]
      /\ task'[t].state \in InCall => task'[t].deployment = deployment
      /\ task'[t].state \in InRetry => task'[t].tries < ModelRetries
  BY TaskStepOK DEF CallsInv
<1>2. CallsTypeOK'
  BY <1>1 DEF CallsInv, CallsTypeOK, Coroutines
<1>3. RetryInv'
  BY <1>1 DEF CallsInv, RetryInv, MayRetry
<1>4. DeploymentInv'
  BY <1>1 DEF CallsInv, DeploymentInv
<1>5. RoundInv'
  BY <1>1 DEF CallsInv, RoundInv, Current
<1>a. ModelInv'
  BY TaskModels DEF CallsInv
<1>6. \A u \in Tasks : task[u].state \in {"done", "failed"} => task'[u] = task[u]
  BY <1>1
<1>7. FirstThatWorks'
  BY <1>1, <1>6, EndedStays DEF CallsInv, AnswerInv
<1>8. ASSUME running, NEW m \in Models, m < attempt PROVE FailedAt(command, m)'
  <2>1. command \in Commands
    BY <1>8 DEF CallsInv, DeploymentInv
  <2>2. PICK c \in Chunks : task[<<command, m, c>>].state = "failed"
    BY <1>8 DEF CallsInv, AnswerInv, FailedAt
  <2>3. task'[<<command, m, c>>] = task[<<command, m, c>>]
    BY <1>6, <2>1, <2>2, TaskParts
  <2>. QED
    BY <1>1, <2>2, <2>3 DEF FailedAt
<1>9. AnswerInv'
  BY <1>1, <1>7, <1>8 DEF CallsInv, AnswerInv
<1>. QED
  BY <1>2, <1>3, <1>4, <1>5, <1>a, <1>9 DEF CallsInv

LEMMA NextCallsInv == CallsInv /\ [CallsNext]_callsVars => CallsInv'
<1> SUFFICES ASSUME CallsInv, [CallsNext]_callsVars PROVE CallsInv'
  OBVIOUS
<1>1. CASE LoopStep
  BY <1>1, BeginStep, FallbackStep, GiveUpStep, ReturnStep DEF LoopStep
<1>2. ASSUME NEW t \in Tasks, TaskStep(t) PROVE CallsInv'
  BY <1>2, TaskStepStep
<1>3. CASE UNCHANGED callsVars
  <2>1. CallsTypeOK' /\ RetryInv' /\ DeploymentInv' /\ RoundInv'
    BY <1>3 DEF callsVars, CallsInv, CallsTypeOK, RetryInv, MayRetry, DeploymentInv, RoundInv,
                Current
  <2>2. ModelInv'
    BY <1>3 DEF callsVars, CallsInv, ModelInv, Reflector
  <2>3. AnswerInv'
    BY <1>3 DEF callsVars, CallsInv, AnswerInv, FirstThatWorks, FailedAt
  <2>. QED
    BY <2>1, <2>2, <2>3 DEF CallsInv
<1>. QED
  BY <1>1, <1>2, <1>3 DEF CallsNext, Handled

LEMMA CallsInvAlways == CallsSpec => []CallsInv
BY InitCallsInv, NextCallsInv, PTL DEF CallsSpec

-----------------------------------------------------------------------------
(***************************************************************************)
(* What the runs check.                                                    *)
(***************************************************************************)
\* The state stays well-typed: a call is never made once more than MODEL_RETRIES
\* allows.
THEOREM CallsTypeCorrect == CallsSpec => []CallsTypeOK
BY CallsInvAlways, PTL DEF CallsInv

\* A command's answer is of the first model that gave one to all of its chunks,
\* whatever the chunks of the rounds before still do.
THEOREM FirstThatWorksHolds == CallsSpec => []FirstThatWorks
<1>1. CallsInv => FirstThatWorks
  BY DEF CallsInv, AnswerInv
<1>. QED
  BY <1>1, CallsInvAlways, PTL

\* In the first command, and whenever a fallback model is tried, the calls of the
\* round under way name the deployment configured for the model that is tried, and
\* are calls of that model but for the reflections on what a third or later model
\* suggests, which are the first model's.
THEOREM RoundPairedHolds == CallsSpec => []RoundPaired
<1>1. ASSUME CallsInv, NEW t \in Tasks, Current(t), task[t].state \in InCall,
             command = 1 \/ attempt > 1
      PROVE  /\ task[t].deployment = Own(attempt)
             /\ \/ task[t].model = attempt
                \/ attempt > 2 /\ task[t].state = "reflecting" /\ task[t].model = 1
  <2>1. task[t].deployment = deployment
    BY <1>1 DEF CallsInv, RoundInv
  <2>2. running /\ attempt \in Models /\ t[2] = attempt
    BY <1>1 DEF CallsInv, CallsTypeOK, Current
  <2>3. deployment = deployments[attempt] /\ deployments[attempt] = Own(attempt)
    BY <1>1, <2>2 DEF CallsInv, DeploymentInv
  <2>4. CASE task[t].state = "calling"
    BY <1>1, <2>1, <2>2, <2>3, <2>4 DEF CallsInv, ModelInv
  <2>5. CASE task[t].state = "reflecting"
    <3>1. task[t].model = Reflector(t)
      BY <1>1, <2>5 DEF CallsInv, ModelInv
    <3>2. attempt \in Nat /\ attempt >= 1
      BY <2>2 DEF Models
    <3>. QED
      BY <2>1, <2>2, <2>3, <2>5, <3>1, <3>2 DEF Reflector
  <2>. QED
    BY <1>1, <2>4, <2>5 DEF InCall
<1>2. CallsInv => RoundPaired
  BY <1>1 DEF RoundPaired
<1>. QED
  BY <1>2, CallsInvAlways, PTL
=============================================================================
