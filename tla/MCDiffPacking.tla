--------------------------- MODULE MCDiffPacking ---------------------------
(* An instance of DiffPacking for TLC: files of a few sizes, of two languages, *)
(* and prompts that leave some room for them or none.                         *)
EXTENDS DiffPacking

Look(language, kind, edit, extended, pruned, header) ==
  [language |-> language, kind |-> kind, edit |-> edit, extended |-> extended,
   pruned |-> pruned, header |-> header]

MCShapes ==
  {Look(1, "patched", "modified", 11, 9, 2), Look(1, "patched", "added", 8, 5, 1),
   Look(2, "patched", "modified", 20, 20, 1), Look(2, "patched", "renamed", 4, 2, 5),
   Look(1, "gone", "deleted", 9, 0, 1), Look(2, "pruned", "modified", 3, 1, 1),
   Look(1, "unpatched", "renamed", 0, 0, 1)}

\* Commands that are alike for a mode are left out.
MCRequests ==
  {q \in [mode : {"single", "large", "multi"}, numbered : BOOLEAN, clip : BOOLEAN,
          max : {24}, prompt : {1, 4, 22}, filesPrompt : {2, 22}] :
     /\ q.mode = "large" => ~q.numbered
     /\ q.mode # "large" => q.filesPrompt = 2
     /\ q.mode # "multi" => ~q.clip}
=============================================================================
