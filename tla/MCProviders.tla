----------------------------- MODULE MCProviders -----------------------------
(* Two commands of any tools on a pull request of any service, with two      *)
(* suggestions, one of them on lines that make no sense, and six changes:    *)
(* one of each type, one ignored, one invalid, a large one, and a submodule. *)
EXTENDS Providers, TLC

CONSTANTS s1, s2, proper, odd

Two == <<proper, odd>>
Symmetry == Permutations(Sessions)

Modified == [name |-> "", type |-> "modify", hunks |-> <<"1">>, valid |-> TRUE,
             ignored |-> FALSE, large |-> FALSE, inside |-> {}]
Named(f) == [Modified EXCEPT !.name = f]
Six == <<[Named("ignored") EXCEPT !.type = "add", !.hunks = <<"added">>, !.ignored = TRUE],
         [Named("large") EXCEPT !.hunks = <<"1", "2">>, !.large = TRUE],
         [Named("renamed") EXCEPT !.type = "rename"],
         [Named("deleted") EXCEPT !.type = "delete", !.hunks = <<"removed">>],
         [Named("sub") EXCEPT !.inside = {"sub/file"}],
         [Named("invalid") EXCEPT !.valid = FALSE]>>
=============================================================================
