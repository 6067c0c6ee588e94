---------------------------- MODULE MCCompletion ----------------------------
(* A small instance of Completion. *)
EXTENDS Completion

usual == [configured |-> TRUE, max |-> 3, page |-> 3]

\* A page smaller than max_results, a max_results that no validation refuses,
\* and a binding that does not configure the variable.
MCBindings ==
    {usual, [usual EXCEPT !.page = 1], [usual EXCEPT !.max = -1],
     [usual EXCEPT !.configured = FALSE]}
=============================================================================
