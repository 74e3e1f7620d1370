------------------------------ MODULE MCProblems ------------------------------
(* Problems for TLC: preset code with brackets, with references that are     *)
(* written and without, two problems, and numbers whose order as text is     *)
(* another.                                                                  *)
EXTENDS Problems

MCMeans == [r \in Reference |-> IF r = "&lt;" THEN "<" ELSE IF r = "&gt;" THEN ">" ELSE "(C)"]

MCHeaders == {<<"&", "a">>, <<"<", "a", ">">>, <<"&copy", "a", "&lt;">>}

=============================================================================
