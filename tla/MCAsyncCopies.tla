--------------------------- MODULE MCAsyncCopies ---------------------------
(***************************************************************************)
(* Two threads of one block, a Shared element, a global one, and the copy  *)
(* from the global one: every program of so many accesses and barriers.    *)
(***************************************************************************)
EXTENDS AsyncCopies

MCCopies == {[dst |-> <<"s">>, src |-> <<"g">>]}

(* The kernels load and store s, and store g; a copy is what loads g.      *)
MCTouches == {Plain("s", "Read"), Plain("s", "Write"), Plain("g", "Write")}

=============================================================================
