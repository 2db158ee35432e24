------------------------------ MODULE MCLifts ------------------------------
(***************************************************************************)
(* Every cooperative lift on one, two and four threads, with fewer, as     *)
(* many and more elements than threads, two rows.                          *)
(***************************************************************************)
EXTENDS Lifts

JobsOf(lifts, blocks, extents, reverses, exclusives) ==
  [lift : lifts, op : {"Sum", "Max"}, block : blocks, extent : extents,
   reverse : reverses, exclusive : exclusives]

MCJobs ==
  JobsOf({"reduce"}, {1, 2, 4}, {0, 1, 3, 6}, {FALSE}, {FALSE})
    \cup JobsOf({"scan"}, {1, 2, 4}, {0, 1, 3, 5}, {FALSE, TRUE}, {FALSE, TRUE})
    \cup JobsOf({"rowreduce"}, {1, 2, 4}, {1, 3}, {FALSE}, {FALSE})

=============================================================================
