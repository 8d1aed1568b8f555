---------------------------- MODULE MCLogStream ----------------------------
(* Instances of LogStream for TLC.  Streams, processes, pm_ids, names and    *)
(* buses are model values, none of them told apart from its like.          *)
EXTENDS LogStream, TLC

Interchangeable ==
    Permutations(Stream) \cup Permutations(Proc) \cup Permutations(PmId)
        \cup Permutations(Name) \cup Permutations(Bus)
=============================================================================
