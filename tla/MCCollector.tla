----------------------------- MODULE MCCollector -----------------------------
(* An instance of the mutator and the generational collector.               *)
EXTENDS Collector

AllKinds == {"record", "pair", "vec_hdr", "arr_hdr", "mixed", "arr_data", "susp", "weak",
             "code", "big"}
=============================================================================
