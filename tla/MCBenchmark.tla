---------------------------- MODULE MCBenchmark ----------------------------
(* TLC instances of Benchmark. *)
EXTENDS Benchmark
=============================================================================
