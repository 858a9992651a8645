---------------------------- MODULE MCBenchmark ----------------------------
(* One iteration of the benchmark: the poll method, then the ring method.  *)
EXTENDS Benchmark

BenchmarkMethods == <<"poll", "ring">>
BenchmarkFunctions ==
    {"AFPPacketProcessPoll", "AFPPacketProcessUsingRingBufferPolling"}
=============================================================================
