---------------------------- MODULE MCMemAllocator ----------------------------
(* Instance of MemAllocator for TLC: the threads of a decoder and of a      *)
(* renderer, and the one that controls the graph.                           *)
EXTENDS MemAllocator

CONSTANTS decoder, renderer, graph

MCThreads == {decoder, renderer, graph}
==============================================================================
