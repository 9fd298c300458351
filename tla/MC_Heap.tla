------------------------------- MODULE MC_Heap -------------------------------
EXTENDS Heap

\* Nodes of 4 bytes aligned to 2, half of what the source has in words.  The requests
\* are one smaller than a node, one whose size is not a multiple of its alignment, one
\* that leaves slivers, and two aligned more strictly than a node.
MCLayouts ==
  {[size |-> 1, align |-> 1], [size |-> 5, align |-> 2], [size |-> 6, align |-> 4],
   [size |-> 8, align |-> 8]}
=============================================================================
