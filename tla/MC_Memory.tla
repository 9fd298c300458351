------------------------------ MODULE MC_Memory ------------------------------
EXTENDS Memory

\* Frames of two bytes, some of which straddle an edge.  The first map has just the frames
\* that all pages with their tables take, the second runs out on the way, the third
\* cannot even hold the first page tables.
MCMemoryMaps ==
  {[usable |-> {<<1, 29>>}, reserved |-> {<<2, 4>>, <<27, 28>>}],
   [usable |-> {<<0, 3>>, <<5, 25>>}, reserved |-> {<<6, 9>>}],
   [usable |-> {<<0, 9>>}, reserved |-> {<<2, 3>>}]}

\* UVA_CODE and UVA_STACK share a PT; TEST_VIRT and SECRET_VA share their PD with them.
MCUserPages == {20, 21}
MCKernelPages == {16, 24}
MCLasting == {24}
=============================================================================
