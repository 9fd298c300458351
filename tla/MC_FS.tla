-------------------------------- MODULE MC_FS --------------------------------
EXTENDS FS

\* An image of one unit of superblock and room for four entries of two units.  Every
\* superblock is tried, for each reader.
MCHeaders ==
  [magic : BOOLEAN, version : BOOLEAN, total : {7, 9, 10}, dataEnd : {0, 7, 9, 10},
   fileCount : {0, 1, 2, 5}]

\* Tables at each entry's place, of one entry, of two and of none, one that is not whole,
\* the root's own, and regions that end at, or past, the data and the image.
MCExtents ==
  {<<1, 2>>, <<3, 2>>, <<5, 2>>, <<7, 2>>, <<3, 4>>, <<5, 4>>, <<3, 0>>, <<5, 0>>,
   <<9, 0>>, <<3, 1>>, <<5, 3>>, <<8, 2>>, <<10, 0>>}
=============================================================================
