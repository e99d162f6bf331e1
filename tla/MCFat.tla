--------------------------------- MODULE MCFat ---------------------------------
(***************************************************************************)
(* Fat on partitions of eight sectors of two bytes: three clusters of one  *)
(* sector with a table that describes all of them, and with one that stops *)
(* short of the last; two clusters of two sectors, with a sector left      *)
(* over; and headers that must be refused.                                 *)
(***************************************************************************)
EXTENDS Fat

Header(reserved, fats, sectors_per_fat, total, sectors_per_cluster, root) ==
  [reserved |-> reserved, fats |-> fats, sectors_per_fat |-> sectors_per_fat,
   total |-> total, sectors_per_cluster |-> sectors_per_cluster, root |-> root]

MCHeaders ==
  { Header(1, 1, 3, 7, 1, 2), Header(1, 2, 2, 8, 1, 4), Header(1, 1, 2, 8, 2, 2),
    Header(1, 1, 3, 9, 1, 2),    \* larger than the partition
    Header(1, 1, 3, 7, 3, 2),    \* clusters of three sectors
    Header(1, 2, 4, 8, 1, 2),    \* tables past the end
    Header(1, 1, 3, 7, 1, 5),    \* no such root
    Header(0, 1, 3, 7, 1, 2) }   \* no reserved sector
=============================================================================
