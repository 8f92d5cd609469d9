---------------------------- MODULE MCInodeStore ----------------------------
(* InodeStore with five files: an empty one, three that fit and one that is one *)
(* sector too long.  The table has room for two inodes, the inode bitmap for   *)
(* four and the data bitmap for four sectors, so each limit is exceeded.       *)
EXTENDS InodeStore, TLC

CONSTANTS e, a, b, c, d

MCSectors == (e :> 0) @@ (a :> 1) @@ (b :> 2) @@ (c :> 3) @@ (d :> 1)
=============================================================================
