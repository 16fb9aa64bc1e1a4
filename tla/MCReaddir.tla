----------------------------- MODULE MCReaddir -----------------------------
(* Instantiates Readdir for TLC.                                           *)
EXTENDS Readdir

MCNames == {"a", "b", "c"}

\* The backing filesystem gives "." and ".." first (ext4), or interleaves
\* them with the names (a hashed order).
MCOrders ==
    { [e \in MCNames \cup {".", ".."} |->
         CASE e = "." -> 1 [] e = ".." -> 2 [] e = "a" -> 3
           [] e = "b" -> 4 [] e = "c" -> 5],
      [e \in MCNames \cup {".", ".."} |->
         CASE e = "a" -> 1 [] e = "." -> 2 [] e = "b" -> 3
           [] e = ".." -> 4 [] e = "c" -> 5] }
=============================================================================
