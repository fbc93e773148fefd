--------------------------------- MODULE Lists ---------------------------------
(***************************************************************************)
(* Part of a list, as a recursive function, so that it can be reasoned about *)
(* (SelectSeq cannot: tlapm does not expand it).                            *)
(***************************************************************************)
EXTENDS Integers, Sequences

\* For each n: the elements among the first n of s that are in S.
OnlyUpTo(s, S) ==
    LET only[n \in 0..Len(s)] ==
            IF n = 0 THEN <<>>
            ELSE IF s[n] \in S THEN Append(only[n - 1], s[n]) ELSE only[n - 1]
    IN  only

\* [x for x in s if x in S]
Only(s, S) == OnlyUpTo(s, S)[Len(s)]
=============================================================================
