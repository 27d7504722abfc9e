------------------------------ MODULE StatePaths ------------------------------
(***************************************************************************)
(* StatePath: how a path is cut into segments and compared with a pattern. *)
(*                                                                         *)
(* A path is a sequence of characters, of which only Slash and Star are    *)
(* told apart from the others.  A parsed path is the sequence of its       *)
(* segments.                                                               *)
(***************************************************************************)
EXTENDS Integers, Sequences

Slash == "/"
Star == "*"

\* Mutation of strip: a leading slash is not skipped.
strip_end(s) == IF s # <<>> /\ s[Len(s)] = Slash THEN SubSeq(s, 1, Len(s) - 1) ELSE s

\* One leading and one trailing slash are skipped.
strip(s) ==
    LET t == IF s # <<>> /\ Head(s) = Slash THEN Tail(s) ELSE s
    IN  IF t # <<>> /\ t[Len(t)] = Slash THEN SubSeq(t, 1, Len(t) - 1) ELSE t

\* The loop of parse_segments after n characters: a slash ends a segment,
\* empty or not.
Scan(t) ==
    LET scan[n \in 0 .. Len(t)] ==
            IF n = 0 THEN [done |-> <<>>, rest |-> <<>>]
            ELSE LET before == scan[n - 1]
                 IN  IF t[n] = Slash
                     THEN [done |-> Append(before.done, before.rest), rest |-> <<>>]
                     ELSE [done |-> before.done, rest |-> Append(before.rest, t[n])]
    IN  scan

\* What is left at the end is a segment unless it is empty.
parse_segments(s) ==
    LET t == strip(s)
        end == Scan(t)[Len(t)]
    IN  IF end.rest = <<>> THEN end.done ELSE Append(end.done, end.rest)

\* Segment by segment; Star stands for any one segment of the path.
matches(path, pattern) ==
    /\ Len(pattern) = Len(path)
    /\ \A i \in DOMAIN pattern : pattern[i] = <<Star>> \/ pattern[i] = path[i]
=============================================================================
