--------------------------- MODULE StatePathCheck ---------------------------
(***************************************************************************)
(* What subscriptions and capabilities rely on when they compare paths:    *)
(* checked for every path and pattern up to a length, put together one     *)
(* character at a time.                                                    *)
(***************************************************************************)
EXTENDS StatePaths
LOCAL INSTANCE SequencesExt

CONSTANTS
    PathChar,   \* the characters
    MaxPathLen  \* bound on the length of a path

ASSUME PathAssumption == Slash \in PathChar /\ MaxPathLen \in Nat

VARIABLES
    path_text,  \* the path
    pattern_text \* a pattern it is compared with

pathVars == <<path_text, pattern_text>>

PathInit == path_text = <<>> /\ pattern_text = <<>>

TypePath(c) ==
    /\ Len(path_text) < MaxPathLen
    /\ path_text' = Append(path_text, c)
    /\ UNCHANGED pattern_text

WritePattern(c) ==
    /\ Len(pattern_text) < MaxPathLen
    /\ pattern_text' = Append(pattern_text, c)
    /\ UNCHANGED path_text

PathNext == \E c \in PathChar : TypePath(c) \/ WritePattern(c)

PathSpec == PathInit /\ [][PathNext]_pathVars

\* However its slashes are placed, a path is the same path as the one with a
\* single slash before each non-empty segment, as long as it has no empty
\* segment inside: a slash in front, or one at the end, makes no difference
\* to what a subscription or a capability matches.
SlashesDoNotMatter ==
    LET segments == parse_segments(path_text)
        join == FoldLeft(LAMBDA acc, seg : acc \o <<Slash>> \o seg, <<>>, segments)
    IN  (\A i \in DOMAIN segments : segments[i] # <<>>) =>
            /\ parse_segments(join) = segments
            /\ parse_segments(Append(join, Slash)) = segments
            /\ segments # <<>> => parse_segments(Tail(join)) = segments

\* A pattern that matches another pattern is narrower: every path it matches
\* the other one matches as well.  The first thing attenuate asks of a child's
\* pattern has this sense; that it goes on to take any pattern with as many
\* segments as the parent's does not.
MatchingNarrows ==
    LET path == parse_segments(path_text)
        pattern == parse_segments(pattern_text)
        segments == ToSet(path) \cup ToSet(pattern) \cup {<<Star>>}
        others == UNION {[1 .. n -> segments] : n \in {Len(path), Len(pattern)}}
    IN  \A other \in others :
            matches(path, pattern) /\ matches(pattern, other) => matches(path, other)

\* What subscriptions and capabilities take for granted of parse_segments and
\* matches.
PathsCompare == SlashesDoNotMatter /\ MatchingNarrows
=============================================================================
