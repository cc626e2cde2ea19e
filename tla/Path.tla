---------------------------------- MODULE Path ----------------------------------
(***************************************************************************)
(* path_t (src/helpers/path/path.c): a stack of segments and the string    *)
(* that is written from it.  A string is what lies between its slashes:    *)
(* "/a" is <<"", "a">>, "a//" is <<"a", "", "">> and "" is <<"">>.         *)
(***************************************************************************)
EXTENDS Integers, Sequences, FiniteSets

CONSTANTS
    PathStrings,  \* that the program makes paths of, joins and resolves
    PathBound     \* no path gets more segments

\* What may lie between slashes
Segments == {"", ".", ".."} \cup STRING

\* A string with n slashes has n + 1 parts.
ASSUME PathAssumption == PathStrings \subseteq Seq(Segments) \ {<<>>}

VARIABLE path

\* string_starts_with(string, "/")
starts_with_slash(string) == string[1] = "" /\ Len(string) > 1

\* A slip: ".." leaves the segment before it, whatever that is.
path_execute_leaving(segments, segment) ==
    CASE segment \in {"", "."} -> segments
      [] segment = ".." /\ segments # <<>> ->
           SubSeq(segments, 1, Len(segments) - 1)
      [] OTHER -> Append(segments, segment)

path_execute(segments, segment) ==
    CASE segment \in {"", "."} -> segments
      [] segment = ".." /\ segments # <<>> /\ segments[Len(segments)] # ".." ->
           SubSeq(segments, 1, Len(segments) - 1)
      [] OTHER -> Append(segments, segment)

\* path_update_string
path_update_string(self) ==
    LET written == IF self.segments = <<>> THEN <<"">> ELSE self.segments
    IN [self EXCEPT !.string =
          IF self.is_absolute THEN <<"">> \o written ELSE written]

\* What next_segment finds in turn; at the end of a string is no segment.
next_segments(string) ==
    IF string[Len(string)] = "" THEN SubSeq(string, 1, Len(string) - 1)
    ELSE string

path_join(self, string) ==
    LET next == next_segments(string)
        executed[i \in 0 .. Len(next)] ==
          IF i = 0 THEN self.segments
          ELSE path_execute(executed[i - 1], next[i])
    IN path_update_string([self EXCEPT !.segments = executed[Len(next)]])

make_path(string) ==
    path_join([segments |-> <<>>, string |-> <<>>,
               is_absolute |-> starts_with_slash(string)], string)

path_resolve(self, string) ==
    path_join(IF starts_with_slash(string)
              THEN [self EXCEPT !.is_absolute = TRUE, !.segments = <<>>]
              ELSE self,
              string)

\* path_string and path_equal read the string that is kept.
path_equal(x, y) == x.string = y.string

find_relative_index(from, to) ==
    LET differ == {i \in 1 .. Len(from.segments) :
                     \/ i > Len(to.segments)
                     \/ from.segments[i] # to.segments[i]}
    IN IF differ = {} THEN Len(from.segments)
       ELSE (CHOOSE i \in differ : \A j \in differ : i <= j) - 1

path_relative(from, to) ==
    LET index == find_relative_index(from, to)
        up == [i \in 1 .. Len(from.segments) - index |-> ".."]
        down == SubSeq(to.segments, index + 1, Len(to.segments))
    IN path_update_string([make_path(<<"">>) EXCEPT !.segments = up \o down])

-----------------------------------------------------------------------------

Paths == {make_path(s) : s \in PathStrings}

PathInit == path \in Paths

Bounded == Len(path'.segments) <= PathBound

Join(s) == path' = path_join(path, s) /\ Bounded

Resolve(s) == path' = path_resolve(path, s) /\ Bounded

\* path_relative asserts that both are relative or both are absolute.
Relative(to) ==
    /\ path.is_absolute = to.is_absolute
    /\ path' = path_relative(path, to) /\ Bounded

\* path_copy
CopyPath == path' = make_path(path.string)

PathNext ==
    \/ \E s \in PathStrings : Join(s) \/ Resolve(s)
    \/ \E to \in Paths : Relative(to)
    \/ CopyPath

PathSpec == PathInit /\ [][PathNext]_path

-----------------------------------------------------------------------------

\* Up from where the paths part, which leads nowhere known if a ".." is there.
PartsBelowParent(from, to) ==
    \E i \in DOMAIN from :
      /\ from[i] = ".."
      /\ i > Len(to) \/ SubSeq(from, 1, i) # SubSeq(to, 1, i)

\* After any calls the relative path from a path to another one leads there when
\* it is resolved (path.c:175-217), however the two were written, unless where
\* they part the first one goes up to a parent whose name is not known: then it
\* does not, and path_relative does not tell.
RelativeLeadsThere ==
    \A to \in Paths :
      to.is_absolute = path.is_absolute =>
        (path_equal(path_resolve(path, path_relative(path, to).string), to)
           <=> ~ PartsBelowParent(path.segments, to.segments))
=============================================================================
