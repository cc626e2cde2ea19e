----------------------------- MODULE StringProofs -----------------------------
(***************************************************************************)
(* What holds of paths, texts and tokens for every string: a relative path *)
(* leads where it should; a text is read back from the string written of   *)
(* it; and the tokens of the lexer lie next to each other in the source at *)
(* the line and column they have, those that are integers with the value   *)
(* that is written there.                                                  *)
(***************************************************************************)
EXTENDS Path, Text, Lexer, Induction, FiniteSetTheorems, SequenceTheorems

-----------------------------------------------------------------------------
(* Paths *)

\* A string has at least one part.
Strings1 == Seq(Segments) \ {<<>>}

\* Segments that path_execute skips, and the one that takes a step up
Skipped(segment) == segment \in {"", "."}
IsUp(segment) == segment = ".."

\* What path_execute keeps: no segment is empty or ".", and ".." is only at the
\* beginning.
Normal == {s \in Seq(Segments) :
             /\ \A i \in 1 .. Len(s) : ~ Skipped(s[i])
             /\ \A i, j \in 1 .. Len(s) : i < j /\ IsUp(s[j]) => IsUp(s[i])}

\* What path_string returns
Written(segments) == IF segments = <<>> THEN <<"">> ELSE segments
StringOf(segments, is_absolute) ==
    IF is_absolute THEN <<"">> \o Written(segments) ELSE Written(segments)

\* A path is normal and its string is what path_string returns.
IsPath(self) ==
    /\ self.is_absolute \in BOOLEAN /\ self.segments \in Normal
    /\ self = [segments |-> self.segments,
               string |-> StringOf(self.segments, self.is_absolute),
               is_absolute |-> self.is_absolute]

PathIsNormal == IsPath(path)

\* g[i] is what the segments are when the first i of next are executed.
Executes(g, segments, next) ==
    /\ g \in [0 .. Len(next) -> Normal] /\ g[0] = segments
    /\ \A i \in 0 .. Len(next) : i < Len(next) => g[i + 1] = path_execute(g[i], next[i + 1])

\* The three things that path_execute does.
LEMMA ExecuteIs ==
    ASSUME NEW s, NEW x
    PROVE  /\ Skipped(x) => path_execute(s, x) = s
           /\ IsUp(x) /\ s # <<>> /\ ~ IsUp(s[Len(s)])
                => path_execute(s, x) = SubSeq(s, 1, Len(s) - 1)
           /\ ~ Skipped(x) /\ (~ IsUp(x) \/ s = <<>> \/ IsUp(s[Len(s)]))
                => path_execute(s, x) = Append(s, x)
BY DEF path_execute, Skipped, IsUp

\* A normal path is a sequence of segments, and so are its parts.
LEMMA NormalFacts ==
    ASSUME NEW s \in Normal
    PROVE  /\ s \in Seq(Segments) /\ Len(s) \in Nat /\ DOMAIN s = 1 .. Len(s)
           /\ \A i \in 1 .. Len(s) : s[i] \in Segments /\ ~ Skipped(s[i])
           /\ \A i, j \in 1 .. Len(s) : i < j /\ IsUp(s[j]) => IsUp(s[i])
<1>1. s \in Seq(Segments)
  BY DEF Normal
<1>2. Len(s) \in Nat /\ DOMAIN s = 1 .. Len(s) /\ \A i \in 1 .. Len(s) : s[i] \in Segments
  BY <1>1, LenProperties, ElementOfSeq
<1> QED BY <1>1, <1>2 DEF Normal

\* Leaving off the last segments of a normal path leaves a normal one.
LEMMA PrefixNormal ==
    ASSUME NEW s \in Normal, NEW n \in 0 .. Len(s)
    PROVE  /\ SubSeq(s, 1, n) \in Normal /\ Len(SubSeq(s, 1, n)) = n
           /\ \A i \in 1 .. n : SubSeq(s, 1, n)[i] = s[i]
<1>0. /\ s \in Seq(Segments) /\ Len(s) \in Nat
      /\ \A i \in 1 .. Len(s) : s[i] \in Segments /\ ~ Skipped(s[i])
      /\ \A i, j \in 1 .. Len(s) : i < j /\ IsUp(s[j]) => IsUp(s[i])
  BY NormalFacts
<1>1. \A i \in 1 .. n : s[i] \in Segments
  BY <1>0
<1>2. SubSeq(s, 1, n) \in Seq(Segments) /\ Len(SubSeq(s, 1, n)) = n
      /\ \A i \in 1 .. n : SubSeq(s, 1, n)[i] = s[i]
  BY <1>0, <1>1, SubSeqProperties
<1>3. \A i \in 1 .. n : ~ Skipped(SubSeq(s, 1, n)[i])
  BY <1>0, <1>2
<1>4. \A i, j \in 1 .. n : i < j /\ IsUp(SubSeq(s, 1, n)[j]) => IsUp(SubSeq(s, 1, n)[i])
  BY <1>0, <1>2
<1> QED BY <1>2, <1>3, <1>4 DEF Normal

\* path_execute leaves a normal path normal, whatever the segment.
LEMMA ExecuteNormal ==
    ASSUME NEW s \in Normal, NEW x \in Segments
    PROVE  path_execute(s, x) \in Normal
<1>0. /\ s \in Seq(Segments) /\ Len(s) \in Nat
      /\ \A i \in 1 .. Len(s) : s[i] \in Segments /\ ~ Skipped(s[i])
      /\ \A i, j \in 1 .. Len(s) : i < j /\ IsUp(s[j]) => IsUp(s[i])
  BY NormalFacts
<1>1. CASE Skipped(x)
  BY <1>1, ExecuteIs
<1>2. CASE IsUp(x) /\ s # <<>> /\ ~ IsUp(s[Len(s)])
  <2>1. Len(s) - 1 \in 0 .. Len(s)
    BY <1>0, <1>2, EmptySeq
  <2>2. path_execute(s, x) = SubSeq(s, 1, Len(s) - 1)
    BY <1>2, ExecuteIs
  <2>3. SubSeq(s, 1, Len(s) - 1) \in Normal
    BY <2>1, PrefixNormal
  <2> QED BY <2>2, <2>3
<1>3. CASE ~ Skipped(x) /\ (~ IsUp(x) \/ s = <<>> \/ IsUp(s[Len(s)]))
  <2>1. path_execute(s, x) = Append(s, x)
    BY <1>3, ExecuteIs
  <2>2. /\ Append(s, x) \in Seq(Segments) /\ Len(Append(s, x)) = Len(s) + 1
        /\ \A i \in 1 .. Len(s) : Append(s, x)[i] = s[i]
        /\ Append(s, x)[Len(s) + 1] = x
    BY <1>0, AppendProperties
  <2>3. ASSUME IsUp(x), NEW i \in 1 .. Len(s) PROVE IsUp(s[i])
    <3>1. IsUp(s[Len(s)]) /\ Len(s) \in 1 .. Len(s)
      BY <1>0, <1>3, <2>3, EmptySeq
    <3> QED BY <1>0, <3>1
  <2>4. \A i \in 1 .. Len(s) + 1 : ~ Skipped(Append(s, x)[i])
    BY <1>0, <1>3, <2>2
  <2>5. ASSUME NEW i \in 1 .. Len(s) + 1, NEW j \in 1 .. Len(s) + 1, i < j,
               IsUp(Append(s, x)[j])
        PROVE  IsUp(Append(s, x)[i])
    <3>1. i \in 1 .. Len(s)
      BY <1>0, <2>5
    <3>2. CASE j = Len(s) + 1
      BY <2>2, <2>3, <2>5, <3>1, <3>2
    <3>3. CASE j \in 1 .. Len(s)
      BY <1>0, <2>2, <2>5, <3>1, <3>3
    <3> QED BY <1>0, <3>2, <3>3
  <2> QED BY <2>1, <2>2, <2>4, <2>5 DEF Normal
<1> QED BY <1>1, <1>2, <1>3

\* The segments that path_join executes.
LEMMA NextIs ==
    ASSUME NEW string \in Strings1
    PROVE  next_segments(string) \in Seq(Segments) /\ Len(next_segments(string)) \in Nat
<1>1. string \in Seq(Segments) /\ Len(string) \in Nat
  BY LenProperties DEF Strings1
<1>2. \A i \in 1 .. Len(string) - 1 : string[i] \in Segments
  BY <1>1, ElementOfSeq
<1>3. SubSeq(string, 1, Len(string) - 1) \in Seq(Segments)
  BY <1>1, <1>2, SubSeqProperties
<1> QED BY <1>1, <1>3, LenProperties DEF next_segments

\* path_join executes them one after the other.
LEMMA JoinExecutes ==
    ASSUME NEW self, self.segments \in Normal, NEW string \in Strings1
    PROVE  \E g : /\ Executes(g, self.segments, next_segments(string))
                  /\ path_join(self, string) =
                       path_update_string([self EXCEPT !.segments = g[Len(next_segments(string))]])
<1>1. PICK next : next = next_segments(string)
  OBVIOUS
<1>2. next \in Seq(Segments)
  BY <1>1, NextIs
<1>3. PICK N \in Nat : N = Len(next)
  BY <1>2, LenProperties
<1> DEFINE V == Normal
           base == self.segments
           step == [x \in V \X Nat |-> IF x[2] \in 1 .. N THEN path_execute(x[1], next[x[2]])
                                       ELSE x[1]]
           Loops(u) == u = [i \in 0 .. N |-> IF i = 0 THEN base
                                             ELSE path_execute(u[i - 1], next[i])]
<1>4. step \in Steps(V)
  <2>1. \A i \in 1 .. N : next[i] \in Segments
    BY <1>2, <1>3, ElementOfSeq
  <2>2. ASSUME NEW x \in V \X Nat
        PROVE  (IF x[2] \in 1 .. N THEN path_execute(x[1], next[x[2]]) ELSE x[1]) \in V
    BY <2>1, ExecuteNormal
  <2> HIDE DEF V
  <2> QED BY <2>2 DEF Steps
<1>5. PICK f : Follows(f, V, base, step, N)
  <2>1. base \in V
    OBVIOUS
  <2> HIDE DEF V, step, base
  <2> QED BY <1>4, <2>1, RecursionExists
<1>6. f \in [0 .. N -> V] /\ f[0] = base
      /\ \A i \in 0 .. N : i < N => f[i + 1] = path_execute(f[i], next[i + 1])
  <2>1. /\ f \in [0 .. N -> V] /\ f[0] = base
        /\ \A i \in 0 .. N : i < N => f[i + 1] = step[<<f[i], i + 1>>]
    BY <1>5 DEF Follows
  <2>2. ASSUME NEW i \in 0 .. N, i < N PROVE f[i + 1] = path_execute(f[i], next[i + 1])
    <3>1. f[i] \in V /\ i + 1 \in 1 .. N /\ i + 1 \in Nat
      BY <2>1, <2>2
    <3>2. step[<<f[i], i + 1>>] = path_execute(f[i], next[i + 1])
      <4> HIDE DEF V
      <4> QED BY <3>1
    <3> HIDE DEF step
    <3> QED BY <2>1, <2>2, <3>2
  <2> QED BY <2>1, <2>2
<1> HIDE DEF step, V
<1>7. Loops(f)
  <2>1. ASSUME NEW i \in 0 .. N
        PROVE  f[i] = IF i = 0 THEN base ELSE path_execute(f[i - 1], next[i])
    <3>1. CASE i = 0
      BY <1>6, <3>1
    <3>2. CASE i # 0
      <4>1. i - 1 \in 0 .. N /\ i - 1 < N /\ (i - 1) + 1 = i
        BY <1>3, <3>2
      <4>2. f[(i - 1) + 1] = path_execute(f[i - 1], next[(i - 1) + 1])
        BY <1>6, <4>1
      <4> QED BY <3>2, <4>1, <4>2
    <3> QED BY <3>1, <3>2
  <2> QED BY <1>6, <2>1
<1>8. PICK g : Loops(g) /\ path_join(self, string) = path_update_string([self EXCEPT !.segments = g[N]])
  <2>1. Loops(CHOOSE u : Loops(u))
    <3> HIDE DEF Loops
    <3> QED BY <1>7
  <2>2. path_join(self, string) = path_update_string([self EXCEPT !.segments = (CHOOSE u : Loops(u))[N]])
    BY <1>1, <1>3, Zenon DEF path_join
  <2> HIDE DEF Loops
  <2> QED BY <2>1, <2>2
<1>9. g[0] = base /\ \A i \in 0 .. N : i < N => g[i + 1] = path_execute(g[i], next[i + 1])
  <2>1. 0 \in 0 .. N
    BY <1>3
  <2>2. g[0] = base
    BY <1>8, <2>1
  <2>3. ASSUME NEW i \in 0 .. N, i < N PROVE g[i + 1] = path_execute(g[i], next[i + 1])
    <3>1. i + 1 \in 0 .. N /\ i + 1 # 0 /\ (i + 1) - 1 = i
      BY <1>3, <2>3
    <3>2. g[i + 1] = path_execute(g[(i + 1) - 1], next[i + 1])
      BY <1>8, <3>1
    <3> QED BY <3>1, <3>2
  <2> QED BY <2>2, <2>3
<1>10. \A i \in 0 .. N : g[i] \in Normal
  <2> DEFINE S == {i \in 0 .. N : g[i] \in Normal}
  <2>1. 0 \in S
    BY <1>3, <1>9
  <2>2. ASSUME NEW i \in 0 .. N, i < N /\ i \in S PROVE i + 1 \in S
    <3>1. next[i + 1] \in Segments
      BY <1>2, <1>3, <2>2, ElementOfSeq
    <3>2. path_execute(g[i], next[i + 1]) \in Normal
      BY <2>2, <3>1, ExecuteNormal
    <3> QED BY <1>3, <1>9, <2>2, <3>2
  <2>3. \A i \in 0 .. N : i \in S
    <3> HIDE DEF S
    <3> QED BY <2>1, <2>2, IntervalInduction
  <2> QED BY <2>3
<1>11. g \in [0 .. N -> Normal]
  BY <1>8, <1>10
<1> QED BY <1>1, <1>3, <1>8, <1>9, <1>11 DEF Executes

\* path_update_string, of the record.
LEMMA UpdateIs ==
    ASSUME NEW segments, NEW old, NEW is_absolute
    PROVE  path_update_string([segments |-> segments, string |-> old,
                               is_absolute |-> is_absolute]) =
             [segments |-> segments, string |-> StringOf(segments, is_absolute),
              is_absolute |-> is_absolute]
<1>1. PICK self : self = [segments |-> segments, string |-> old, is_absolute |-> is_absolute]
  OBVIOUS
<1>2. path_update_string(self) =
        [self EXCEPT !.string = StringOf(self.segments, self.is_absolute)]
  BY Zenon DEF path_update_string, StringOf, Written
<1> QED BY <1>1, <1>2

\* The record with other segments and the string that goes with them.
LEMMA NewSegments ==
    ASSUME NEW s, NEW old, NEW is_absolute, NEW r, NEW self,
           self = [segments |-> s, string |-> old, is_absolute |-> is_absolute]
    PROVE  path_update_string([self EXCEPT !.segments = r]) =
             [segments |-> r, string |-> StringOf(r, is_absolute), is_absolute |-> is_absolute]
<1>1. [self EXCEPT !.segments = r] =
        [segments |-> r, string |-> old, is_absolute |-> is_absolute]
  OBVIOUS
<1> QED BY <1>1, UpdateIs

\* path_join makes a path of a path.
LEMMA JoinIsPath ==
    ASSUME NEW segments \in Normal, NEW is_absolute \in BOOLEAN, NEW old,
           NEW string \in Strings1, NEW self,
           self = [segments |-> segments, string |-> old, is_absolute |-> is_absolute]
    PROVE  \E g : /\ Executes(g, segments, next_segments(string))
                  /\ g[Len(next_segments(string))] \in Normal
                  /\ path_join(self, string) =
                       [segments |-> g[Len(next_segments(string))],
                        string |-> StringOf(g[Len(next_segments(string))], is_absolute),
                        is_absolute |-> is_absolute]
<1>1. self.segments = segments
  OBVIOUS
<1>2. PICK n : n = Len(next_segments(string))
  OBVIOUS
<1>3. PICK g : /\ Executes(g, segments, next_segments(string))
               /\ path_join(self, string) = path_update_string([self EXCEPT !.segments = g[n]])
  BY <1>1, <1>2, JoinExecutes
<1>4. n \in Nat /\ g[n] \in Normal
  <2>1. n \in Nat
    BY <1>2, NextIs
  <2> QED BY <1>2, <1>3, <2>1 DEF Executes
<1>5. path_update_string([self EXCEPT !.segments = g[n]]) =
        [segments |-> g[n], string |-> StringOf(g[n], is_absolute), is_absolute |-> is_absolute]
  BY NewSegments
<1> QED BY <1>2, <1>3, <1>4, <1>5

\* make_path makes a path.
LEMMA MakeIsPath ==
    ASSUME NEW string \in Strings1
    PROVE  /\ IsPath(make_path(string))
           /\ make_path(string).is_absolute = starts_with_slash(string)
<1>1. <<>> \in Normal
  BY EmptySeq DEF Normal
<1>2. starts_with_slash(string) \in BOOLEAN
  BY DEF starts_with_slash
<1>3. PICK self : self = [segments |-> <<>>, string |-> <<>>,
                          is_absolute |-> starts_with_slash(string)]
  OBVIOUS
<1>4. make_path(string) = path_join(self, string)
  BY <1>3 DEF make_path
<1>5. PICK s \in Normal : path_join(self, string) =
        [segments |-> s, string |-> StringOf(s, starts_with_slash(string)),
         is_absolute |-> starts_with_slash(string)]
  <2>1. PICK g : /\ g[Len(next_segments(string))] \in Normal
                 /\ path_join(self, string) =
                      [segments |-> g[Len(next_segments(string))],
                       string |-> StringOf(g[Len(next_segments(string))],
                                           starts_with_slash(string)),
                       is_absolute |-> starts_with_slash(string)]
    BY <1>1, <1>2, <1>3, JoinIsPath
  <2> QED BY <2>1
<1> QED BY <1>2, <1>4, <1>5 DEF IsPath

\* s is what is left of a, whose first D segments are "..", after k steps up.
Climbed(s, a, D, k) ==
    /\ s \in Normal
    /\ k <= Len(a) - D => s = SubSeq(a, 1, Len(a) - k)
    /\ k > Len(a) - D => /\ Len(s) = 2 * D + k - Len(a)
                         /\ \A i \in 1 .. Len(s) : IsUp(s[i])

\* Another ".." behind nothing but "..".
LEMMA AppendsUp ==
    ASSUME NEW s \in Normal, \A i \in 1 .. Len(s) : IsUp(s[i]), NEW u \in Segments, IsUp(u)
    PROVE  /\ path_execute(s, u) \in Normal /\ Len(path_execute(s, u)) = Len(s) + 1
           /\ \A i \in 1 .. Len(s) + 1 : IsUp(path_execute(s, u)[i])
<1>0. s \in Seq(Segments) /\ Len(s) \in Nat
  BY NormalFacts
<1>1. ~ Skipped(u)
  BY DEF Skipped, IsUp
<1>2. s = <<>> \/ IsUp(s[Len(s)])
  BY <1>0, EmptySeq
<1>3. path_execute(s, u) = Append(s, u)
  BY <1>1, <1>2, ExecuteIs
<1>4. /\ Len(Append(s, u)) = Len(s) + 1
      /\ \A i \in 1 .. Len(s) : Append(s, u)[i] = s[i]
      /\ Append(s, u)[Len(s) + 1] = u
  BY <1>0, AppendProperties
<1>5. \A i \in 1 .. Len(s) + 1 : IsUp(Append(s, u)[i])
  BY <1>0, <1>4
<1> QED BY <1>3, <1>4, <1>5, ExecuteNormal

\* Executing n times ".." takes off n names, and goes above what there is.
LEMMA Climbs ==
    ASSUME NEW a \in Normal, NEW D \in 0 .. Len(a),
           \A i \in 1 .. D : IsUp(a[i]), \A i \in D + 1 .. Len(a) : ~ IsUp(a[i]),
           NEW u \in Segments, IsUp(u), NEW m \in 0 .. Len(a), NEW g, g[0] = a,
           \A k \in 0 .. m : k < m => g[k + 1] = path_execute(g[k], u)
    PROVE  Climbed(g[m], a, D, m)
<1>0. a \in Seq(Segments) /\ Len(a) \in Nat
  BY NormalFacts
<1> DEFINE S == {k \in 0 .. m : Climbed(g[k], a, D, k)}
<1>1. 0 \in S
  <2>1. SubSeq(a, 1, Len(a) - 0) = a
    BY <1>0, SubSeqFull
  <2>2. 0 <= Len(a) - D /\ 0 \in 0 .. m
    BY <1>0
  <2> QED BY <1>0, <2>1, <2>2 DEF Climbed
<1>2. ASSUME NEW k \in 0 .. m, k < m /\ k \in S PROVE k + 1 \in S
  <2>1. PICK s : s = g[k]
    OBVIOUS
  <2>2. Climbed(s, a, D, k) /\ s \in Normal /\ g[k + 1] = path_execute(s, u)
    BY <1>2, <2>1 DEF Climbed
  <2>3. CASE k < Len(a) - D
    <3>1. PICK n : n = Len(a) - k
      OBVIOUS
    <3>2. n \in 1 .. Len(a) /\ n - 1 \in 0 .. Len(a) /\ n \in D + 1 .. Len(a)
      BY <1>0, <1>2, <2>3, <3>1
    <3>3. s = SubSeq(a, 1, n)
      BY <1>0, <2>2, <2>3, <3>1 DEF Climbed
    <3>4. Len(s) = n /\ s[n] = a[n]
      BY <3>2, <3>3, PrefixNormal
    <3>5. s # <<>> /\ ~ IsUp(s[Len(s)])
      BY <3>2, <3>4, EmptySeq
    <3>6. g[k + 1] = SubSeq(s, 1, n - 1)
      BY <2>2, <3>4, <3>5, ExecuteIs
    <3>7. SubSeq(s, 1, n - 1) = SubSeq(a, 1, n - 1)
      <4>1. /\ SubSeq(s, 1, n - 1) \in Normal /\ Len(SubSeq(s, 1, n - 1)) = n - 1
            /\ \A i \in 1 .. n - 1 : SubSeq(s, 1, n - 1)[i] = s[i]
        BY <2>2, <3>2, <3>4, PrefixNormal
      <4>2. /\ SubSeq(a, 1, n - 1) \in Normal /\ Len(SubSeq(a, 1, n - 1)) = n - 1
            /\ \A i \in 1 .. n - 1 : SubSeq(a, 1, n - 1)[i] = a[i]
        BY <3>2, PrefixNormal
      <4>3. \A i \in 1 .. n : s[i] = a[i]
        BY <3>2, <3>3, PrefixNormal
      <4>4. SubSeq(s, 1, n - 1) \in Seq(Segments) /\ SubSeq(a, 1, n - 1) \in Seq(Segments)
        BY <4>1, <4>2, NormalFacts
      <4>5. \A i \in 1 .. n - 1 : SubSeq(s, 1, n - 1)[i] = SubSeq(a, 1, n - 1)[i]
        BY <3>2, <4>1, <4>2, <4>3
      <4> QED BY <4>1, <4>2, <4>4, <4>5, SeqEqual, ZenonT(60)
    <3>8. n - 1 = Len(a) - (k + 1) /\ k + 1 <= Len(a) - D /\ k + 1 \in 0 .. m
      BY <1>0, <1>2, <2>3, <3>1
    <3>9. g[k + 1] \in Normal
      BY <2>2, ExecuteNormal
    <3>10. g[k + 1] = SubSeq(a, 1, Len(a) - (k + 1))
      BY <3>6, <3>7, <3>8
    <3>11. ~ (k + 1 > Len(a) - D)
      BY <1>0, <3>8
    <3> QED BY <3>8, <3>9, <3>10, <3>11 DEF Climbed
  <2>4. CASE k >= Len(a) - D
    <3>1. Len(s) = 2 * D + k - Len(a) /\ \A i \in 1 .. Len(s) : IsUp(s[i])
      <4>1. CASE k > Len(a) - D
        BY <2>2, <4>1 DEF Climbed
      <4>2. CASE k = Len(a) - D
        <5>1. s = SubSeq(a, 1, D)
          BY <1>0, <2>2, <4>2 DEF Climbed
        <5>2. Len(s) = D /\ \A i \in 1 .. D : s[i] = a[i]
          BY <5>1, PrefixNormal
        <5> QED BY <1>0, <4>2, <5>2
      <4> QED BY <1>0, <2>4, <4>1, <4>2
    <3>2. /\ g[k + 1] \in Normal /\ Len(g[k + 1]) = Len(s) + 1
          /\ \A i \in 1 .. Len(s) + 1 : IsUp(g[k + 1][i])
      BY <2>2, <3>1, AppendsUp, ZenonT(60)
    <3>3. k + 1 \in 0 .. m /\ k + 1 > Len(a) - D /\ Len(s) + 1 = 2 * D + (k + 1) - Len(a)
      BY <1>0, <1>2, <2>4, <3>1
    <3>4. ~ (k + 1 <= Len(a) - D)
      BY <1>0, <3>3
    <3>5. Climbed(g[k + 1], a, D, k + 1)
      BY <3>2, <3>3, <3>4 DEF Climbed
    <3> QED BY <3>3, <3>5
  <2> QED BY <1>0, <1>2, <2>3, <2>4
<1>3. \A k \in 0 .. m : k \in S
  <2> HIDE DEF S
  <2>1. m \in Nat
    BY <1>0
  <2> QED BY <1>1, <1>2, <2>1, IntervalInduction
<1>4. m \in 0 .. m
  BY <1>0
<1> QED BY <1>3, <1>4

\* s is base followed by the segments of b after the first n, up to n + j.
Descended(s, base, b, n, j) ==
    /\ s \in Normal /\ Len(s) = Len(base) + j
    /\ \A i \in 1 .. Len(base) : s[i] = base[i]
    /\ \A i \in 1 .. j : s[Len(base) + i] = b[n + i]

\* Executing the names of a normal path appends them.
LEMMA Descends ==
    ASSUME NEW b \in Normal, NEW n \in 0 .. Len(b), NEW base \in Normal,
           \/ base = <<>> \/ IsUp(base[Len(base)])
           \/ n = Len(b) \/ ~ IsUp(b[n + 1]),
           NEW h, h[0] = base,
           \A j \in 0 .. Len(b) - n : j < Len(b) - n => h[j + 1] = path_execute(h[j], b[n + j + 1])
    PROVE  Descended(h[Len(b) - n], base, b, n, Len(b) - n)
<1>0. /\ b \in Seq(Segments) /\ Len(b) \in Nat /\ base \in Seq(Segments) /\ Len(base) \in Nat
      /\ \A i \in 1 .. Len(b) : b[i] \in Segments /\ ~ Skipped(b[i])
      /\ \A i, j \in 1 .. Len(b) : i < j /\ IsUp(b[j]) => IsUp(b[i])
  BY NormalFacts
<1>1. PICK M \in Nat : M = Len(b) - n
  <2>1. Len(b) - n \in Nat
    BY <1>0
  <2> QED BY <2>1
<1> DEFINE S == {j \in 0 .. M : Descended(h[j], base, b, n, j)}
<1>2. 0 \in S
  BY <1>0, <1>1 DEF Descended
<1>3. ASSUME NEW j \in 0 .. M, j < M /\ j \in S PROVE j + 1 \in S
  <2>1. PICK s : s = h[j]
    OBVIOUS
  <2>2. /\ s \in Normal /\ Len(s) = Len(base) + j
        /\ \A i \in 1 .. Len(base) : s[i] = base[i]
        /\ \A i \in 1 .. j : s[Len(base) + i] = b[n + i]
    BY <1>3, <2>1 DEF Descended
  <2>3. PICK x : x = b[n + j + 1]
    OBVIOUS
  <2>4. n + j + 1 \in 1 .. Len(b) /\ x \in Segments /\ ~ Skipped(x)
    BY <1>0, <1>1, <1>3, <2>3
  <2>5. h[j + 1] = path_execute(s, x)
    BY <1>1, <1>3, <2>1, <2>3
  <2>6. ~ IsUp(x) \/ s = <<>> \/ IsUp(s[Len(s)])
    <3> SUFFICES ASSUME IsUp(x), s # <<>> PROVE IsUp(s[Len(s)])
      OBVIOUS
    <3>0. s \in Seq(Segments)
      BY <2>2, NormalFacts
    <3>1. CASE j = 0
      <4>1. Len(s) = Len(base) /\ s = base
        BY <1>0, <2>2, <3>0, <3>1, SeqEqual
      <4>2. n < Len(b) /\ x = b[n + 1]
        BY <1>0, <1>1, <1>3, <2>3, <3>1
      <4> QED BY <1>0, <4>1, <4>2
    <3>2. CASE j # 0
      <4>1. j \in 1 .. j /\ n + j \in 1 .. Len(b) /\ n + j < n + j + 1
        BY <1>0, <1>1, <1>3, <3>2
      <4>2. s[Len(base) + j] = b[n + j]
        BY <2>2, <4>1
      <4>3. IsUp(b[n + j])
        BY <1>0, <2>3, <2>4, <4>1
      <4> QED BY <2>2, <4>2, <4>3
    <3> QED BY <3>1, <3>2
  <2>7. path_execute(s, x) = Append(s, x)
    BY <2>4, <2>6, ExecuteIs
  <2>8. /\ Len(Append(s, x)) = Len(s) + 1
        /\ \A i \in 1 .. Len(s) : Append(s, x)[i] = s[i]
        /\ Append(s, x)[Len(s) + 1] = x
    <3>1. s \in Seq(Segments)
      BY <2>2, NormalFacts
    <3> QED BY <2>4, <3>1, AppendProperties
  <2>9. Append(s, x) \in Normal
    BY <2>2, <2>4, <2>7, ExecuteNormal
  <2>10. \A i \in 1 .. Len(base) : Append(s, x)[i] = base[i]
    BY <1>0, <2>2, <2>8
  <2>11. \A i \in 1 .. j + 1 : Append(s, x)[Len(base) + i] = b[n + i]
    <3>1. Append(s, x)[Len(base) + (j + 1)] = b[n + (j + 1)]
      BY <1>0, <2>2, <2>3, <2>8, SMTT(40)
    <3>2. ASSUME NEW i \in 1 .. j PROVE Append(s, x)[Len(base) + i] = b[n + i]
      <4>1. Len(base) + i \in 1 .. Len(s)
        BY <1>0, <2>2
      <4> QED BY <2>2, <2>8, <4>1
    <3>3. \A i \in 1 .. j + 1 : i \in 1 .. j \/ i = j + 1
      OBVIOUS
    <3> QED BY <3>1, <3>2, <3>3
  <2>12. j + 1 \in 0 .. M /\ Len(s) + 1 = Len(base) + (j + 1)
    BY <1>0, <1>1, <1>3, <2>2
  <2> QED BY <2>5, <2>7, <2>8, <2>9, <2>10, <2>11, <2>12 DEF Descended
<1>4. \A j \in 0 .. M : j \in S
  <2> HIDE DEF S
  <2> QED BY <1>2, <1>3, IntervalInduction
<1>5. M \in 0 .. M
  OBVIOUS
<1> QED BY <1>1, <1>4, <1>5

\* The first n segments of a and b are the same, and then they part.
PartsAfter(a, b, n) ==
    /\ n \in 0 .. Len(a) /\ n <= Len(b) /\ \A i \in 1 .. n : a[i] = b[i]
    /\ n < Len(a) => n + 1 > Len(b) \/ a[n + 1] # b[n + 1]

\* Where two paths part.
LEMMA IndexIs ==
    ASSUME NEW from, NEW to, from.segments \in Normal, to.segments \in Normal
    PROVE  PartsAfter(from.segments, to.segments, find_relative_index(from, to))
<1>1. PICK a \in Normal : a = from.segments
  OBVIOUS
<1>2. PICK b \in Normal : b = to.segments
  OBVIOUS
<1>3. Len(a) \in Nat /\ Len(b) \in Nat
  BY NormalFacts
<1>4. PICK F : F = {i \in 1 .. Len(a) : i > Len(b) \/ a[i] # b[i]}
  OBVIOUS
<1>5. find_relative_index(from, to) =
        IF F = {} THEN Len(a) ELSE (CHOOSE i \in F : \A j \in F : i <= j) - 1
  BY <1>1, <1>2, <1>4 DEF find_relative_index
<1>6. CASE F = {}
  <2>1. \A i \in 1 .. Len(a) : i <= Len(b) /\ a[i] = b[i]
    BY <1>3, <1>4, <1>6
  <2>2. Len(a) <= Len(b)
    <3>1. CASE Len(a) = 0
      BY <1>3, <3>1
    <3>2. CASE Len(a) # 0
      BY <1>3, <2>1, <3>2
    <3> QED BY <3>1, <3>2
  <2> QED BY <1>1, <1>2, <1>3, <1>5, <1>6, <2>1, <2>2 DEF PartsAfter
<1>7. CASE F # {}
  <2>1. F \subseteq Nat
    BY <1>3, <1>4
  <2>2. PICK i : i = CHOOSE k \in F : \A j \in F : k <= j
    OBVIOUS
  <2>3. i \in F /\ \A j \in F : i <= j
    BY <1>7, <2>1, <2>2, LeastOf
  <2>4. i \in 1 .. Len(a) /\ (i > Len(b) \/ a[i] # b[i])
    BY <1>4, <2>3
  <2>5. \A j \in 1 .. i - 1 : j <= Len(b) /\ a[j] = b[j]
    <3> SUFFICES ASSUME NEW j \in 1 .. i - 1, ~ (j <= Len(b) /\ a[j] = b[j]) PROVE FALSE
      OBVIOUS
    <3>1. j \in F
      BY <1>3, <1>4, <2>4
    <3> QED BY <2>3, <2>4, <3>1
  <2>6. i - 1 <= Len(b)
    <3>1. CASE i = 1
      BY <1>3, <3>1
    <3>2. CASE i # 1
      <4>1. i - 1 \in 1 .. i - 1
        BY <2>4, <3>2
      <4> QED BY <2>5, <4>1
    <3> QED BY <3>1, <3>2
  <2>7. find_relative_index(from, to) = i - 1
    BY <1>5, <1>7, <2>2
  <2>8. i - 1 \in 0 .. Len(a) /\ (i - 1) + 1 = i
    BY <1>3, <2>4
  <2> QED BY <1>1, <1>2, <2>4, <2>5, <2>6, <2>7, <2>8 DEF PartsAfter
<1> QED BY <1>6, <1>7

\* What path_relative makes: m steps up, and the segments of b after the first n.
Turns(r, m, b, n) ==
    /\ r \in Normal /\ Len(r) = m + (Len(b) - n)
    /\ \A i \in 1 .. m : r[i] = ".."
    /\ \A i \in 1 .. Len(b) - n : r[m + i] = b[n + i]

\* The segments of the relative path are as many ".." and then the names.
LEMMA RelativeIs ==
    ASSUME NEW from, NEW to, from.segments \in Normal, to.segments \in Normal
    PROVE  \E n, r : /\ PartsAfter(from.segments, to.segments, n)
                     /\ Turns(r, Len(from.segments) - n, to.segments, n)
                     /\ path_relative(from, to) = [segments |-> r, string |-> StringOf(r, FALSE),
                                                   is_absolute |-> FALSE]
<1>1. PICK a \in Normal : a = from.segments
  OBVIOUS
<1>2. PICK b \in Normal : b = to.segments
  OBVIOUS
<1>3. /\ Len(a) \in Nat /\ Len(b) \in Nat /\ b \in Seq(Segments)
      /\ \A i \in 1 .. Len(b) : b[i] \in Segments /\ ~ Skipped(b[i])
      /\ \A i, j \in 1 .. Len(b) : i < j /\ IsUp(b[j]) => IsUp(b[i])
  BY NormalFacts
<1>4. PICK n : n = find_relative_index(from, to)
  OBVIOUS
<1>5. PartsAfter(a, b, n)
  BY <1>1, <1>2, <1>4, IndexIs
<1>6. PICK u : u = ".."
  OBVIOUS
<1>7. u \in Segments /\ IsUp(u) /\ ~ Skipped(u)
  BY <1>6 DEF Segments, IsUp, Skipped
<1>8. PICK m \in Nat : m = Len(a) - n
  <2>1. Len(a) - n \in Nat
    BY <1>3, <1>5 DEF PartsAfter
  <2> QED BY <2>1
<1>9. n \in Nat /\ n <= Len(b)
  BY <1>3, <1>5 DEF PartsAfter
<1>10. PICK up : up = [i \in 1 .. m |-> u]
  OBVIOUS
<1>11. up \in Seq(Segments) /\ Len(up) = m /\ \A i \in 1 .. m : up[i] = u
  BY <1>7, <1>10
<1>12. PICK down : down = SubSeq(b, n + 1, Len(b))
  OBVIOUS
<1>13. /\ down \in Seq(Segments) /\ Len(down) = Len(b) - n
       /\ \A i \in 1 .. Len(b) - n : down[i] = b[n + i]
  <2>1. \A i \in n + 1 .. Len(b) : b[i] \in Segments
    BY <1>3, <1>9
  <2>2. /\ SubSeq(b, n + 1, Len(b)) \in Seq(Segments)
        /\ Len(SubSeq(b, n + 1, Len(b))) =
             IF n + 1 <= Len(b) THEN Len(b) - (n + 1) + 1 ELSE 0
        /\ \A i \in 1 .. Len(b) - (n + 1) + 1 :
             SubSeq(b, n + 1, Len(b))[i] = b[(n + 1) + i - 1]
    BY <1>3, <1>9, <2>1, SubSeqProperties
  <2>3. \A i \in 1 .. Len(b) - n : (n + 1) + i - 1 = n + i
    BY <1>9
  <2> QED BY <1>3, <1>9, <1>12, <2>2, <2>3
<1>14. PICK r : r = up \o down
  OBVIOUS
<1>15. /\ r \in Seq(Segments) /\ Len(r) = m + (Len(b) - n)
       /\ \A i \in 1 .. m + (Len(b) - n) : r[i] = IF i <= m THEN up[i] ELSE down[i - m]
  BY <1>11, <1>13, <1>14, ConcatProperties
<1>16. /\ \A i \in 1 .. m : r[i] = u
       /\ \A i \in 1 .. Len(b) - n : r[m + i] = b[n + i]
  <2>1. ASSUME NEW i \in 1 .. m PROVE r[i] = u
    BY <1>3, <1>9, <1>11, <1>15, SMTT(40)
  <2>2. ASSUME NEW i \in 1 .. Len(b) - n PROVE r[m + i] = b[n + i]
    <3>1. m + i \in 1 .. m + (Len(b) - n) /\ ~ (m + i <= m) /\ (m + i) - m = i
      BY <1>3, <1>9
    <3> QED BY <1>13, <1>15, <3>1
  <2> QED BY <2>1, <2>2
<1>17. \A i \in 1 .. Len(r) :
         i \in 1 .. m \/ \E k \in 1 .. Len(b) - n : i = m + k /\ n + k \in 1 .. Len(b)
  <2> SUFFICES ASSUME NEW i \in 1 .. Len(r), i \notin 1 .. m
               PROVE  \E k \in 1 .. Len(b) - n : i = m + k /\ n + k \in 1 .. Len(b)
    OBVIOUS
  <2>1. /\ i - m \in 1 .. Len(b) - n /\ i = m + (i - m)
        /\ n + (i - m) \in 1 .. Len(b)
    BY <1>3, <1>9, <1>15
  <2> QED BY <2>1
<1>18. r \in Normal
  <2>1. ASSUME NEW i \in 1 .. Len(r) PROVE ~ Skipped(r[i])
    <3>1. CASE i \in 1 .. m
      BY <1>7, <1>16, <3>1
    <3>2. ASSUME NEW k \in 1 .. Len(b) - n, i = m + k /\ n + k \in 1 .. Len(b)
          PROVE  ~ Skipped(r[i])
      BY <1>3, <1>16, <3>2
    <3> QED BY <1>17, <3>1, <3>2
  <2>2. ASSUME NEW i \in 1 .. Len(r), NEW j \in 1 .. Len(r), i < j, IsUp(r[j]) PROVE IsUp(r[i])
    <3>1. CASE i \in 1 .. m
      BY <1>7, <1>16, <3>1
    <3>2. ASSUME NEW k \in 1 .. Len(b) - n, i = m + k /\ n + k \in 1 .. Len(b)
          PROVE  IsUp(r[i])
      <4>1. j \notin 1 .. m
        BY <1>3, <1>9, <2>2, <3>2
      <4>2. PICK l \in 1 .. Len(b) - n : j = m + l /\ n + l \in 1 .. Len(b)
        BY <1>17, <4>1
      <4>3. r[i] = b[n + k] /\ r[j] = b[n + l]
        BY <1>16, <3>2, <4>2
      <4>4. n + k < n + l
        BY <1>9, <2>2, <3>2, <4>2
      <4> QED BY <1>3, <2>2, <3>2, <4>2, <4>3, <4>4
    <3> QED BY <1>17, <3>1, <3>2
  <2> QED BY <1>15, <2>1, <2>2 DEF Normal
<1>19. path_relative(from, to) = path_update_string([make_path(<<"">>) EXCEPT !.segments = r])
  BY <1>1, <1>2, <1>4, <1>6, <1>8, <1>10, <1>12, <1>14, Zenon DEF path_relative
<1>20. PICK s, old : make_path(<<"">>) = [segments |-> s, string |-> old, is_absolute |-> FALSE]
  <2>1. <<"">> \in Strings1
    <3>1. PICK e : e = ""
      OBVIOUS
    <3>2. e \in Segments
      BY <3>1 DEF Segments
    <3>3. <<e>> \in Seq(Segments) /\ <<e>> # <<>>
      BY <3>2
    <3> QED BY <3>1, <3>3 DEF Strings1
  <2>2. starts_with_slash(<<"">>) = FALSE
    BY DEF starts_with_slash
  <2> QED BY <2>1, <2>2, MakeIsPath DEF IsPath
<1>22. Turns(r, m, b, n)
  BY <1>6, <1>15, <1>16, <1>18 DEF Turns
<1>23. path_relative(from, to) = [segments |-> r, string |-> StringOf(r, FALSE),
                                  is_absolute |-> FALSE]
  <2>1. PICK e, no : e = make_path(<<"">>) /\ no = FALSE
    OBVIOUS
  <2>2. e = [segments |-> s, string |-> old, is_absolute |-> no]
    BY <1>20, <2>1
  <2>3. path_update_string([e EXCEPT !.segments = r]) =
          [segments |-> r, string |-> StringOf(r, no), is_absolute |-> no]
    BY <2>2, NewSegments
  <2>4. path_relative(from, to) = path_update_string([e EXCEPT !.segments = r])
    BY <1>19, <2>1, Zenon
  <2>5. path_relative(from, to) = [segments |-> r, string |-> StringOf(r, no), is_absolute |-> no]
    BY <2>3, <2>4, Zenon
  <2> QED BY <2>1, <2>5, Zenon
<1> QED BY <1>1, <1>2, <1>5, <1>8, <1>22, <1>23

\* The segments can be told from the string.
LEMMA WrittenIs ==
    ASSUME NEW s \in Normal
    PROVE  /\ Written(s) \in Strings1 /\ ~ starts_with_slash(Written(s))
           /\ next_segments(Written(s)) = s
<1>1. s \in Seq(Segments) /\ Len(s) \in Nat /\ \A i \in 1 .. Len(s) : ~ Skipped(s[i])
  BY NormalFacts
<1>2. PICK e : e = ""
  OBVIOUS
<1>3. e \in Segments
  BY <1>2 DEF Segments
<1>4. CASE s = <<>>
  <2>1. Written(s) = <<e>>
    BY <1>2, <1>4 DEF Written
  <2>2. <<e>> \in Seq(Segments) /\ <<e>> # <<>> /\ Len(<<e>>) = 1 /\ <<e>>[1] = e
    BY <1>3
  <2>3. SubSeq(<<e>>, 1, 1 - 1) = <<>>
    BY SubSeqEmpty
  <2>4. next_segments(<<e>>) = SubSeq(<<e>>, 1, 1 - 1)
    BY <1>2, <2>2, Zenon DEF next_segments
  <2>5. ~ (Len(<<e>>) > 1)
    BY <2>2
  <2>6. ~ starts_with_slash(<<e>>)
    BY <2>5, Zenon DEF starts_with_slash
  <2> QED BY <1>4, <2>1, <2>2, <2>3, <2>4, <2>6 DEF Strings1
<1>5. CASE s # <<>>
  <2>1. Written(s) = s
    BY <1>5 DEF Written
  <2>2. Len(s) \in 1 .. Len(s) /\ 1 \in 1 .. Len(s)
    BY <1>1, <1>5, EmptySeq
  <2>3. s[Len(s)] # e /\ s[1] # e
    <3>1. Skipped(e)
      BY <1>2 DEF Skipped
    <3> QED BY <1>1, <2>2, <3>1
  <2>4. next_segments(s) = s
    BY <1>2, <2>3, Zenon DEF next_segments
  <2>5. ~ starts_with_slash(s)
    BY <1>2, <2>3, Zenon DEF starts_with_slash
  <2> QED BY <1>1, <1>5, <2>1, <2>4, <2>5 DEF Strings1
<1> QED BY <1>4, <1>5

\* Different paths have different strings.
LEMMA StringsDiffer ==
    ASSUME NEW s \in Normal, NEW t \in Normal, NEW is_absolute \in BOOLEAN,
           StringOf(s, is_absolute) = StringOf(t, is_absolute)
    PROVE  s = t
<1>1. next_segments(Written(s)) = s /\ next_segments(Written(t)) = t
  BY WrittenIs
<1>2. Written(s) \in Seq(Segments) /\ Written(t) \in Seq(Segments)
  BY WrittenIs DEF Strings1
<1>3. Written(s) = Written(t)
  <2>1. CASE ~ is_absolute
    BY <2>1 DEF StringOf
  <2>2. CASE is_absolute
    <3>1. <<"">> \o Written(s) = <<"">> \o Written(t)
      BY <2>2 DEF StringOf
    <3>2. PICK e : e = ""
      OBVIOUS
    <3>3. <<e>> \in Seq(Segments)
      <4>1. e \in Segments
        BY <3>2 DEF Segments
      <4> QED BY <4>1
    <3>4. <<e>> \o Written(s) = <<e>> \o Written(t)
      BY <3>1, <3>2
    <3> QED BY <1>2, <3>3, <3>4, ConcatSimplifications
  <2> QED BY <2>1, <2>2
<1> QED BY <1>1, <1>3

\* The ".." of a normal path are counted by where they end.
LEMMA UpsCount ==
    ASSUME NEW a \in Normal
    PROVE  \E D \in 0 .. Len(a) : /\ \A i \in 1 .. D : IsUp(a[i])
                                  /\ \A i \in D + 1 .. Len(a) : ~ IsUp(a[i])
<1>1. /\ Len(a) \in Nat
      /\ \A i, j \in 1 .. Len(a) : i < j /\ IsUp(a[j]) => IsUp(a[i])
  BY NormalFacts
<1>2. PICK F : F = {i \in 1 .. Len(a) + 1 : i = Len(a) + 1 \/ ~ IsUp(a[i])}
  OBVIOUS
<1>3. Len(a) + 1 \in F /\ F \subseteq Nat
  BY <1>1, <1>2
<1>4. PICK e \in F : \A j \in F : e <= j
  BY <1>3, LeastOf
<1>5. e \in 1 .. Len(a) + 1 /\ (e = Len(a) + 1 \/ ~ IsUp(a[e]))
  BY <1>2, <1>4
<1>6. ASSUME NEW i \in 1 .. e - 1 PROVE IsUp(a[i])
  <2>1. i \in 1 .. Len(a) + 1 /\ ~ (e <= i) /\ i # Len(a) + 1
    BY <1>1, <1>5
  <2> QED BY <1>2, <1>4, <2>1
<1>7. ASSUME NEW i \in e .. Len(a) PROVE ~ IsUp(a[i])
  <2>1. e \in 1 .. Len(a) /\ i \in 1 .. Len(a) /\ ~ IsUp(a[e])
    BY <1>1, <1>5
  <2> QED BY <1>1, <2>1
<1>8. e - 1 \in 0 .. Len(a) /\ (e - 1) + 1 = e
  BY <1>1, <1>5
<1> QED BY <1>6, <1>7, <1>8

\* The paths part below every ".." of the first.
LEMMA PartsBelowIs ==
    ASSUME NEW a \in Normal, NEW b \in Normal, NEW n, PartsAfter(a, b, n), NEW D \in 0 .. Len(a),
           \A i \in 1 .. D : IsUp(a[i]), \A i \in D + 1 .. Len(a) : ~ IsUp(a[i])
    PROVE  PartsBelowParent(a, b) <=> n < D
<1>1. /\ Len(a) \in Nat /\ Len(b) \in Nat /\ DOMAIN a = 1 .. Len(a)
      /\ a \in Seq(Segments) /\ b \in Seq(Segments)
  BY NormalFacts
<1>2. /\ n \in 0 .. Len(a) /\ n <= Len(b) /\ \A i \in 1 .. n : a[i] = b[i]
      /\ n < Len(a) => n + 1 > Len(b) \/ a[n + 1] # b[n + 1]
  BY DEF PartsAfter
<1>3. ASSUME NEW i \in 1 .. Len(a), i <= Len(b)
      PROVE  SubSeq(a, 1, i) # SubSeq(b, 1, i) <=> i > n
  <2>1. /\ SubSeq(a, 1, i) \in Normal /\ Len(SubSeq(a, 1, i)) = i
        /\ \A j \in 1 .. i : SubSeq(a, 1, i)[j] = a[j]
    BY <1>1, PrefixNormal
  <2>2. /\ SubSeq(b, 1, i) \in Normal /\ Len(SubSeq(b, 1, i)) = i
        /\ \A j \in 1 .. i : SubSeq(b, 1, i)[j] = b[j]
    BY <1>1, <1>3, PrefixNormal
  <2>3. CASE i > n
    <3>1. n + 1 \in 1 .. i /\ n < Len(a) /\ ~ (n + 1 > Len(b))
      BY <1>1, <1>2, <1>3, <2>3
    <3> QED BY <1>2, <2>1, <2>2, <2>3, <3>1
  <2>4. CASE ~ (i > n)
    <3>1. \A j \in 1 .. i : SubSeq(a, 1, i)[j] = SubSeq(b, 1, i)[j]
      BY <1>2, <2>1, <2>2, <2>4
    <3>2. SubSeq(a, 1, i) \in Seq(Segments) /\ SubSeq(b, 1, i) \in Seq(Segments)
      BY <2>1, <2>2, NormalFacts
    <3> QED BY <2>1, <2>2, <2>4, <3>1, <3>2, SeqEqual
  <2> QED BY <2>3, <2>4
<1>4. PartsBelowParent(a, b) <=>
        \E i \in 1 .. Len(a) : IsUp(a[i]) /\ (i > Len(b) \/ SubSeq(a, 1, i) # SubSeq(b, 1, i))
  BY <1>1 DEF PartsBelowParent, IsUp
<1>5. \A i \in 1 .. Len(a) : (i > Len(b) \/ SubSeq(a, 1, i) # SubSeq(b, 1, i)) <=> i > n
  BY <1>1, <1>2, <1>3
<1>6. PartsBelowParent(a, b) <=> \E i \in 1 .. Len(a) : IsUp(a[i]) /\ i > n
  BY <1>4, <1>5
<1>7. \A i \in 1 .. Len(a) : IsUp(a[i]) <=> i <= D
  BY <1>1
<1> QED BY <1>1, <1>2, <1>6, <1>7

\* Where the turns of path_relative lead.
LEMMA TurnsLead ==
    ASSUME NEW a \in Normal, NEW b \in Normal, NEW n, PartsAfter(a, b, n),
           NEW r, Turns(r, Len(a) - n, b, n), NEW g, Executes(g, a, r)
    PROVE  g[Len(r)] = b <=> ~ PartsBelowParent(a, b)
<1>1. /\ Len(a) \in Nat /\ Len(b) \in Nat /\ a \in Seq(Segments) /\ b \in Seq(Segments)
      /\ \A i, j \in 1 .. Len(b) : i < j /\ IsUp(b[j]) => IsUp(b[i])
  BY NormalFacts
<1>2. /\ n \in 0 .. Len(a) /\ n <= Len(b) /\ \A i \in 1 .. n : a[i] = b[i]
  BY DEF PartsAfter
<1>3. PICK m \in Nat : m = Len(a) - n
  <2>1. Len(a) - n \in Nat
    BY <1>1, <1>2
  <2> QED BY <2>1
<1>4. PICK M \in Nat : M = Len(b) - n
  <2>1. Len(b) - n \in Nat
    BY <1>1, <1>2
  <2> QED BY <2>1
<1>5. PICK u : u = ".."
  OBVIOUS
<1>6. u \in Segments /\ IsUp(u)
  BY <1>5 DEF Segments, IsUp
<1>7. /\ Len(r) = m + M /\ \A i \in 1 .. m : r[i] = u
      /\ \A i \in 1 .. M : r[m + i] = b[n + i]
  BY <1>3, <1>4, <1>5 DEF Turns
<1>8. g[0] = a /\ \A i \in 0 .. m + M : i < m + M => g[i + 1] = path_execute(g[i], r[i + 1])
  BY <1>7 DEF Executes
<1>9. PICK D \in 0 .. Len(a) : /\ \A i \in 1 .. D : IsUp(a[i])
                               /\ \A i \in D + 1 .. Len(a) : ~ IsUp(a[i])
  BY UpsCount
<1>10. Climbed(g[m], a, D, m)
  <2>1. ASSUME NEW k \in 0 .. m, k < m PROVE g[k + 1] = path_execute(g[k], u)
    <3>1. k \in 0 .. m + M /\ k < m + M /\ k + 1 \in 1 .. m
      BY <2>1
    <3> QED BY <1>7, <1>8, <3>1
  <2>2. m \in 0 .. Len(a)
    BY <1>1, <1>2, <1>3
  <2> QED BY <1>6, <1>8, <1>9, <2>1, <2>2, Climbs
<1>11. PICK base \in Normal : base = g[m]
  BY <1>10 DEF Climbed
<1>12. Len(base) \in Nat /\ base \in Seq(Segments)
  BY NormalFacts
<1>13. n >= D => Len(base) = n /\ \A i \in 1 .. n : base[i] = b[i]
  <2> SUFFICES ASSUME n >= D PROVE Len(base) = n /\ \A i \in 1 .. n : base[i] = b[i]
    OBVIOUS
  <2>1. base = SubSeq(a, 1, n)
    <3>1. m <= Len(a) - D /\ Len(a) - m = n
      BY <1>1, <1>2, <1>3
    <3> QED BY <1>10, <1>11, <3>1 DEF Climbed
  <2>2. Len(SubSeq(a, 1, n)) = n /\ \A i \in 1 .. n : SubSeq(a, 1, n)[i] = a[i]
    BY <1>2, PrefixNormal
  <2> QED BY <1>2, <2>1, <2>2
<1>14. n < D => Len(base) = 2 * D - n /\ \A i \in 1 .. Len(base) : IsUp(base[i])
  <2> SUFFICES ASSUME n < D
               PROVE  Len(base) = 2 * D - n /\ \A i \in 1 .. Len(base) : IsUp(base[i])
    OBVIOUS
  <2>1. m > Len(a) - D /\ 2 * D + m - Len(a) = 2 * D - n
    BY <1>1, <1>2, <1>3
  <2> QED BY <1>10, <1>11, <2>1 DEF Climbed
<1>15. \/ base = <<>> \/ IsUp(base[Len(base)])
       \/ n = Len(b) \/ ~ IsUp(b[n + 1])
  <2>1. CASE n >= D
    <3> SUFFICES ASSUME base # <<>>, n # Len(b), IsUp(b[n + 1]) PROVE IsUp(base[Len(base)])
      OBVIOUS
    <3>1. Len(base) = n /\ n \in 1 .. n
      BY <1>12, <1>13, <2>1, EmptySeq
    <3>2. n \in 1 .. Len(b) /\ n + 1 \in 1 .. Len(b) /\ n < n + 1
      BY <1>1, <1>2, <3>1
    <3>3. IsUp(b[n])
      BY <1>1, <3>2
    <3> QED BY <1>13, <2>1, <3>1, <3>3
  <2>2. CASE n < D
    <3>1. Len(base) \in 1 .. Len(base)
      BY <1>1, <1>2, <1>14, <2>2
    <3> QED BY <1>14, <2>2, <3>1
  <2> QED BY <1>1, <1>2, <2>1, <2>2
<1>16. PICK h : h = [j \in 0 .. M |-> g[m + j]]
  OBVIOUS
<1>17. Descended(h[M], base, b, n, M)
  <2>1. h[0] = base
    BY <1>11, <1>16
  <2>2. ASSUME NEW j \in 0 .. M, j < M PROVE h[j + 1] = path_execute(h[j], b[n + j + 1])
    <3>1. /\ m + j \in 0 .. m + M /\ m + j < m + M /\ j + 1 \in 0 .. M /\ j + 1 \in 1 .. M
          /\ m + (j + 1) = (m + j) + 1 /\ n + (j + 1) = n + j + 1
      BY <1>1, <1>2, <2>2
    <3>2. g[(m + j) + 1] = path_execute(g[m + j], r[(m + j) + 1])
      BY <1>8, <3>1
    <3>3. r[m + (j + 1)] = b[n + (j + 1)]
      BY <1>7, <3>1
    <3>4. h[j + 1] = g[m + (j + 1)] /\ h[j] = g[m + j]
      BY <1>16, <3>1
    <3> QED BY <3>1, <3>2, <3>3, <3>4
  <2>3. n \in 0 .. Len(b)
    BY <1>1, <1>2
  <2> QED BY <1>4, <1>15, <2>1, <2>2, <2>3, Descends
<1>18. h[M] = g[Len(r)]
  BY <1>7, <1>16
<1>19. PICK s : s = g[Len(r)]
  OBVIOUS
<1>20. /\ s \in Normal /\ Len(s) = Len(base) + M
       /\ \A i \in 1 .. Len(base) : s[i] = base[i]
       /\ \A i \in 1 .. M : s[Len(base) + i] = b[n + i]
  BY <1>17, <1>18, <1>19 DEF Descended
<1>21. CASE n >= D
  <2>1. Len(s) = Len(b)
    <3>1. Len(base) = n
      BY <1>13, <1>21
    <3> QED BY <1>1, <1>2, <1>4, <1>20, <3>1
  <2>2. ASSUME NEW i \in 1 .. Len(b) PROVE s[i] = b[i]
    <3>1. CASE i <= n
      BY <1>13, <1>20, <1>21, <3>1
    <3>2. CASE i > n
      <4>1. i - n \in 1 .. M /\ n + (i - n) = i
        BY <1>1, <1>2, <1>4, <3>2
      <4> QED BY <1>13, <1>20, <1>21, <4>1
    <3> QED BY <1>1, <1>2, <3>1, <3>2
  <2>3. s = b
    BY <1>1, <1>20, <2>1, <2>2, NormalFacts, SeqEqual
  <2>4. ~ PartsBelowParent(a, b)
    BY <1>1, <1>2, <1>9, <1>21, PartsBelowIs, SMTT(40)
  <2> QED BY <1>19, <2>3, <2>4
<1>22. CASE n < D
  <2>1. Len(s) # Len(b)
    BY <1>1, <1>2, <1>4, <1>14, <1>20, <1>22
  <2>2. PartsBelowParent(a, b)
    BY <1>9, <1>22, PartsBelowIs
  <2> QED BY <1>19, <2>1, <2>2
<1> QED BY <1>1, <1>2, <1>21, <1>22

\* From any path, the relative path leads to the other.
LEMMA LeadsThere ==
    ASSUME NEW self, IsPath(self), NEW to, IsPath(to), to.is_absolute = self.is_absolute
    PROVE  path_equal(path_resolve(self, path_relative(self, to).string), to)
             <=> ~ PartsBelowParent(self.segments, to.segments)
<1> DEFINE a == self.segments
           b == to.segments
           abs == self.is_absolute
<1>1. /\ a \in Normal /\ b \in Normal /\ abs \in BOOLEAN
      /\ self = [segments |-> a, string |-> StringOf(a, abs), is_absolute |-> abs]
      /\ to.string = StringOf(b, abs)
  BY DEF IsPath
<1>2. PICK n, r : /\ PartsAfter(a, b, n) /\ Turns(r, Len(a) - n, b, n)
                  /\ path_relative(self, to) = [segments |-> r, string |-> StringOf(r, FALSE),
                                                is_absolute |-> FALSE]
  <2>1. self.segments \in Normal /\ to.segments \in Normal
    BY <1>1
  <2> HIDE DEF a, b
  <2>2. \E n, r : /\ PartsAfter(self.segments, to.segments, n)
                  /\ Turns(r, Len(self.segments) - n, to.segments, n)
                  /\ path_relative(self, to) = [segments |-> r, string |-> StringOf(r, FALSE),
                                                is_absolute |-> FALSE]
    BY <2>1, RelativeIs, Zenon
  <2> QED BY <2>2, Zenon DEF a, b
<1>3. r \in Normal
  BY <1>2 DEF Turns
<1>4. PICK w : w = path_relative(self, to).string
  OBVIOUS
<1>5. w = Written(r)
  <2>1. PICK v, no : v = StringOf(r, FALSE) /\ no = FALSE
    OBVIOUS
  <2>2. path_relative(self, to) = [segments |-> r, string |-> v, is_absolute |-> no]
    BY <1>2, <2>1, Zenon
  <2>3. w = v
    BY <1>4, <2>2
  <2> QED BY <2>1, <2>3 DEF StringOf
<1>6. w \in Strings1 /\ ~ starts_with_slash(w) /\ next_segments(w) = r
  BY <1>3, <1>5, WrittenIs
<1>7. path_resolve(self, w) = path_join(self, w)
  BY <1>6 DEF path_resolve
<1>8. PICK g : /\ Executes(g, a, r) /\ g[Len(r)] \in Normal
               /\ path_join(self, w) =
                    [segments |-> g[Len(r)], string |-> StringOf(g[Len(r)], abs),
                     is_absolute |-> abs]
  <2>1. PICK old : self = [segments |-> a, string |-> old, is_absolute |-> abs]
    BY <1>1
  <2> HIDE DEF a, abs
  <2>2. \E g : /\ Executes(g, a, next_segments(w))
               /\ g[Len(next_segments(w))] \in Normal
               /\ path_join(self, w) =
                       [segments |-> g[Len(next_segments(w))],
                        string |-> StringOf(g[Len(next_segments(w))], abs),
                        is_absolute |-> abs]
    <3>1. PICK c \in Normal, yes \in BOOLEAN : c = a /\ yes = abs
      BY <1>1
    <3>2. self = [segments |-> c, string |-> old, is_absolute |-> yes]
      BY <2>1, <3>1
    <3> QED BY <1>6, <3>1, <3>2, JoinIsPath
  <2> QED BY <1>6, <2>2, Zenon
<1>9. PICK s \in Normal : s = g[Len(r)]
  BY <1>8
<1>10. path_join(self, w).string = StringOf(s, abs)
  <2>1. PICK v : v = StringOf(s, abs)
    OBVIOUS
  <2>2. path_join(self, w) = [segments |-> s, string |-> v, is_absolute |-> abs]
    BY <1>8, <1>9, <2>1, Zenon
  <2> QED BY <2>1, <2>2
<1>11. path_equal(path_resolve(self, w), to) <=> StringOf(s, abs) = StringOf(b, abs)
  BY <1>1, <1>7, <1>10, Zenon DEF path_equal
<1>12. path_equal(path_resolve(self, w), to) <=> s = b
  <2> HIDE DEF b, abs
  <2> QED BY <1>1, <1>11, StringsDiffer
<1>13. s = b <=> ~ PartsBelowParent(a, b)
  <2> HIDE DEF a, b
  <2> QED BY <1>1, <1>2, <1>8, <1>9, TurnsLead
<1> QED BY <1>4, <1>12, <1>13, Zenon

\* What paths are made of.
LEMMA PathStringsAre == PathStrings \subseteq Strings1
  BY PathAssumption DEF Strings1

\* path_join of a path and a string, as the action has it.
LEMMA JoinedIsPath ==
    ASSUME NEW self, NEW s \in Normal, NEW old, NEW is_absolute \in BOOLEAN,
           self = [segments |-> s, string |-> old, is_absolute |-> is_absolute],
           NEW string \in Strings1
    PROVE  IsPath(path_join(self, string))
<1>1. PICK g : /\ g[Len(next_segments(string))] \in Normal
               /\ path_join(self, string) =
                    [segments |-> g[Len(next_segments(string))],
                     string |-> StringOf(g[Len(next_segments(string))], is_absolute),
                     is_absolute |-> is_absolute]
  BY JoinIsPath
<1>2. PICK t \in Normal : path_join(self, string) =
        [segments |-> t, string |-> StringOf(t, is_absolute), is_absolute |-> is_absolute]
  BY <1>1
<1> QED BY <1>2 DEF IsPath

\* The record that path_resolve begins with.
LEMMA FromRoot ==
    ASSUME NEW s, NEW old, NEW is_absolute, NEW yes, NEW none, NEW self,
           self = [segments |-> s, string |-> old, is_absolute |-> is_absolute]
    PROVE  [self EXCEPT !.is_absolute = yes, !.segments = none] =
             [segments |-> none, string |-> old, is_absolute |-> yes]
<1>1. PICK e : e = [self EXCEPT !.is_absolute = yes]
  OBVIOUS
<1>2. e = [segments |-> s, string |-> old, is_absolute |-> yes]
  BY <1>1
<1>3. [e EXCEPT !.segments = none] = [segments |-> none, string |-> old, is_absolute |-> yes]
  BY <1>2
<1>4. [self EXCEPT !.is_absolute = yes, !.segments = none] = [e EXCEPT !.segments = none]
  BY <1>1, Zenon
<1> QED BY <1>3, <1>4

\* path_resolve makes a path of a path.
LEMMA ResolveIsPath ==
    ASSUME NEW self, IsPath(self), NEW string \in Strings1
    PROVE  IsPath(path_join(self, string)) /\ IsPath(path_resolve(self, string))
<1>1. PICK a \in Normal : a = self.segments
  BY DEF IsPath
<1>2. PICK is_absolute \in BOOLEAN : is_absolute = self.is_absolute
  BY DEF IsPath
<1>3. PICK old : self = [segments |-> a, string |-> old, is_absolute |-> is_absolute]
  BY <1>1, <1>2 DEF IsPath
<1>4. IsPath(path_join(self, string))
  BY <1>3, JoinedIsPath
<1>5. CASE ~ starts_with_slash(string)
  BY <1>4, <1>5 DEF path_resolve
<1>6. CASE starts_with_slash(string)
  <2>1. PICK yes \in BOOLEAN : yes = TRUE
    OBVIOUS
  <2>2. PICK none \in Normal : none = <<>>
    <3>1. <<>> \in Normal
      BY EmptySeq DEF Normal
    <3> QED BY <3>1
  <2>3. PICK e : e = [self EXCEPT !.is_absolute = yes, !.segments = none]
    OBVIOUS
  <2>4. e = [segments |-> none, string |-> old, is_absolute |-> yes]
    BY <1>3, <2>3, FromRoot
  <2>5. path_resolve(self, string) = path_join(e, string)
    BY <1>6, <2>1, <2>2, <2>3, Zenon DEF path_resolve
  <2>6. IsPath(path_join(e, string))
    BY <2>4, JoinedIsPath
  <2> QED BY <1>4, <2>5, <2>6
<1> QED BY <1>5, <1>6

\* The string of a path.
LEMMA PathStringIs ==
    ASSUME NEW s \in Normal, NEW is_absolute \in BOOLEAN
    PROVE  StringOf(s, is_absolute) \in Strings1
<1>1. Written(s) \in Seq(Segments) /\ Written(s) # <<>>
  BY WrittenIs DEF Strings1
<1>2. PICK e : e = ""
  OBVIOUS
<1>3. e \in Segments
  BY <1>2 DEF Segments
<1>4. <<e>> \o Written(s) \in Seq(Segments) /\ <<e>> \o Written(s) # <<>>
  BY <1>1, <1>3
<1>5. <<"">> \o Written(s) = <<e>> \o Written(s)
  BY <1>2
<1>6. CASE is_absolute
  BY <1>4, <1>5, <1>6 DEF StringOf, Strings1
<1>7. CASE ~ is_absolute
  BY <1>1, <1>7 DEF StringOf, Strings1
<1> QED BY <1>6, <1>7

\* Whatever is called, the segments of a path are normal and its string is what
\* is written from them: nothing that path_execute would skip stays, and each
\* ".." is before every name.
THEOREM PathInvariant == PathSpec => []PathIsNormal
<1>1. PathInit => PathIsNormal
  BY PathStringsAre, MakeIsPath DEF PathInit, Paths, PathIsNormal
<1>2. PathIsNormal /\ [PathNext]_path => PathIsNormal'
  <2> SUFFICES ASSUME IsPath(path), [PathNext]_path PROVE IsPath(path')
    BY DEF PathIsNormal
  <2>1. CASE UNCHANGED path
    BY <2>1
  <2>2. ASSUME NEW s \in PathStrings, Join(s) PROVE IsPath(path')
    BY <2>2, PathStringsAre, ResolveIsPath DEF Join
  <2>3. ASSUME NEW s \in PathStrings, Resolve(s) PROVE IsPath(path')
    BY <2>3, PathStringsAre, ResolveIsPath DEF Resolve
  <2>4. ASSUME NEW to \in Paths, Relative(to) PROVE IsPath(path')
    <3>1. path.segments \in Normal /\ to.segments \in Normal
      BY PathStringsAre, MakeIsPath DEF IsPath, Paths
    <3>2. PICK r \in Normal : path_relative(path, to) =
            [segments |-> r, string |-> StringOf(r, FALSE), is_absolute |-> FALSE]
      BY <3>1, RelativeIs, ZenonT(60) DEF Turns
    <3>3. PICK no \in BOOLEAN : no = FALSE
      OBVIOUS
    <3>4. path' = [segments |-> r, string |-> StringOf(r, no), is_absolute |-> no]
      BY <2>4, <3>2, <3>3, Zenon DEF Relative
    <3> QED BY <3>4 DEF IsPath
  <2>5. CASE CopyPath
    <3>1. path.string \in Strings1
      <4>1. path.segments \in Normal /\ path.is_absolute \in BOOLEAN
        BY DEF IsPath
      <4>2. path.string = StringOf(path.segments, path.is_absolute)
        BY DEF IsPath
      <4> QED BY <4>1, <4>2, PathStringIs
    <3> QED BY <2>5, <3>1, MakeIsPath DEF CopyPath
  <2> QED BY <2>1, <2>2, <2>3, <2>4, <2>5 DEF PathNext
<1> QED BY <1>1, <1>2, PTL DEF PathSpec

\* After any calls, for any strings the program makes paths of, the relative path
\* to another one leads there unless a ".." is below where they part: path_join
\* executes as many ".." as leave the names below, and then the other's names.
THEOREM RelativeLeads == PathSpec => []RelativeLeadsThere
<1>1. PathIsNormal => RelativeLeadsThere
  <2> SUFFICES ASSUME IsPath(path), NEW to \in Paths, to.is_absolute = path.is_absolute
               PROVE  path_equal(path_resolve(path, path_relative(path, to).string), to)
                        <=> ~ PartsBelowParent(path.segments, to.segments)
    BY DEF PathIsNormal, RelativeLeadsThere
  <2>1. IsPath(to)
    BY PathStringsAre, MakeIsPath DEF Paths
  <2> QED BY <2>1, LeadsThere
<1> QED BY <1>1, PathInvariant, PTL

-----------------------------------------------------------------------------
(* Texts *)

Byte == 0 .. 255

\* The bytes behind the first, with six bits each.
LEMMA ContinuationIs ==
    ASSUME NEW c \in Nat
    PROVE  /\ continuation(c, 1) \in Byte /\ continuation(c, 1) % 64 = c % 64
           /\ continuation(c, 64) \in Byte /\ continuation(c, 64) % 64 = (c \div 64) % 64
           /\ continuation(c, 4096) \in Byte /\ continuation(c, 4096) % 64 = (c \div 4096) % 64
<1>1. continuation(c, 1) \in Byte /\ continuation(c, 1) % 64 = c % 64
  BY DEF continuation, Byte
<1>2. continuation(c, 64) \in Byte /\ continuation(c, 64) % 64 = (c \div 64) % 64
  BY DEF continuation, Byte
<1>3. continuation(c, 4096) \in Byte /\ continuation(c, 4096) % 64 = (c \div 4096) % 64
  BY DEF continuation, Byte
<1> QED BY <1>1, <1>2, <1>3

\* What two bytes are read as.
LEMMA TwoBytes ==
    ASSUME NEW c \in Nat, 127 < c, c <= 2047
    PROVE  /\ 192 + c \div 64 \in Byte /\ (192 + c \div 64) \div 32 = 6
           /\ 192 + c \div 64 >= 128
           /\ ((192 + c \div 64) % 32) * 64 + (c % 64) = c
BY DEF Byte

\* What three bytes are read as.
LEMMA ThreeBytes ==
    ASSUME NEW c \in Nat, 2047 < c, c <= 65535
    PROVE  /\ 224 + c \div 4096 \in Byte /\ (224 + c \div 4096) \div 32 = 7
           /\ (224 + c \div 4096) \div 16 = 14 /\ 224 + c \div 4096 >= 128
           /\ ((224 + c \div 4096) % 16) * 4096 + ((c \div 64) % 64) * 64 + (c % 64) = c
BY DEF Byte

\* What four bytes are read as.
LEMMA FourBytes ==
    ASSUME NEW c \in Nat, 65535 < c, c <= 1114111
    PROVE  /\ 240 + c \div 262144 \in Byte /\ (240 + c \div 262144) \div 32 = 7
           /\ (240 + c \div 262144) \div 16 = 15 /\ 240 + c \div 262144 >= 128
           /\ (240 + c \div 262144) \div 8 = 30
           /\ ((240 + c \div 262144) % 8) * 262144 + ((c \div 4096) % 64) * 4096
                + ((c \div 64) % 64) * 64 + (c % 64) = c
<1>1. PICK q \in 0 .. 4 : q = c \div 262144
  OBVIOUS
<1>2. /\ 240 + q \in Byte /\ (240 + q) \div 32 = 7 /\ (240 + q) \div 16 = 15
      /\ (240 + q) \div 8 = 30 /\ (240 + q) % 8 = q
  BY DEF Byte
<1>3. PICK x \in Nat, y \in Nat : x = c \div 64 /\ y = c \div 4096
  OBVIOUS
<1>4. c = x * 64 + (c % 64)
  BY <1>3
<1>5. x = y * 64 + (x % 64) /\ y = q * 64 + (y % 64)
  BY <1>1, <1>3
<1>6. c = q * 262144 + (y % 64) * 4096 + (x % 64) * 64 + (c % 64)
  BY <1>4, <1>5
<1> QED BY <1>1, <1>2, <1>3, <1>6

\* s begins with the bytes of e.
Begins(s, e) == Len(e) <= Len(s) /\ \A i \in 1 .. Len(e) : s[i] = e[i]

\* The first byte of e announces as many as there are, and where e begins a string
\* is c read, whatever comes after it.
ReadsAs(e, c) ==
    /\ e \in Seq(Byte) /\ Len(e) \in 1 .. 4 /\ utf8_char_length(e[1]) = Len(e)
    /\ \A s \in Seq(Byte) : Begins(s, e) => utf8_decode(s) = c

\* How many bytes the first one announces.
LEMMA LengthIs ==
    ASSUME NEW b
    PROVE  /\ b < 128 /\ b \div 32 # 6 /\ b \div 16 # 14 /\ b \div 8 # 30
                => utf8_char_length(b) = 1
           /\ ~ (b < 128) /\ b \div 32 = 6 /\ b \div 16 # 14 /\ b \div 8 # 30
                => utf8_char_length(b) = 2
           /\ ~ (b < 128) /\ b \div 32 # 6 /\ b \div 16 = 14 /\ b \div 8 # 30
                => utf8_char_length(b) = 3
           /\ ~ (b < 128) /\ b \div 32 # 6 /\ b \div 16 # 14 /\ b \div 8 = 30
                => utf8_char_length(b) = 4
BY Zenon DEF utf8_char_length

\* Each length of a character is read as what was written.
LEMMA ReadsOne ==
    ASSUME NEW c \in Nat, 0 < c, c <= 127
    PROVE  ReadsAs(<<c>>, c)
<1>1. <<c>> \in Seq(Byte) /\ Len(<<c>>) = 1 /\ <<c>>[1] = c
  BY SMT DEF Byte
<1>2. utf8_char_length(c) = 1
  BY LengthIs, SMT
<1>3. ASSUME NEW s \in Seq(Byte), s[1] = c PROVE utf8_decode(s) = c
  BY <1>2, <1>3, SMT DEF utf8_decode
<1> QED BY <1>1, <1>2, <1>3, SMT DEF ReadsAs, Begins

LEMMA ReadsTwo ==
    ASSUME NEW c \in Nat, 127 < c, c <= 2047, NEW x \in Byte, x % 64 = c % 64
    PROVE  ReadsAs(<<192 + c \div 64, x>>, c)
<1>1. PICK b \in Byte : b = 192 + c \div 64
  BY TwoBytes, SMT
<1>2. b \div 32 = 6 /\ b >= 128 /\ (b % 32) * 64 + (x % 64) = c
  BY <1>1, TwoBytes, SMT
<1>3. <<b, x>> \in Seq(Byte) /\ Len(<<b, x>>) = 2 /\ <<b, x>>[1] = b /\ <<b, x>>[2] = x
  BY SMT
<1>4. utf8_char_length(b) = 2
  BY <1>2, LengthIs, SMT DEF Byte
<1>5. ASSUME NEW s \in Seq(Byte), s[1] = b, s[2] = x PROVE utf8_decode(s) = c
  BY <1>2, <1>4, <1>5, SMT DEF utf8_decode
<1> QED BY <1>1, <1>3, <1>4, <1>5, SMT DEF ReadsAs, Begins

LEMMA ReadsThree ==
    ASSUME NEW c \in Nat, 2047 < c, c <= 65535, NEW x \in Byte, x % 64 = (c \div 64) % 64,
           NEW y \in Byte, y % 64 = c % 64
    PROVE  ReadsAs(<<224 + c \div 4096, x, y>>, c)
<1>1. PICK b \in Byte : b = 224 + c \div 4096
  BY ThreeBytes, SMT
<1>2. /\ b \div 32 = 7 /\ b \div 16 = 14 /\ b >= 128
      /\ (b % 16) * 4096 + (x % 64) * 64 + (y % 64) = c
  BY <1>1, ThreeBytes, SMT
<1> DEFINE e == <<b, x, y>>
<1>4. e \in Seq(Byte) /\ Len(e) = 3 /\ e[1] = b /\ e[2] = x /\ e[3] = y
  BY SMT
<1>5. utf8_char_length(b) = 3
  BY <1>2, LengthIs, SMT DEF Byte
<1>6. ASSUME NEW s \in Seq(Byte), s[1] = b, s[2] = x, s[3] = y PROVE utf8_decode(s) = c
  BY <1>2, <1>5, <1>6, SMT DEF utf8_decode
<1>7. ReadsAs(e, c)
  BY <1>4, <1>5, <1>6, SMT DEF ReadsAs, Begins
<1> QED BY <1>1, <1>7, SMT

LEMMA ReadsFour ==
    ASSUME NEW c \in Nat, 65535 < c, c <= 1114111, NEW x \in Byte, x % 64 = (c \div 4096) % 64,
           NEW y \in Byte, y % 64 = (c \div 64) % 64, NEW z \in Byte, z % 64 = c % 64
    PROVE  ReadsAs(<<240 + c \div 262144, x, y, z>>, c)
<1>1. PICK b \in Byte : b = 240 + c \div 262144
  BY FourBytes, SMT
<1>2. /\ b \div 32 = 7 /\ b \div 16 = 15 /\ b \div 8 = 30 /\ b >= 128
      /\ (b % 8) * 262144 + (x % 64) * 4096 + (y % 64) * 64 + (z % 64) = c
  BY <1>1, FourBytes, SMT
<1> DEFINE e == <<b, x, y, z>>
<1>4. e \in Seq(Byte) /\ Len(e) = 4 /\ e[1] = b /\ e[2] = x /\ e[3] = y /\ e[4] = z
  BY SMT
<1>5. utf8_char_length(b) = 4
  BY <1>2, LengthIs, SMT DEF Byte
<1>6. ASSUME NEW s \in Seq(Byte), s[1] = b, s[2] = x, s[3] = y, s[4] = z
      PROVE  utf8_decode(s) = c
  BY <1>2, <1>5, <1>6, SMT DEF utf8_decode
<1>7. ReadsAs(e, c)
  BY <1>4, <1>5, <1>6, SMT DEF ReadsAs, Begins
<1> QED BY <1>1, <1>7, SMT

\* Both what UTF-8 is and what the program writes is read as the code point: the
\* bits of a continuation byte above the low six are not looked at.
LEMMA CharacterReads ==
    ASSUME NEW c \in Nat, 0 < c, c <= 1114111
    PROVE  ReadsAs(Utf8(c), c) /\ ReadsAs(utf8_encode(c), c)
<1>1. CASE c <= 127
  <2>1. Utf8(c) = <<c>> /\ utf8_encode(c) = <<c>>
    BY <1>1, SMT DEF Utf8, utf8_encode
  <2> QED BY <1>1, <2>1, ReadsOne, SMT
<1>2. CASE 127 < c /\ c <= 2047
  <2>1. PICK x : x = continuation(c, 1)
    BY SMT
  <2>2. PICK y : y = 128 + ((c \div 1) % 64)
    BY SMT
  <2>3. Utf8(c) = <<192 + c \div 64, y>> /\ utf8_encode(c) = <<192 + c \div 64, x>>
    BY <1>2, <2>1, <2>2, SMT DEF Utf8, utf8_encode
  <2>4. x \in Byte /\ x % 64 = c % 64
    BY <2>1, ContinuationIs, SMT
  <2>5. y \in Byte /\ y % 64 = c % 64
    BY <2>2, SMT DEF Byte
  <2> QED BY <1>2, <2>3, <2>4, <2>5, ReadsTwo, SMT
<1>3. CASE 2047 < c /\ c <= 65535
  <2>1. PICK x, xx : x = continuation(c, 64) /\ xx = continuation(c, 1)
    BY SMT
  <2>2. PICK y, yy : y = 128 + ((c \div 64) % 64) /\ yy = 128 + ((c \div 1) % 64)
    BY SMT
  <2>3. Utf8(c) = <<224 + c \div 4096, y, yy>> /\ utf8_encode(c) = <<224 + c \div 4096, x, xx>>
    BY <1>3, <2>1, <2>2, SMT DEF Utf8, utf8_encode
  <2>4. x \in Byte /\ x % 64 = (c \div 64) % 64 /\ xx \in Byte /\ xx % 64 = c % 64
    BY <2>1, ContinuationIs, SMT
  <2>5. y \in Byte /\ y % 64 = (c \div 64) % 64 /\ yy \in Byte /\ yy % 64 = c % 64
    BY <2>2, SMT DEF Byte
  <2> QED BY <1>3, <2>3, <2>4, <2>5, ReadsThree, SMT
<1>4. CASE 65535 < c
  <2>1. PICK x, xx, xxx : /\ x = continuation(c, 4096) /\ xx = continuation(c, 64)
                          /\ xxx = continuation(c, 1)
    BY SMT
  <2>2. PICK y, yy, yyy : /\ y = 128 + ((c \div 4096) % 64) /\ yy = 128 + ((c \div 64) % 64)
                          /\ yyy = 128 + ((c \div 1) % 64)
    BY SMT
  <2>3. /\ Utf8(c) = <<240 + c \div 262144, y, yy, yyy>>
        /\ utf8_encode(c) = <<240 + c \div 262144, x, xx, xxx>>
    BY <1>4, <2>1, <2>2, SMT DEF Utf8, utf8_encode
  <2>4. /\ x \in Byte /\ x % 64 = (c \div 4096) % 64
        /\ xx \in Byte /\ xx % 64 = (c \div 64) % 64 /\ xxx \in Byte /\ xxx % 64 = c % 64
    BY <2>1, ContinuationIs, SMT
  <2>5. /\ y \in Byte /\ y % 64 = (c \div 4096) % 64
        /\ yy \in Byte /\ yy % 64 = (c \div 64) % 64 /\ yyy \in Byte /\ yyy % 64 = c % 64
    BY <2>2, SMT DEF Byte
  <2> QED BY <1>4, <2>3, <2>4, <2>5, ReadsFour, SMT
<1> QED BY <1>1, <1>2, <1>3, <1>4, SMT

\* What E takes code points to is read as them.
ReadBy(E) == \A c \in CodePoints : ReadsAs(E[c], c)

\* h[i] is what E takes the first i code points of t to.
Writes(h, t, E) ==
    /\ h \in [0 .. Len(t) -> Seq(Byte)] /\ h[0] = <<>>
    /\ \A i \in 0 .. Len(t) : i < Len(t) => h[i + 1] = h[i] \o E[t[i + 1]]

\* The strings of the beginnings of a text.
LEMMA WritesExists ==
    ASSUME NEW t \in Seq(CodePoints), NEW E, ReadBy(E)
    PROVE  \E h : Writes(h, t, E)
<1>1. PICK N \in Nat : N = Len(t)
  BY LenProperties
<1> DEFINE V == Seq(Byte)
           step == [x \in V \X Nat |-> IF x[2] \in 1 .. N THEN x[1] \o E[t[x[2]]] ELSE x[1]]
<1>2. step \in Steps(V)
  <2>1. ASSUME NEW n \in 1 .. N PROVE E[t[n]] \in V
    <3>1. t[n] \in CodePoints
      BY <1>1, ElementOfSeq
    <3> QED BY <3>1 DEF ReadBy, ReadsAs
  <2>2. ASSUME NEW x \in V \X Nat
        PROVE  (IF x[2] \in 1 .. N THEN x[1] \o E[t[x[2]]] ELSE x[1]) \in V
    <3>1. CASE x[2] \in 1 .. N
      <4>1. E[t[x[2]]] \in Seq(Byte) /\ x[1] \in Seq(Byte)
        BY <2>1, <3>1
      <4>2. x[1] \o E[t[x[2]]] \in Seq(Byte)
        BY <4>1, ConcatProperties
      <4> QED BY <3>1, <4>2
    <3>2. CASE x[2] \notin 1 .. N
      BY <3>2
    <3> QED BY <3>1, <3>2
  <2> HIDE DEF V
  <2> QED BY <2>2 DEF Steps
<1>3. PICK h : Follows(h, V, <<>>, step, N)
  <2>1. <<>> \in V
    BY EmptySeq
  <2> HIDE DEF V, step
  <2> QED BY <1>2, <2>1, RecursionExists
<1>4. ASSUME NEW i \in 0 .. N, i < N PROVE h[i + 1] = h[i] \o E[t[i + 1]]
  <2>1. h[i] \in V /\ i + 1 \in 1 .. N /\ i + 1 \in Nat
    BY <1>3, <1>4 DEF Follows
  <2>2. step[<<h[i], i + 1>>] = h[i] \o E[t[i + 1]]
    <3> HIDE DEF V
    <3> QED BY <2>1
  <2> HIDE DEF step
  <2> QED BY <1>3, <1>4, <2>2 DEF Follows
<1>5. h \in [0 .. N -> Seq(Byte)] /\ h[0] = <<>>
  <2> HIDE DEF step
  <2> QED BY <1>3 DEF Follows
<1> QED BY <1>1, <1>4, <1>5 DEF Writes

\* What is written of more code points begins with what is written of fewer, and
\* each of them adds a byte at least.
LEMMA WritesGrows ==
    ASSUME NEW t \in Seq(CodePoints), NEW E, ReadBy(E), NEW h, Writes(h, t, E)
    PROVE  \A k \in 0 .. Len(t) : \A j \in 0 .. k :
             /\ Len(h[j]) + (k - j) <= Len(h[k]) /\ Begins(h[k], h[j])
<1>1. PICK N \in Nat : N = Len(t)
  BY LenProperties
<1>2. \A k \in 0 .. N : h[k] \in Seq(Byte) /\ Len(h[k]) \in Nat
  <2>1. \A k \in 0 .. N : h[k] \in Seq(Byte)
    BY <1>1 DEF Writes
  <2> QED BY <2>1, LenProperties
<1> DEFINE S == {k \in 0 .. N : \A j \in 0 .. k :
                   Len(h[j]) + (k - j) <= Len(h[k]) /\ Begins(h[k], h[j])}
<1>3. 0 \in S
  BY <1>2 DEF Begins
<1>4. ASSUME NEW k \in 0 .. N, k < N, k \in S PROVE k + 1 \in S
  <2>0. \A j \in 0 .. k : Len(h[j]) + (k - j) <= Len(h[k]) /\ Begins(h[k], h[j])
    BY <1>4
  <2>1. k \in Nat /\ k + 1 \in 0 .. N /\ k + 1 \in 1 .. N
    BY <1>4
  <2>2. PICK e : e = E[t[k + 1]]
    OBVIOUS
  <2>3. e \in Seq(Byte) /\ Len(e) \in 1 .. 4
    <3>1. t[k + 1] \in CodePoints
      BY <1>1, <2>1, ElementOfSeq
    <3> QED BY <2>2, <3>1 DEF ReadBy, ReadsAs
  <2>4. h[k + 1] = h[k] \o e
    BY <1>1, <1>4, <2>2 DEF Writes
  <2>5. /\ Len(h[k + 1]) = Len(h[k]) + Len(e)
        /\ \A i \in 1 .. Len(h[k]) : h[k + 1][i] = h[k][i]
    <3>1. h[k] \in Seq(Byte) /\ Len(h[k]) \in Nat
      BY <1>2
    <3>2. /\ Len(h[k] \o e) = Len(h[k]) + Len(e)
          /\ \A i \in 1 .. Len(h[k]) + Len(e) :
               (h[k] \o e)[i] = IF i <= Len(h[k]) THEN h[k][i] ELSE e[i - Len(h[k])]
      BY <2>3, <3>1, ConcatProperties
    <3> QED BY <2>3, <2>4, <3>1, <3>2
  <2>6. ASSUME NEW j \in 0 .. k + 1
        PROVE  Len(h[j]) + ((k + 1) - j) <= Len(h[k + 1]) /\ Begins(h[k + 1], h[j])
    <3>1. CASE j = k + 1
      <4>1. Len(h[k + 1]) \in Nat /\ (k + 1) - (k + 1) = 0
        BY <1>2, <2>1
      <4>2. Begins(h[k + 1], h[k + 1])
        BY <4>1 DEF Begins
      <4>3. Len(h[k + 1]) + ((k + 1) - (k + 1)) <= Len(h[k + 1])
        BY <4>1
      <4> QED BY <3>1, <4>2, <4>3, Zenon
    <3>2. CASE j \in 0 .. k
      <4>1. Len(h[j]) + (k - j) <= Len(h[k]) /\ Begins(h[k], h[j])
        BY <2>0, <3>2
      <4>2. Len(h[j]) \in Nat /\ Len(h[k]) \in Nat
        BY <1>2, <3>2
      <4>3. Len(h[j]) <= Len(h[k]) /\ \A i \in 1 .. Len(h[j]) : h[k][i] = h[j][i]
        BY <4>1 DEF Begins
      <4>4. \A i \in 1 .. Len(h[j]) : h[k + 1][i] = h[j][i]
        BY <2>5, <4>2, <4>3
      <4>5. PICK m \in Nat, n \in Nat, x \in 1 .. 4 :
              m = Len(h[j]) /\ n = Len(h[k]) /\ x = Len(e)
        BY <2>3, <4>2
      <4>6. Len(h[k + 1]) = n + x
        BY <2>5, <4>5
      <4>7. m + ((k + 1) - j) <= n + x /\ m <= n + x
        <5>1. j \in Nat /\ j <= k /\ m + (k - j) <= n
          BY <2>1, <3>2, <4>1, <4>5
        <5>2. PICK d \in Nat : d = k - j
          BY <2>1, <5>1
        <5>3. (k + 1) - j = d + 1
          BY <2>1, <5>1, <5>2
        <5>4. m + (d + 1) <= n + x /\ m <= n + x
          BY <5>1, <5>2
        <5> QED BY <5>3, <5>4
      <4>8. Begins(h[k + 1], h[j])
        BY <4>4, <4>5, <4>6, <4>7 DEF Begins
      <4> QED BY <4>5, <4>6, <4>7, <4>8
    <3>3. j = k + 1 \/ j \in 0 .. k
      OBVIOUS
    <3> QED BY <3>1, <3>2, <3>3
  <2>7. \A j \in 0 .. k + 1 : Len(h[j]) + ((k + 1) - j) <= Len(h[k + 1]) /\ Begins(h[k + 1], h[j])
    BY <2>6
  <2> QED BY <2>1, <2>7, Zenon
<1>5. \A k \in 0 .. N : k \in S
  <2> HIDE DEF S
  <2> QED BY <1>3, <1>4, IntervalInduction
<1> QED BY <1>1, <1>5

\* The cursor goes from the beginning of a character to the next one.
LEMMA IterReads ==
    ASSUME NEW t \in Seq(CodePoints), NEW E, ReadBy(E), NEW h, Writes(h, t, E),
           NEW k \in 0 .. Len(t), k < Len(t), NEW iter,
           iter = [cursor |-> Len(h[k]), code_points |-> SubSeq(t, 1, k)]
    PROVE  utf8_iter_turn(h[Len(t)], iter) =
             [cursor |-> Len(h[k + 1]), code_points |-> SubSeq(t, 1, k + 1)]
<1>1. PICK N \in Nat : N = Len(t)
  BY LenProperties
<1>2. k \in 0 .. N /\ k + 1 \in 0 .. N /\ k + 1 \in 1 .. N
  BY <1>1
<1>3. PICK c \in CodePoints : c = t[k + 1]
  BY <1>1, <1>2, ElementOfSeq
<1>4. PICK e : e = E[c]
  OBVIOUS
<1>5. ReadsAs(e, c)
  BY <1>4 DEF ReadBy
<1>6. e \in Seq(Byte) /\ Len(e) \in 1 .. 4 /\ utf8_char_length(e[1]) = Len(e)
  BY <1>5 DEF ReadsAs
<1>7. PICK s \in Seq(Byte) : s = h[N]
  BY <1>1 DEF Writes
<1>8. PICK b \in Seq(Byte) : b = h[k]
  BY <1>1, <1>2 DEF Writes
<1>9. Len(s) \in Nat /\ Len(b) \in Nat
  BY LenProperties
<1>10. h[k + 1] = b \o e
  BY <1>1, <1>2, <1>3, <1>4, <1>8 DEF Writes
<1>11. /\ Len(b \o e) = Len(b) + Len(e)
       /\ \A i \in 1 .. Len(b) + Len(e) :
            (b \o e)[i] = IF i <= Len(b) THEN b[i] ELSE e[i - Len(b)]
  BY <1>6, <1>9, ConcatProperties
<1>12. Begins(s, b \o e)
  <2>1. \A m \in 0 .. Len(t) : \A j \in 0 .. m : Begins(h[m], h[j])
    BY WritesGrows
  <2>2. N \in 0 .. Len(t) /\ k + 1 \in 0 .. N
    BY <1>1, <1>2
  <2>3. Begins(h[N], h[k + 1])
    BY <2>1, <2>2
  <2> QED BY <1>7, <1>10, <2>3
<1>13. Len(b) + Len(e) <= Len(s) /\ \A i \in 1 .. Len(e) : s[Len(b) + i] = e[i]
  <2>1. ASSUME NEW i \in 1 .. Len(e) PROVE s[Len(b) + i] = e[i]
    <3>1. Len(b) + i \in 1 .. Len(b) + Len(e) /\ ~ (Len(b) + i <= Len(b))
          /\ (Len(b) + i) - Len(b) = i
      BY <1>6, <1>9
    <3>2. s[Len(b) + i] = (b \o e)[Len(b) + i]
      BY <1>11, <1>12, <3>1 DEF Begins
    <3> QED BY <1>11, <3>1, <3>2
  <2> QED BY <1>11, <1>12, <2>1 DEF Begins
<1>14. PICK r : r = SubSeq(s, Len(b) + 1, Len(s))
  OBVIOUS
<1>15. /\ r \in Seq(Byte) /\ Len(r) = Len(s) - Len(b)
       /\ \A i \in 1 .. Len(s) - Len(b) : r[i] = s[Len(b) + i]
  <2>1. Len(b) + 1 \in Int /\ Len(s) \in Int /\ Len(b) + 1 <= Len(s)
    BY <1>6, <1>9, <1>13
  <2>2. \A i \in Len(b) + 1 .. Len(s) : s[i] \in Byte
    BY <1>9, ElementOfSeq
  <2>3. /\ r \in Seq(Byte) /\ Len(r) = Len(s) - (Len(b) + 1) + 1
        /\ \A i \in 1 .. Len(s) - (Len(b) + 1) + 1 : r[i] = s[Len(b) + 1 + i - 1]
    BY <1>14, <2>1, <2>2, SubSeqProperties
  <2> QED BY <1>9, <2>1, <2>3
<1>16. Begins(r, e)
  BY <1>6, <1>9, <1>13, <1>15 DEF Begins
<1>17. utf8_decode(r) = c
  BY <1>5, <1>15, <1>16 DEF ReadsAs
<1>18. utf8_char_length(s[Len(b) + 1]) = Len(e)
  <2>1. s[Len(b) + 1] = e[1]
    BY <1>6, <1>13
  <2> QED BY <1>6, <2>1
<1>19. Append(SubSeq(t, 1, k), c) = SubSeq(t, 1, k + 1)
  <2>1. \A i \in 1 .. k + 1 : t[i] \in CodePoints
    BY <1>1, <1>2, ElementOfSeq
  <2>2. /\ SubSeq(t, 1, k) \in Seq(CodePoints) /\ Len(SubSeq(t, 1, k)) = k
        /\ \A i \in 1 .. k : SubSeq(t, 1, k)[i] = t[i]
    <3>1. \A i \in 1 .. k : t[i] \in CodePoints
      BY <1>2, <2>1
    <3> QED BY <1>2, <3>1, SubSeqProperties
  <2>3. /\ SubSeq(t, 1, k + 1) \in Seq(CodePoints) /\ Len(SubSeq(t, 1, k + 1)) = k + 1
        /\ \A i \in 1 .. k + 1 : SubSeq(t, 1, k + 1)[i] = t[i]
    BY <1>2, <2>1, SubSeqProperties
  <2>4. PICK x \in Seq(CodePoints), y \in Seq(CodePoints) :
          x = SubSeq(t, 1, k) /\ y = SubSeq(t, 1, k + 1)
    BY <2>2, <2>3
  <2>5. /\ Append(x, c) \in Seq(CodePoints) /\ Len(Append(x, c)) = k + 1
        /\ \A i \in 1 .. k : Append(x, c)[i] = t[i]
        /\ Append(x, c)[k + 1] = t[k + 1]
    BY <1>3, <2>2, <2>4, AppendProperties
  <2>6. \A i \in 1 .. k + 1 : Append(x, c)[i] = y[i]
    <3>1. \A i \in 1 .. k + 1 : i \in 1 .. k \/ i = k + 1
      BY <1>2
    <3> QED BY <2>3, <2>4, <2>5, <3>1
  <2> QED BY <2>3, <2>4, <2>5, <2>6, SeqEqual
<1>20. iter.cursor = Len(b) /\ iter.code_points = SubSeq(t, 1, k)
  BY <1>8
<1>21. ~ (Len(b) >= Len(s))
  BY <1>6, <1>9, <1>13
<1>22. utf8_iter_turn(s, iter) = [cursor |-> Len(b) + Len(e), code_points |-> SubSeq(t, 1, k + 1)]
  BY <1>14, <1>17, <1>18, <1>19, <1>20, <1>21, Zenon DEF utf8_iter_turn
<1> QED BY <1>1, <1>7, <1>10, <1>11, <1>22

\* What is written of a text is read as it, one character a turn.
LEMMA ReadsBack ==
    ASSUME NEW t \in Seq(CodePoints), NEW E, ReadBy(E), NEW h, Writes(h, t, E)
    PROVE  text_from_string(h[Len(t)]) = t
<1>1. PICK N \in Nat : N = Len(t)
  BY LenProperties
<1>2. PICK s \in Seq(Byte) : s = h[N]
  BY <1>1 DEF Writes
<1>3. PICK M \in Nat : M = Len(s)
  BY LenProperties
<1>4. N <= M
  <2>1. \A k \in 0 .. Len(t) : \A j \in 0 .. k : Len(h[j]) + (k - j) <= Len(h[k])
    BY WritesGrows
  <2>2. Len(h[0]) + (N - 0) <= M
    BY <1>1, <1>2, <1>3, <2>1
  <2>3. Len(h[0]) = 0
    BY EmptySeq DEF Writes
  <2> QED BY <2>2, <2>3
<1> DEFINE read == [k \in 0 .. N |-> [cursor |-> Len(h[k]), code_points |-> SubSeq(t, 1, k)]]
           f == [n \in 0 .. M |-> IF n <= N THEN read[n] ELSE read[N]]
           none == [cursor |-> 0, code_points |-> <<>>]
           Loops(u) == u = [n \in 0 .. M |-> IF n = 0 THEN none ELSE utf8_iter_turn(s, u[n - 1])]
<1>5. \A k \in 0 .. N : k < N => utf8_iter_turn(s, read[k]) = read[k + 1]
  <2> SUFFICES ASSUME NEW k \in 0 .. N, k < N PROVE utf8_iter_turn(s, read[k]) = read[k + 1]
    OBVIOUS
  <2>1. k + 1 \in 0 .. N
    OBVIOUS
  <2>2. read[k] = [cursor |-> Len(h[k]), code_points |-> SubSeq(t, 1, k)]
    OBVIOUS
  <2>3. read[k + 1] = [cursor |-> Len(h[k + 1]), code_points |-> SubSeq(t, 1, k + 1)]
    BY <2>1
  <2> HIDE DEF read
  <2> QED BY <1>1, <1>2, <2>2, <2>3, IterReads
<1>6. utf8_iter_turn(s, read[N]) = read[N]
  <2>1. read[N].cursor = Len(s)
    BY <1>2
  <2>2. read[N].cursor >= Len(s)
    BY <1>3, <2>1
  <2> HIDE DEF read
  <2> QED BY <2>2, Zenon DEF utf8_iter_turn
<1>7. f[0] = none
  <2>1. f[0] = read[0] /\ read[0] = [cursor |-> Len(h[0]), code_points |-> SubSeq(t, 1, 0)]
    OBVIOUS
  <2>2. Len(h[0]) = 0 /\ SubSeq(t, 1, 0) = <<>>
    BY EmptySeq, SubSeqEmpty DEF Writes
  <2> HIDE DEF f, read
  <2> QED BY <2>1, <2>2
<1>8. \A n \in 0 .. M : n < M => f[n + 1] = utf8_iter_turn(s, f[n])
  <2> SUFFICES ASSUME NEW n \in 0 .. M, n < M PROVE f[n + 1] = utf8_iter_turn(s, f[n])
    OBVIOUS
  <2>1. n + 1 \in 0 .. M
    OBVIOUS
  <2> HIDE DEF read
  <2>2. CASE n < N
    <3>1. f[n] = read[n] /\ f[n + 1] = read[n + 1]
      BY <2>1, <2>2
    <3>2. utf8_iter_turn(s, read[n]) = read[n + 1]
      BY <1>5, <2>2
    <3> HIDE DEF f
    <3> QED BY <3>1, <3>2
  <2>3. CASE n >= N
    <3>1. f[n] = read[N] /\ f[n + 1] = read[N]
      BY <2>1, <2>3
    <3> HIDE DEF f
    <3> QED BY <1>6, <3>1
  <2> QED BY <2>2, <2>3
<1> HIDE DEF f, read, none
<1>9. Loops([n \in 0 .. M |-> f[n]])
  <2>1. ASSUME NEW n \in 0 .. M
        PROVE  f[n] = IF n = 0 THEN none ELSE utf8_iter_turn(s, [m \in 0 .. M |-> f[m]][n - 1])
    <3>1. CASE n = 0
      BY <1>7, <3>1
    <3>2. CASE n # 0
      <4>1. n - 1 \in 0 .. M /\ n - 1 < M /\ (n - 1) + 1 = n
        BY <3>2
      <4>2. f[(n - 1) + 1] = utf8_iter_turn(s, f[n - 1])
        BY <1>8, <4>1
      <4> QED BY <3>2, <4>1, <4>2
    <3> QED BY <3>1, <3>2
  <2> QED BY <2>1
<1>10. PICK g : Loops(g) /\ text_from_string(s) = g[M].code_points
  <2>1. Loops(CHOOSE u : Loops(u))
    <3> HIDE DEF Loops
    <3> QED BY <1>9
  <2>2. text_from_string(s) = (CHOOSE u : Loops(u))[M].code_points
    BY <1>3, Zenon DEF text_from_string, none
  <2> HIDE DEF Loops
  <2> QED BY <2>1, <2>2
<1>11. g[0] = f[0]
  <2>1. 0 \in 0 .. M
    OBVIOUS
  <2> QED BY <1>7, <1>10, <2>1
<1>12. ASSUME NEW n \in 0 .. M, n < M, g[n] = f[n] PROVE g[n + 1] = f[n + 1]
  <2>1. n + 1 \in 0 .. M /\ n + 1 # 0 /\ (n + 1) - 1 = n
    BY <1>12
  <2>2. g[n + 1] = utf8_iter_turn(s, g[(n + 1) - 1])
    BY <1>10, <2>1
  <2> QED BY <1>8, <1>12, <2>1, <2>2
<1>13. g[M] = f[M]
  <2> HIDE DEF Loops
  <2>1. \A n \in 0 .. M : g[n] = f[n]
    BY <1>11, <1>12, RecursionUnique, ZenonT(60)
  <2> QED BY <2>1
<1>14. f[M].code_points = SubSeq(t, 1, N)
  <2>1. f[M] = read[N]
    BY <1>4 DEF f
  <2>2. read[N].code_points = SubSeq(t, 1, N)
    BY DEF read
  <2> QED BY <2>1, <2>2
<1>15. SubSeq(t, 1, N) = t
  BY <1>1, SubSeqFull
<1> QED BY <1>1, <1>2, <1>10, <1>13, <1>14, <1>15

\* A recursive concatenation of what E takes code points to is what is written.
LEMMA WritesIs ==
    ASSUME NEW t \in Seq(CodePoints), NEW E, ReadBy(E)
    PROVE  \E h : /\ Writes(h, t, E)
                  /\ h[Len(t)] = (CHOOSE u : u = [i \in 0 .. Len(t) |->
                                     IF i = 0 THEN <<>> ELSE u[i - 1] \o E[t[i]]])[Len(t)]
<1>0. PICK N \in Nat : N = Len(t)
  BY LenProperties
<1>1. PICK h : Writes(h, t, E)
  BY WritesExists
<1>2. h \in [0 .. N -> Seq(Byte)] /\ h[0] = <<>>
      /\ \A i \in 0 .. N : i < N => h[i + 1] = h[i] \o E[t[i + 1]]
  BY <1>0, <1>1 DEF Writes
<1> DEFINE Loops(u) == u = [i \in 0 .. N |-> IF i = 0 THEN <<>> ELSE u[i - 1] \o E[t[i]]]
<1>3. Loops(h)
  <2>1. ASSUME NEW i \in 0 .. N PROVE h[i] = IF i = 0 THEN <<>> ELSE h[i - 1] \o E[t[i]]
    <3>1. CASE i = 0
      BY <1>2, <3>1
    <3>2. CASE i # 0
      <4>1. i - 1 \in 0 .. N /\ i - 1 < N /\ (i - 1) + 1 = i
        BY <3>2
      <4>2. h[(i - 1) + 1] = h[i - 1] \o E[t[(i - 1) + 1]]
        BY <1>2, <4>1
      <4> QED BY <3>2, <4>1, <4>2
    <3> QED BY <3>1, <3>2
  <2> QED BY <1>2, <2>1
<1>4. PICK g : g = CHOOSE u : Loops(u)
  OBVIOUS
<1>5. Loops(g)
  <2> HIDE DEF Loops
  <2> QED BY <1>3, <1>4
<1>6. g[0] = h[0]
  <2>1. 0 \in 0 .. N
    OBVIOUS
  <2> QED BY <1>2, <1>5, <2>1
<1>7. ASSUME NEW i \in 0 .. N, i < N, g[i] = h[i] PROVE g[i + 1] = h[i + 1]
  <2>1. i + 1 \in 0 .. N /\ i + 1 # 0 /\ (i + 1) - 1 = i
    BY <1>7
  <2>2. g[i + 1] = g[(i + 1) - 1] \o E[t[i + 1]]
    BY <1>5, <2>1
  <2> QED BY <1>2, <1>7, <2>1, <2>2
<1>8. g[N] = h[N]
  <2> HIDE DEF Loops
  <2>1. \A i \in 0 .. N : i < N /\ g[i] = h[i] => g[i + 1] = h[i + 1]
    BY <1>7
  <2>2. \A i \in 0 .. N : g[i] = h[i]
    BY <1>6, <2>1, RecursionUnique
  <2> QED BY <2>2
<1> QED BY <1>0, <1>1, <1>4, <1>8, Zenon

\* Each code point is read back, by the book and as it is encoded.
LEMMA CodePointIs ==
    ASSUME NEW c \in CodePoints
    PROVE  ReadsAs(Utf8(c), c) /\ ReadsAs(utf8_encode(c), c)
<1>1. c \in Nat /\ 0 < c /\ c <= 1114111
  BY TextAssumption, SMT
<1> QED BY <1>1, CharacterReads, SMT

\* The characters of the program, by the book and as it writes them
Written8 == [c \in CodePoints |-> Utf8(c)]
Encoded == [c \in CodePoints |-> utf8_encode(c)]

LEMMA CharactersAre == ReadBy(Written8) /\ ReadBy(Encoded)
BY CodePointIs DEF ReadBy, Written8, Encoded

\* The UTF-8 of a text is read as it.
LEMMA Utf8StringReads ==
    ASSUME NEW t \in Seq(CodePoints)
    PROVE  text_from_string(Utf8String(t)) = t
<1>1. PICK N \in Nat : N = Len(t)
  BY LenProperties
<1>2. PICK h : /\ Writes(h, t, Written8)
               /\ h[N] = (CHOOSE u : u = [i \in 0 .. N |->
                             IF i = 0 THEN <<>> ELSE u[i - 1] \o Written8[t[i]]])[N]
  BY <1>1, CharactersAre, WritesIs, Zenon
<1>3. \A u : [i \in 0 .. N |-> IF i = 0 THEN <<>> ELSE u[i - 1] \o Written8[t[i]]]
               = [i \in 0 .. N |-> IF i = 0 THEN <<>> ELSE u[i - 1] \o Utf8(t[i])]
  <2>1. ASSUME NEW i \in 0 .. N, i # 0 PROVE Written8[t[i]] = Utf8(t[i])
    <3>1. t[i] \in CodePoints
      BY <1>1, <2>1, ElementOfSeq
    <3> QED BY <3>1 DEF Written8
  <2> QED BY <2>1
<1>4. (CHOOSE u : u = [i \in 0 .. N |-> IF i = 0 THEN <<>> ELSE u[i - 1] \o Written8[t[i]]])
        = (CHOOSE u : u = [i \in 0 .. N |-> IF i = 0 THEN <<>> ELSE u[i - 1] \o Utf8(t[i])])
  BY <1>3, Zenon
<1>5. Utf8String(t) =
        (CHOOSE u : u = [i \in 0 .. N |-> IF i = 0 THEN <<>> ELSE u[i - 1] \o Utf8(t[i])])[N]
  BY <1>1, Zenon DEF Utf8String
<1>6. Utf8String(t) = h[Len(t)]
  BY <1>1, <1>2, <1>4, <1>5, Zenon
<1> QED BY <1>2, <1>6, CharactersAre, ReadsBack

\* All bytes of a character are kept, since its first one announces them.
LEMMA TextToStringReads ==
    ASSUME NEW t \in Seq(CodePoints)
    PROVE  text_from_string(text_to_string(t)) = t
<1>1. PICK N \in Nat : N = Len(t)
  BY LenProperties
<1>2. PICK h : /\ Writes(h, t, Encoded)
               /\ h[N] = (CHOOSE u : u = [i \in 0 .. N |->
                             IF i = 0 THEN <<>> ELSE u[i - 1] \o Encoded[t[i]]])[N]
  BY <1>1, CharactersAre, WritesIs, Zenon
<1> DEFINE kept(c) == SubSeq(utf8_encode(c), 1, utf8_char_length(utf8_encode(c)[1]))
<1>3. \A u : [i \in 0 .. N |-> IF i = 0 THEN <<>> ELSE u[i - 1] \o Encoded[t[i]]]
               = [i \in 0 .. N |-> IF i = 0 THEN <<>> ELSE u[i - 1] \o kept(t[i])]
  <2>1. ASSUME NEW i \in 0 .. N, i # 0 PROVE Encoded[t[i]] = kept(t[i])
    <3>1. PICK c \in CodePoints : c = t[i]
      BY <1>1, <2>1, ElementOfSeq
    <3>2. PICK e : e = utf8_encode(c)
      OBVIOUS
    <3>3. e \in Seq(Byte) /\ utf8_char_length(e[1]) = Len(e)
      BY <3>2, CodePointIs DEF ReadsAs
    <3>4. SubSeq(e, 1, Len(e)) = e
      BY <3>3, SubSeqFull
    <3> QED BY <3>1, <3>2, <3>3, <3>4 DEF Encoded
  <2> HIDE DEF kept
  <2> QED BY <2>1
<1>4. (CHOOSE u : u = [i \in 0 .. N |-> IF i = 0 THEN <<>> ELSE u[i - 1] \o Encoded[t[i]]])
        = (CHOOSE u : u = [i \in 0 .. N |-> IF i = 0 THEN <<>> ELSE u[i - 1] \o kept(t[i])])
  <2> HIDE DEF kept
  <2> QED BY <1>3, Zenon
<1>5. text_to_string(t) =
        (CHOOSE u : u = [i \in 0 .. N |-> IF i = 0 THEN <<>> ELSE u[i - 1] \o kept(t[i])])[N]
  BY <1>1, Zenon DEF text_to_string
<1>6. text_to_string(t) = h[Len(t)]
  BY <1>1, <1>2, <1>4, <1>5, Zenon
<1> QED BY <1>2, <1>6, CharactersAre, ReadsBack

\* A text has code points of the program, and text_string is of such a text.
TextIsRead ==
    /\ text \in Seq(CodePoints)
    /\ \E t \in Seq(CodePoints) : text_string = text_to_string(t)

\* A text of one code point.
LEMMA OneIsRead ==
    ASSUME NEW c \in CodePoints
    PROVE  text_from_string(Utf8(c)) = <<c>>
<1>1. PICK t \in Seq(CodePoints) : t = <<c>>
  <2>1. c \in CodePoints
    OBVIOUS
  <2>2. <<c>> \in Seq(CodePoints)
    BY <2>1
  <2> QED BY <2>2
<1>2. Len(t) = 1 /\ t[1] = c
  BY <1>1
<1>3. PICK h : Writes(h, t, Written8)
  BY CharactersAre, WritesExists
<1>4. h[0] = <<>> /\ h[1] = h[0] \o Written8[t[1]]
  <2>1. 0 \in 0 .. 1 /\ 0 < 1 /\ 0 + 1 = 1
    OBVIOUS
  <2>2. h[0 + 1] = h[0] \o Written8[t[0 + 1]]
    BY <1>2, <1>3, <2>1 DEF Writes
  <2> QED BY <1>3, <2>1, <2>2 DEF Writes
<1>5. Written8[c] = Utf8(c) /\ Utf8(c) \in Seq(Byte)
  BY CodePointIs DEF Written8, ReadsAs
<1>6. h[1] = Utf8(c)
  BY <1>2, <1>4, <1>5, ConcatEmptySeq
<1> QED BY <1>1, <1>2, <1>3, <1>6, CharactersAre, ReadsBack

\* Texts consist of code points of the program, and the string that was written
\* last is one of such a text.
THEOREM TextInvariant == TextSpec => []TextIsRead
<1>1. TextInit => TextIsRead
  <2> SUFFICES ASSUME TextInit PROVE TextIsRead
    OBVIOUS
  <2>1. text = <<>> /\ text_string = <<>> /\ <<>> \in Seq(CodePoints) /\ Len(<<>>) = 0
    BY EmptySeq DEF TextInit
  <2>2. PICK e \in Seq(CodePoints) : e = <<>>
    BY <2>1
  <2>3. PICK v : v = text_to_string(e)
    OBVIOUS
  <2>4. v = <<>>
    <3> DEFINE Loops(u) == u = [i \in 0 .. 0 |->
                  IF i = 0 THEN <<>>
                  ELSE u[i - 1] \o SubSeq(utf8_encode(e[i]), 1,
                                     utf8_char_length(utf8_encode(e[i])[1]))]
    <3>1. Loops([i \in 0 .. 0 |-> <<>>])
      OBVIOUS
    <3>2. Loops(CHOOSE u : Loops(u))
      <4> HIDE DEF Loops
      <4> QED BY <3>1
    <3>3. (CHOOSE u : Loops(u))[0] = <<>>
      <4>1. PICK g : g = CHOOSE u : Loops(u)
        OBVIOUS
      <4>2. Loops(g)
        <5> HIDE DEF Loops
        <5> QED BY <3>2, <4>1
      <4>3. g[0] = <<>>
        BY <4>2
      <4> QED BY <4>1, <4>3
    <3>4. Len(e) = 0
      BY <2>1, <2>2
    <3>5. v = (CHOOSE u : Loops(u))[0]
      BY <2>3, <3>4, Zenon DEF text_to_string
    <3> QED BY <3>3, <3>5
  <2> QED BY <2>1, <2>2, <2>3, <2>4 DEF TextIsRead
<1>2. TextIsRead /\ [TextNext]_text_vars => TextIsRead'
  <2> SUFFICES ASSUME TextIsRead, [TextNext]_text_vars PROVE TextIsRead'
    OBVIOUS
  <2>1. text \in Seq(CodePoints) /\ \E t \in Seq(CodePoints) : text_string = text_to_string(t)
    BY DEF TextIsRead
  <2>2. CASE UNCHANGED text_vars
    BY <2>1, <2>2 DEF TextIsRead, text_vars
  <2>3. CASE TextFromString
    <3>1. UNCHANGED text_string
      BY <2>3 DEF TextFromString
    <3>2. ASSUME NEW c \in CodePoints, text' = text_from_string(Utf8(c))
          PROVE  text' \in Seq(CodePoints)
      <4>1. c \in CodePoints
        OBVIOUS
      <4>2. <<c>> \in Seq(CodePoints)
        BY <4>1
      <4> QED BY <3>2, <4>2, OneIsRead
    <3>3. ASSUME text' = text_from_string(text_string) PROVE text' \in Seq(CodePoints)
      BY <2>1, <3>3, TextToStringReads
    <3>4. text' \in Seq(CodePoints)
      BY <2>3, <3>2, <3>3 DEF TextFromString
    <3> QED BY <2>1, <3>1, <3>4 DEF TextIsRead
  <2>4. CASE TextAppend
    <3>1. PICK c \in CodePoints : text' = text \o text_from_string(Utf8(c))
      BY <2>4 DEF TextAppend
    <3>2. text' = text \o <<c>>
      BY <3>1, OneIsRead
    <3>3. <<c>> \in Seq(CodePoints)
      OBVIOUS
    <3>4. text \o <<c>> \in Seq(CodePoints)
      BY <2>1, <3>3, ConcatProperties
    <3>5. text' \in Seq(CodePoints)
      BY <3>2, <3>4
    <3> QED BY <2>1, <2>4, <3>5 DEF TextIsRead, TextAppend
  <2>5. CASE TextSlice
    <3>1. PICK end \in 0 .. Len(text) : \E start \in 0 .. end : text' = text_slice(text, start, end)
      BY <2>5 DEF TextSlice
    <3>2. PICK start \in 0 .. end : text' = SubSeq(text, start + 1, end)
      BY <3>1 DEF text_slice
    <3>3. Len(text) \in Nat /\ \A i \in 1 .. Len(text) : text[i] \in CodePoints
      BY <2>1, LenProperties, ElementOfSeq
    <3>4. \A i \in start + 1 .. end : text[i] \in CodePoints
      BY <3>3
    <3>5. text' \in Seq(CodePoints)
      BY <3>2, <3>3, <3>4, SubSeqProperties
    <3> QED BY <2>1, <2>5, <3>5 DEF TextIsRead, TextSlice
  <2>6. CASE TextToString
    BY <2>1, <2>6 DEF TextToString, TextIsRead
  <2> QED BY <2>2, <2>3, <2>4, <2>5, <2>6 DEF TextNext
<1> QED BY <1>1, <1>2, PTL DEF TextSpec

\* Whatever text is read, appended, sliced, written and read again, for any code
\* points there are, both what UTF-8 it is and what text_to_string writes of it
\* are read as it.
THEOREM TextReadsBack == TextSpec => []TextRoundTrip
<1>1. TextIsRead => TextRoundTrip
  <2> SUFFICES ASSUME TextIsRead PROVE TextRoundTrip
    OBVIOUS
  <2>1. text \in Seq(CodePoints)
    BY DEF TextIsRead
  <2>2. \A i \in DOMAIN text : text[i] \in CodePoints
    BY <2>1
  <2> QED BY <2>1, <2>2, Utf8StringReads, TextToStringReads DEF TextRoundTrip
<1> QED BY <1>1, TextInvariant, PTL

-----------------------------------------------------------------------------
(* Tokens: lines, columns, blanks *)

\* Conditions on characters, which the provers need not look into
IsNewline(c) == c = "\n"

\* n is where the line begins that the character at e is in, or the next one.
LineBegins(s, e, n) ==
    /\ n \in 0 .. e /\ (n = 0 \/ IsNewline(s[n]))
    /\ \A k \in n + 1 .. e : ~ IsNewline(s[k])

\* lineno and column are those of the character behind e.
LocatedAt(s, e, lineno, column) ==
    /\ lineno = code_lineno_of_index(s, e)
    /\ \E n : LineBegins(s, e, n) /\ column = e + 1 - n

Newlines(s, e, f) == {i \in e + 1 .. f : IsNewline(s[i])}

\* A set of numbers in an interval has a greatest one.
LEMMA GreatestOf ==
    ASSUME NEW a \in Nat, NEW b \in Nat, NEW F, F \subseteq a .. b, F # {}
    PROVE  \E m \in F : \A j \in F : j <= m
<1> DEFINE G == {n \in Nat : b - n \in F}
<1>1. G # {} /\ G \subseteq Nat
  <2>1. PICK x \in F : x \in a .. b
    OBVIOUS
  <2>2. b - x \in Nat /\ b - (b - x) = x
    BY <2>1
  <2>3. b - x \in G
    BY <2>1, <2>2
  <2> QED BY <2>3
<1>2. PICK n \in G : \A j \in G : n <= j
  <2> HIDE DEF G
  <2> QED BY <1>1, LeastOf
<1>3. n \in Nat /\ b - n \in F
  BY <1>2
<1>4. ASSUME NEW j \in F PROVE j <= b - n
  <2>1. j \in a .. b
    OBVIOUS
  <2>2. b - j \in Nat /\ b - (b - j) = j
    BY <2>1
  <2>3. b - j \in G
    BY <1>4, <2>2
  <2>4. n <= b - j
    BY <1>2, <2>3
  <2> QED BY <1>3, <2>1, <2>4
<1> QED BY <1>3, <1>4

\* The ends of lines up to f are those up to e and those behind.
LEMMA LinesAdd ==
    ASSUME NEW s, NEW e \in Nat, NEW f \in Nat, e <= f
    PROVE  /\ IsFiniteSet(Newlines(s, e, f))
           /\ code_lineno_of_index(s, e) \in Nat
           /\ code_lineno_of_index(s, f) =
                code_lineno_of_index(s, e) + Cardinality(Newlines(s, e, f))
<1> DEFINE A == {i \in 1 .. e : s[i] = "\n"}
           B == {i \in 1 .. f : s[i] = "\n"}
           C == Newlines(s, e, f)
<1>1. IsFiniteSet(A)
  <2>1. IsFiniteSet(1 .. e)
    BY FS_Interval
  <2> QED BY <2>1, FS_Subset
<1>2. IsFiniteSet(C)
  <2>1. IsFiniteSet(e + 1 .. f)
    BY FS_Interval
  <2>2. C \in SUBSET (e + 1 .. f)
    BY DEF Newlines
  <2> QED BY <2>1, <2>2, FS_Subset
<1>3. B = A \cup C
  <2>1. 1 .. f = (1 .. e) \cup (e + 1 .. f)
    OBVIOUS
  <2> QED BY <2>1, Zenon DEF Newlines, IsNewline
<1>4. A \cap C = {}
  <2>1. (1 .. e) \cap (e + 1 .. f) = {}
    OBVIOUS
  <2> QED BY <2>1, Zenon DEF Newlines
<1> HIDE DEF A, B, C
<1>5. /\ Cardinality(A) \in Nat /\ Cardinality(C) \in Nat
      /\ Cardinality(B) = Cardinality(A) + Cardinality(C)
  <2>1. Cardinality({}) = 0
    BY FS_EmptySet
  <2>2. Cardinality(A) \in Nat /\ Cardinality(C) \in Nat
    BY <1>1, <1>2, FS_CardinalityType
  <2>3. Cardinality(A \cup C) = Cardinality(A) + Cardinality(C) - Cardinality(A \cap C)
    BY <1>1, <1>2, FS_Union
  <2>4. Cardinality(A \cap C) = 0 /\ Cardinality(B) = Cardinality(A \cup C)
    BY <1>3, <1>4, <2>1
  <2>5. PICK a \in Nat, b \in Nat : a = Cardinality(A) /\ b = Cardinality(C)
    BY <2>2
  <2>6. Cardinality(B) = a + b - 0
    BY <2>3, <2>4, <2>5
  <2> QED BY <2>5, <2>6
<1>6. code_lineno_of_index(s, e) = 1 + Cardinality(A) /\ code_lineno_of_index(s, f) = 1 + Cardinality(B)
  BY DEF code_lineno_of_index, A, B
<1> QED BY <1>2, <1>5, <1>6 DEF C

\* The line and column of f, from those of e and the last end of a line.
LEMMA LineMoves ==
    ASSUME NEW s, NEW e \in Nat, NEW f \in Nat, e <= f, NEW lineno, NEW column,
           LocatedAt(s, e, lineno, column), NEW last,
           Newlines(s, e, f) # {} =>
             last \in Newlines(s, e, f) /\ \A j \in Newlines(s, e, f) : j <= last
    PROVE  LocatedAt(s, f, lineno + Cardinality(Newlines(s, e, f)),
                     IF Newlines(s, e, f) = {} THEN column + f - e ELSE f + 1 - last)
<1>1. code_lineno_of_index(s, f) = lineno + Cardinality(Newlines(s, e, f))
  BY LinesAdd DEF LocatedAt
<1>2. PICK n : LineBegins(s, e, n) /\ column = e + 1 - n
  BY DEF LocatedAt
<1>3. CASE Newlines(s, e, f) = {}
  <2>1. \A k \in e + 1 .. f : ~ IsNewline(s[k])
    BY <1>3 DEF Newlines
  <2>2. LineBegins(s, f, n)
    BY <1>2, <2>1 DEF LineBegins
  <2>3. column + f - e = f + 1 - n
    BY <1>2 DEF LineBegins
  <2> QED BY <1>1, <1>3, <2>2, <2>3 DEF LocatedAt
<1>4. CASE Newlines(s, e, f) # {}
  <2>1. last \in e + 1 .. f /\ IsNewline(s[last])
    BY <1>4 DEF Newlines
  <2>2. ASSUME NEW k \in last + 1 .. f PROVE ~ IsNewline(s[k])
    <3>1. k \in e + 1 .. f /\ ~ (k <= last)
      BY <2>1
    <3> QED BY <1>4, <3>1 DEF Newlines
  <2>3. LineBegins(s, f, last)
    BY <2>1, <2>2 DEF LineBegins
  <2> QED BY <1>1, <1>4, <2>3 DEF LocatedAt
<1> QED BY <1>3, <1>4

\* At the beginning of a string.
LEMMA LocatedFirst ==
    ASSUME NEW s
    PROVE  LocatedAt(s, 0, 1, 1)
<1>1. {i \in 1 .. 0 : s[i] = "\n"} = {}
  OBVIOUS
<1>2. code_lineno_of_index(s, 0) = 1
  <2>1. PICK n, S : n = 0 /\ S = {i \in 1 .. n : s[i] = "\n"}
    OBVIOUS
  <2>2. Cardinality(S) = 0
    BY <1>1, <2>1, FS_EmptySet
  <2>3. code_lineno_of_index(s, n) = 1 + Cardinality(S)
    BY <2>1, Zenon DEF code_lineno_of_index
  <2> QED BY <2>1, <2>2, <2>3
<1>3. LineBegins(s, 0, 0) /\ 1 = 0 + 1 - 0
  BY DEF LineBegins
<1> QED BY <1>2, <1>3 DEF LocatedAt

\* The lexer in the source s with the cursor at e
Stands(self, s, e, lineno, column, tokens, phase) ==
    self = [string |-> s, cursor |-> e, lineno |-> lineno, column |-> column,
            token_list |-> tokens, phase |-> phase]

\* forward keeps line and column right, whatever lies between.
LEMMA ForwardIs ==
    ASSUME NEW s, NEW e \in Nat, NEW f \in Nat, e <= f, NEW lineno, NEW column,
           LocatedAt(s, e, lineno, column), NEW tokens, NEW phase, NEW self,
           Stands(self, s, e, lineno, column, tokens, phase)
    PROVE  \E l, c : /\ LocatedAt(s, f, l, c)
                     /\ Stands(forward(self, f), s, f, l, c, tokens, phase)
<1> DEFINE N == Newlines(s, e, f)
<1>1. PICK last : last = CHOOSE i \in N : \A j \in N : j <= i
  OBVIOUS
<1>2. N # {} => last \in N /\ \A j \in N : j <= last
  <2> SUFFICES ASSUME N # {} PROVE \E i \in N : \A j \in N : j <= i
    BY <1>1, Zenon
  <2>1. N \subseteq e + 1 .. f /\ e + 1 \in Nat
    BY DEF Newlines
  <2> HIDE DEF N
  <2> QED BY <2>1, GreatestOf
<1>3. PICK l, c : /\ l = lineno + Cardinality(N)
                  /\ c = IF N = {} THEN column + f - e ELSE f + 1 - last
  OBVIOUS
<1>4. LocatedAt(s, f, l, c)
  BY <1>2, <1>3, LineMoves
<1>5. {i \in e + 1 .. f : s[i] = "\n"} = N
  BY Zenon DEF Newlines, IsNewline
<1>6. self.cursor = e /\ self.string = s /\ self.column = column /\ self.lineno = lineno
  BY DEF Stands
<1>7. forward(self, f) = [self EXCEPT !.cursor = f, !.lineno = l, !.column = c]
  <2> DEFINE L == {i \in self.cursor + 1 .. f : self.string[i] = "\n"}
  <2>1. L = N
    BY <1>5, <1>6, Zenon
  <2>2. forward(self, f) =
          [self EXCEPT !.cursor = f, !.lineno = self.lineno + Cardinality(L),
                       !.column = IF L = {} THEN self.column + f - self.cursor
                                  ELSE f + 1 - (CHOOSE i \in L : \A j \in L : j <= i)]
    BY Zenon DEF forward
  <2> HIDE DEF L, N
  <2>3. lineno + Cardinality(L) = l
    BY <1>3, <2>1
  <2>4. (CHOOSE i \in L : \A j \in L : j <= i) = last
    BY <1>1, <2>1, Zenon
  <2>5. (IF L = {} THEN self.column + f - self.cursor
         ELSE f + 1 - (CHOOSE i \in L : \A j \in L : j <= i)) = c
    <3>1. PICK x : x = CHOOSE i \in L : \A j \in L : j <= i
      OBVIOUS
    <3>2. x = last /\ c = IF L = {} THEN self.column + f - self.cursor ELSE f + 1 - last
      BY <1>3, <1>6, <2>1, <2>4, <3>1
    <3>3. f + 1 - (CHOOSE i \in L : \A j \in L : j <= i) = f + 1 - last
      BY <3>1, <3>2
    <3> QED BY <3>2, <3>3, Zenon
  <2> QED BY <1>6, <2>2, <2>3, <2>5, Zenon
<1>8. [self EXCEPT !.cursor = f, !.lineno = l, !.column = c] =
        [string |-> s, cursor |-> f, lineno |-> l, column |-> c,
         token_list |-> tokens, phase |-> phase]
  <2> HIDE DEF N
  <2>1. PICK x : x = [self EXCEPT !.cursor = f]
    OBVIOUS
  <2>2. PICK y : y = [x EXCEPT !.lineno = l]
    OBVIOUS
  <2>3. x = [string |-> s, cursor |-> f, lineno |-> lineno, column |-> column,
             token_list |-> tokens, phase |-> phase]
    BY <2>1 DEF Stands
  <2>4. y = [string |-> s, cursor |-> f, lineno |-> l, column |-> column,
             token_list |-> tokens, phase |-> phase]
    BY <2>2, <2>3
  <2>5. [y EXCEPT !.column = c] =
          [string |-> s, cursor |-> f, lineno |-> l, column |-> c,
           token_list |-> tokens, phase |-> phase]
    BY <2>4
  <2>6. [self EXCEPT !.cursor = f, !.lineno = l, !.column = c] = [y EXCEPT !.column = c]
    BY <2>1, <2>2, Zenon
  <2> QED BY <2>5, <2>6
<1>9. Stands(forward(self, f), s, f, l, c, tokens, phase)
  BY <1>7, <1>8, Zenon DEF Stands
<1> QED BY <1>4, <1>9

-----------------------------------------------------------------------------

\* Conditions on characters, kinds and phases
IsSpace(c) == c \in Spaces
IsSemicolon(c) == c = ";"
IsQuote(c) == c = "\""
IsBackslash(c) == c = "\\"
IsString(kind) == kind = "STRING"
IsGeneric(kind) == kind = "GENERIC"
IsInt(kind) == kind = "INT"
IsDone(phase) == phase = "done"

\* A C string has no NUL.
Sourced(s) == s \in Seq(Characters) /\ \A i \in 1 .. Len(s) : s[i] # "NUL"

\* Behind a up to b are spaces, ends of lines and comments.
BlankIn(s, a, b) ==
    \A i \in a + 1 .. b :
      \/ IsSpace(s[i])
      \/ \E j \in a + 1 .. i : /\ IsSemicolon(s[j])
                               /\ \A k \in j .. i - 1 : ~ IsNewline(s[k])

\* token_t
IsToken(t) ==
    \E string, kind, start, end, lineno, column, int_value :
      t = [string |-> string, kind |-> kind, start |-> start, end |-> end,
           lineno |-> lineno, column |-> column, int_value |-> int_value]

\* A token is over its text, behind the one before that ends at last, and located.
TokenFits(s, t, last) ==
    /\ IsToken(t) /\ t.string \in Seq(Characters) /\ last \in Nat /\ t.start \in Nat /\ t.end \in Nat
    /\ last <= t.start /\ t.start <= t.end /\ t.end <= Len(s)
    /\ LocatedAt(s, t.end, t.lineno, t.column)
    /\ ~ IsString(t.kind) => slice(s, t.start, t.end) = t.string /\ BlankIn(s, last, t.start)
    /\ IsString(t.kind) =>
         /\ t.end < Len(s) /\ IsQuote(s[t.end + 1])
         /\ \/ /\ slice(s, t.start, t.end) = t.string
               /\ last < t.start /\ IsQuote(s[t.start]) /\ BlankIn(s, last, t.start - 1)
            \/ \E k \in last + 1 .. t.end : IsBackslash(s[k])

\* Where the lexer stands after a token: behind the quote that closes a string.
AfterToken(t) == t.end + (IF IsString(t.kind) THEN 1 ELSE 0)
Behind(tokens, i) == IF i = 1 THEN 0 ELSE AfterToken(tokens[i - 1])

\* The tokens lie next to each other up to the cursor but for blanks.
Tiled(s, tokens, e) ==
    /\ \E S : tokens \in Seq(S)
    /\ \A i \in 1 .. Len(tokens) : TokenFits(s, tokens[i], Behind(tokens, i))
    /\ Behind(tokens, Len(tokens) + 1) \in Nat
    /\ Behind(tokens, Len(tokens) + 1) <= e
    /\ BlankIn(s, Behind(tokens, Len(tokens) + 1), e)

\* In the end, what is made an integer is what can be read as one.
Judges(t, phase) ==
    /\ IsDone(phase) =>
         /\ IsGeneric(t.kind) => ~ string_is_xint(t.string)
         /\ IsInt(t.kind) => /\ string_is_xint(t.string)
                             /\ t.int_value = string_parse_xint(t.string)
    /\ ~ IsDone(phase) => ~ IsInt(t.kind)
Judged(tokens, phase) == \A i \in 1 .. Len(tokens) : Judges(tokens[i], phase)

\* The inductive invariant: line and column are those of the cursor, the tokens
\* lie next to each other up to it, and their kinds are right.
Lexes(self, s, e, lineno, column, tokens, phase) ==
    /\ Stands(self, s, e, lineno, column, tokens, phase)
    /\ Sourced(s) /\ e \in 0 .. Len(s)
    /\ LocatedAt(s, e, lineno, column) /\ Tiled(s, tokens, e) /\ Judged(tokens, phase)

LexerFits(self) ==
    \E s, e, lineno, column, tokens, phase :
      Lexes(self, s, e, lineno, column, tokens, phase)

\* A source is a sequence.
LEMMA SourceLength == \A s : Sourced(s) => Len(s) \in Nat /\ s \in Seq(Characters)
BY LenProperties DEF Sourced

\* slice, elementwise.
LEMMA SliceIs ==
    ASSUME NEW S, NEW s \in Seq(S), NEW a \in Nat, NEW b \in Nat, a <= b, b <= Len(s)
    PROVE  /\ slice(s, a, b) \in Seq(S) /\ Len(slice(s, a, b)) = b - a
           /\ \A i \in 1 .. b - a : slice(s, a, b)[i] = s[a + i]
<1>1. Len(s) \in Nat
  BY LenProperties
<1>2. \A i \in a + 1 .. b : s[i] \in S
  BY <1>1, ElementOfSeq
<1>3. a + 1 \in Int /\ b \in Int
  OBVIOUS
<1>4. PICK r : r = SubSeq(s, a + 1, b)
  OBVIOUS
<1>5. /\ r \in Seq(S) /\ Len(r) = IF a + 1 <= b THEN b - (a + 1) + 1 ELSE 0
      /\ \A i \in 1 .. b - (a + 1) + 1 : r[i] = s[a + 1 + i - 1]
  BY <1>2, <1>3, <1>4, SubSeqProperties
<1>6. Len(r) = b - a
  BY <1>5
<1>7. ASSUME NEW i \in 1 .. b - a PROVE r[i] = s[a + i]
  <2>1. i \in 1 .. b - (a + 1) + 1 /\ a + 1 + i - 1 = a + i
    OBVIOUS
  <2> QED BY <1>5, <2>1
<1> QED BY <1>4, <1>5, <1>6, <1>7 DEF slice

\* What is blank in its place is blank on its own.
LEMMA BlankSlice ==
    ASSUME NEW S, NEW s \in Seq(S), NEW a \in Nat, NEW b \in Nat, a <= b, b <= Len(s),
           BlankIn(s, a, b)
    PROVE  Blank(slice(s, a, b))
<1>1. PICK r : r = slice(s, a, b)
  OBVIOUS
<1>2. r \in Seq(S) /\ Len(r) = b - a /\ \A i \in 1 .. b - a : r[i] = s[a + i]
  BY <1>1, SliceIs
<1>3. DOMAIN r = 1 .. b - a
  BY <1>2, LenProperties
<1>4. ASSUME NEW i \in 1 .. b - a
      PROVE  \/ IsSpace(r[i])
             \/ \E j \in 1 .. i : /\ IsSemicolon(r[j])
                                  /\ \A k \in j .. i - 1 : ~ IsNewline(r[k])
  <2>1. a + i \in a + 1 .. b
    OBVIOUS
  <2>2. CASE IsSpace(s[a + i])
    BY <1>2, <2>2
  <2>3. CASE \E j \in a + 1 .. a + i : /\ IsSemicolon(s[j])
                                       /\ \A k \in j .. (a + i) - 1 : ~ IsNewline(s[k])
    <3>1. PICK j \in a + 1 .. a + i : /\ IsSemicolon(s[j])
                                      /\ \A k \in j .. (a + i) - 1 : ~ IsNewline(s[k])
      BY <2>3
    <3>2. PICK m \in 1 .. i : m = j - a /\ a + m = j
      <4>1. j - a \in 1 .. i /\ a + (j - a) = j
        OBVIOUS
      <4> QED BY <4>1
    <3>3. IsSemicolon(r[m])
      <4>1. m \in 1 .. b - a
        BY <3>2
      <4> QED BY <1>2, <3>1, <3>2, <4>1
    <3>4. ASSUME NEW k \in m .. i - 1 PROVE ~ IsNewline(r[k])
      <4>1. k \in 1 .. b - a /\ a + k \in j .. (a + i) - 1
        BY <3>2
      <4> QED BY <1>2, <3>1, <4>1
    <3> QED BY <3>2, <3>3, <3>4
  <2> QED BY <2>1, <2>2, <2>3 DEF BlankIn
<1> QED BY <1>1, <1>3, <1>4, Zenon DEF Blank, IsSpace, IsSemicolon, IsNewline

\* Blanks next to each other.
LEMMA BlankJoins ==
    ASSUME NEW s, NEW a \in Nat, NEW b \in Nat, NEW c \in Nat, a <= b, b <= c,
           BlankIn(s, a, b), BlankIn(s, b, c)
    PROVE  BlankIn(s, a, c)
<1>1. ASSUME NEW i \in a + 1 .. c
      PROVE  \/ IsSpace(s[i])
             \/ \E j \in a + 1 .. i : /\ IsSemicolon(s[j])
                                      /\ \A k \in j .. i - 1 : ~ IsNewline(s[k])
  <2>1. CASE i \in a + 1 .. b
    BY <2>1 DEF BlankIn
  <2>2. CASE i \in b + 1 .. c
    <3>1. \A j \in b + 1 .. i : j \in a + 1 .. i
      OBVIOUS
    <3> QED BY <2>2, <3>1 DEF BlankIn
  <2> QED BY <2>1, <2>2
<1> QED BY <1>1 DEF BlankIn

\* Append, whatever the elements are.
LEMMA AppendAny ==
    ASSUME NEW tokens, \E S : tokens \in Seq(S), NEW t
    PROVE  /\ \E S : Append(tokens, t) \in Seq(S)
           /\ Len(tokens) \in Nat /\ Len(Append(tokens, t)) = Len(tokens) + 1
           /\ \A i \in 1 .. Len(tokens) : Append(tokens, t)[i] = tokens[i]
           /\ Append(tokens, t)[Len(tokens) + 1] = t
<1>1. PICK S : tokens \in Seq(S)
  OBVIOUS
<1>2. PICK R : R = S \cup {t}
  OBVIOUS
<1>3. Len(tokens) \in Nat /\ tokens \in [1 .. Len(tokens) -> S]
  BY <1>1, LenProperties
<1>4. tokens \in [1 .. Len(tokens) -> R]
  BY <1>2, <1>3
<1>5. tokens \in Seq(R) /\ t \in R
  <2>1. tokens \in Seq(R)
    BY <1>3, <1>4, SeqDef
  <2> QED BY <1>2, <2>1
<1> QED BY <1>3, <1>5, AppendProperties

\* A token that fits behind the others, with nothing after it.
LEMMA TilesOn ==
    ASSUME NEW s, NEW tokens, NEW e, Tiled(s, tokens, e), NEW t,
           TokenFits(s, t, Behind(tokens, Len(tokens) + 1)), NEW f \in Nat, f = AfterToken(t)
    PROVE  Tiled(s, Append(tokens, t), f)
<1>1. \E S : tokens \in Seq(S)
  BY DEF Tiled
<1>2. PICK N \in Nat : N = Len(tokens)
  BY <1>1, AppendAny
<1>3. PICK more : more = Append(tokens, t)
  OBVIOUS
<1>4. \A i \in 1 .. N : more[i] = tokens[i]
  BY <1>1, <1>2, <1>3, AppendAny
<1>5. Len(more) = N + 1 /\ more[N + 1] = t /\ \E S : more \in Seq(S)
  BY <1>1, <1>2, <1>3, AppendAny
<1>6. ASSUME NEW i \in 1 .. N + 1 PROVE Behind(more, i) = Behind(tokens, i)
  <2>1. CASE i = 1
    BY <2>1 DEF Behind
  <2>2. CASE i # 1
    <3>1. i - 1 \in 1 .. N
      BY <2>2
    <3> QED BY <1>4, <2>2, <3>1 DEF Behind
  <2> QED BY <2>1, <2>2
<1>7. ASSUME NEW i \in 1 .. N + 1 PROVE TokenFits(s, more[i], Behind(more, i))
  <2>1. CASE i = N + 1
    BY <1>2, <1>5, <1>6, <2>1
  <2>2. CASE i \in 1 .. N
    <3>1. TokenFits(s, tokens[i], Behind(tokens, i))
      BY <1>2, <2>2 DEF Tiled
    <3> QED BY <1>4, <1>6, <2>2, <3>1
  <2> QED BY <2>1, <2>2
<1>8. Behind(more, (N + 1) + 1) = f
  <2>1. (N + 1) + 1 # 1 /\ ((N + 1) + 1) - 1 = N + 1
    OBVIOUS
  <2> QED BY <1>5, <2>1 DEF Behind
<1>9. BlankIn(s, f, f)
  BY DEF BlankIn
<1> QED BY <1>3, <1>5, <1>7, <1>8, <1>9 DEF Tiled

\* No token is an integer before the end.
LEMMA JudgesOn ==
    ASSUME NEW s, NEW tokens, NEW e, Tiled(s, tokens, e), NEW phase, ~ IsDone(phase),
           Judged(tokens, phase), NEW t, ~ IsInt(t.kind)
    PROVE  Judged(Append(tokens, t), phase)
<1>1. \E S : tokens \in Seq(S)
  BY DEF Tiled
<1>2. PICK N \in Nat : N = Len(tokens)
  BY <1>1, AppendAny
<1>3. PICK more : more = Append(tokens, t)
  OBVIOUS
<1>4. /\ Len(more) = N + 1 /\ more[N + 1] = t
      /\ \A i \in 1 .. N : more[i] = tokens[i]
  BY <1>1, <1>2, <1>3, AppendAny
<1>5. ASSUME NEW i \in 1 .. N + 1 PROVE Judges(more[i], phase)
  <2>1. CASE i = N + 1
    BY <1>4, <2>1 DEF Judges
  <2>2. CASE i \in 1 .. N
    <3>1. Judges(tokens[i], phase)
      BY <1>2, <2>2 DEF Judged
    <3> QED BY <1>4, <2>2, <3>1
  <2> QED BY <2>1, <2>2
<1> QED BY <1>3, <1>4, <1>5 DEF Judged

-----------------------------------------------------------------------------

\* The least of a set of numbers is what it says.
LEMMA LeastIs ==
    ASSUME NEW F, F \subseteq Nat, F # {}
    PROVE  Least(F) \in F /\ \A j \in F : Least(F) <= j
<1>1. \E i \in F : \A j \in F : i <= j
  BY LeastOf
<1> QED BY <1>1, Zenon DEF Least

\* A token is put behind the others, and has the place that the lexer has then.
LEMMA Pushes ==
    ASSUME NEW s, NEW e \in Nat, NEW f \in Nat, e <= f, NEW lineno, NEW column,
           LocatedAt(s, e, lineno, column), NEW tokens, NEW phase, NEW self,
           Stands(self, s, e, lineno, column, tokens, phase),
           NEW spelling, NEW kind
    PROVE  \E l, c, t :
             /\ LocatedAt(s, f, l, c)
             /\ t = [string |-> spelling, kind |-> kind, start |-> f - Len(spelling), end |-> f,
                     lineno |-> l, column |-> c, int_value |-> 0]
             /\ Stands(push_token(forward(self, f), spelling, kind), s, f, l, c,
                       Append(tokens, t), phase)
<1>1. PICK l, c : /\ LocatedAt(s, f, l, c)
                  /\ Stands(forward(self, f), s, f, l, c, tokens, phase)
  BY ForwardIs
<1>2. PICK x : x = forward(self, f)
  OBVIOUS
<1>3. x.cursor = f /\ x.lineno = l /\ x.column = c /\ x.token_list = tokens
  BY <1>1, <1>2 DEF Stands
<1>4. PICK t : t = [string |-> spelling, kind |-> kind, start |-> f - Len(spelling), end |-> f,
                    lineno |-> l, column |-> c, int_value |-> 0]
  OBVIOUS
<1>5. push_token(x, spelling, kind) = [x EXCEPT !.token_list = Append(x.token_list, t)]
  BY <1>3, <1>4, Zenon DEF push_token
<1>6. push_token(x, spelling, kind) =
        [string |-> s, cursor |-> f, lineno |-> l, column |-> c,
         token_list |-> Append(tokens, t), phase |-> phase]
  <2>1. PICK more : more = Append(tokens, t)
    OBVIOUS
  <2>2. x = [string |-> s, cursor |-> f, lineno |-> l, column |-> c,
             token_list |-> tokens, phase |-> phase]
    BY <1>1, <1>2, Zenon DEF Stands
  <2>3. [x EXCEPT !.token_list = more] =
          [string |-> s, cursor |-> f, lineno |-> l, column |-> c,
           token_list |-> more, phase |-> phase]
    BY <2>2
  <2>4. push_token(x, spelling, kind) = [x EXCEPT !.token_list = more]
    BY <1>3, <1>5, <2>1, Zenon
  <2> QED BY <2>1, <2>3, <2>4, Zenon
<1>7. Stands(push_token(forward(self, f), spelling, kind), s, f, l, c, Append(tokens, t), phase)
  BY <1>2, <1>6, Zenon DEF Stands
<1> QED BY <1>1, <1>4, <1>7

\* Going on over blanks.
LEMMA BlankMove ==
    ASSUME NEW self, NEW s, NEW e, NEW lineno, NEW column, NEW tokens, NEW phase,
           Lexes(self, s, e, lineno, column, tokens, phase),
           NEW f \in Nat, e <= f, f <= Len(s), BlankIn(s, e, f)
    PROVE  LexerFits(forward(self, f))
<1>1. e \in Nat /\ Len(s) \in Nat
  BY SourceLength DEF Lexes
<1>2. PICK l, c : /\ LocatedAt(s, f, l, c)
                  /\ Stands(forward(self, f), s, f, l, c, tokens, phase)
  <2>1. /\ LocatedAt(s, e, lineno, column)
        /\ Stands(self, s, e, lineno, column, tokens, phase)
    BY DEF Lexes
  <2>2. e \in Nat /\ f \in Nat /\ e <= f
    BY <1>1
  <2> QED BY <2>1, <2>2, ForwardIs
<1>3. Tiled(s, tokens, f)
  <2>1. PICK last \in Nat : last = Behind(tokens, Len(tokens) + 1)
    BY DEF Lexes, Tiled
  <2>2. last <= e /\ BlankIn(s, last, e)
    BY <2>1 DEF Lexes, Tiled
  <2>3. BlankIn(s, last, f) /\ last <= f
    BY <1>1, <2>2, BlankJoins
  <2> QED BY <2>1, <2>3 DEF Lexes, Tiled
<1>4. Lexes(forward(self, f), s, f, l, c, tokens, phase)
  BY <1>1, <1>2, <1>3 DEF Lexes
<1> QED BY <1>4 DEF LexerFits

\* A token over the text from the cursor on, up to f.
LEMMA TokenMove ==
    ASSUME NEW self, NEW s, NEW e, NEW lineno, NEW column, NEW tokens, NEW phase,
           Lexes(self, s, e, lineno, column, tokens, phase),
           NEW f \in Nat, e <= f, f <= Len(s), NEW kind, ~ IsString(kind),
           ~ IsInt(kind), ~ IsDone(phase), NEW spelling, spelling = slice(s, e, f)
    PROVE  LexerFits(push_token(forward(self, f), spelling, kind))
<1>1. e \in Nat /\ Len(s) \in Nat /\ s \in Seq(Characters)
  BY SourceLength DEF Lexes
<1>2. Len(spelling) = f - e /\ spelling \in Seq(Characters)
  BY <1>1, SliceIs
<1>3. PICK l, c, t :
        /\ LocatedAt(s, f, l, c)
        /\ t = [string |-> spelling, kind |-> kind, start |-> f - Len(spelling), end |-> f,
                lineno |-> l, column |-> c, int_value |-> 0]
        /\ Stands(push_token(forward(self, f), spelling, kind), s, f, l, c,
                  Append(tokens, t), phase)
  <2>1. /\ LocatedAt(s, e, lineno, column)
        /\ Stands(self, s, e, lineno, column, tokens, phase)
    BY DEF Lexes
  <2>2. e \in Nat /\ f \in Nat /\ e <= f
    BY <1>1
  <2> QED BY <2>1, <2>2, Pushes
<1>4. /\ t.start = e /\ t.end = f /\ t.lineno = l /\ t.column = c
      /\ t.kind = kind /\ t.string = spelling
  <2>1. f - Len(spelling) = e
    BY <1>1, <1>2
  <2> QED BY <1>3, <2>1
<1>5. PICK last \in Nat : last = Behind(tokens, Len(tokens) + 1)
  BY DEF Lexes, Tiled
<1>6. last <= e /\ BlankIn(s, last, e)
  BY <1>5 DEF Lexes, Tiled
<1>7. TokenFits(s, t, last)
  <2>1. IsToken(t)
    BY <1>3, Zenon DEF IsToken
  <2> QED BY <1>1, <1>2, <1>3, <1>4, <1>6, <2>1 DEF TokenFits
<1>8. AfterToken(t) = f
  BY <1>4 DEF AfterToken
<1>9. Tiled(s, Append(tokens, t), f)
  BY <1>5, <1>7, <1>8, TilesOn DEF Lexes
<1>10. Judged(Append(tokens, t), phase)
  <2>1. ~ IsInt(t.kind)
    BY <1>4
  <2> QED BY <2>1, JudgesOn DEF Lexes
<1>11. Lexes(push_token(forward(self, f), spelling, kind), s, f, l, c, Append(tokens, t), phase)
  BY <1>1, <1>3, <1>9, <1>10 DEF Lexes
<1> QED BY <1>11 DEF LexerFits

\* ignore_space goes on over spaces only.
LEMMA SpaceFits ==
    ASSUME NEW self, NEW s, NEW e, NEW lineno, NEW column, NEW tokens, NEW phase,
           Lexes(self, s, e, lineno, column, tokens, phase)
    PROVE  LexerFits(ignore_space(self))
<1>1. e \in 0 .. Len(s) /\ Len(s) \in Nat
  BY SourceLength DEF Lexes
<1> DEFINE blanks == {i \in e .. Len(s) : i = Len(s) \/ s[i + 1] \notin Spaces}
<1>2. blanks \subseteq Nat /\ Len(s) \in blanks
  BY <1>1
<1>3. PICK f : f = Least(blanks)
  OBVIOUS
<1>4. f \in blanks /\ \A j \in blanks : f <= j
  <2> HIDE DEF blanks
  <2> QED BY <1>2, <1>3, LeastIs
<1>5. f \in e .. Len(s)
  BY <1>4
<1>6. BlankIn(s, e, f)
  <2>1. ASSUME NEW i \in e + 1 .. f PROVE IsSpace(s[i])
    <3>1. i - 1 \in e .. Len(s) /\ ~ (f <= i - 1) /\ (i - 1) + 1 = i /\ i - 1 # Len(s)
      BY <1>1, <1>5
    <3>2. i - 1 \notin blanks
      BY <1>4, <3>1
    <3>3. s[(i - 1) + 1] \in Spaces
      BY <3>1, <3>2
    <3> QED BY <3>1, <3>3 DEF IsSpace
  <2> QED BY <2>1 DEF BlankIn
<1>7. self.cursor = e /\ self.string = s
  BY DEF Lexes, Stands
<1>8. ignore_space(self) = forward(self, f)
  BY <1>3, <1>7, Zenon DEF ignore_space
<1> QED BY <1>1, <1>5, <1>6, <1>8, BlankMove

\* Where the next of some characters is, or the end.
LEMMA IndexFound ==
    ASSUME NEW self, NEW s, NEW e, NEW lineno, NEW column, NEW tokens, NEW phase,
           Lexes(self, s, e, lineno, column, tokens, phase), NEW C
    PROVE  /\ index_of(self, C) \in e .. Len(s)
           /\ \A i \in e + 1 .. index_of(self, C) : s[i] \notin C
<1>1. e \in 0 .. Len(s) /\ Len(s) \in Nat
  BY SourceLength DEF Lexes
<1> DEFINE found == {i \in e .. Len(s) : i = Len(s) \/ s[i + 1] \in C}
<1>2. found \subseteq Nat /\ Len(s) \in found
  BY <1>1
<1>3. PICK f : f = Least(found)
  OBVIOUS
<1>4. f \in found /\ \A j \in found : f <= j
  <2> HIDE DEF found
  <2> QED BY <1>2, <1>3, LeastIs
<1>5. f \in e .. Len(s)
  BY <1>4
<1>6. ASSUME NEW i \in e + 1 .. f PROVE s[i] \notin C
  <2>1. i - 1 \in e .. Len(s) /\ ~ (f <= i - 1) /\ (i - 1) + 1 = i /\ i - 1 # Len(s)
    BY <1>1, <1>5
  <2>2. i - 1 \notin found
    BY <1>4, <2>1
  <2> QED BY <2>1, <2>2
<1>7. self.cursor = e /\ self.string = s
  BY DEF Lexes, Stands
<1>8. index_of(self, C) = f
  BY <1>3, <1>7, Zenon DEF index_of
<1> QED BY <1>5, <1>6, <1>8

\* ignore_comment goes on over the comment and its end of line.
LEMMA CommentFits ==
    ASSUME NEW self, NEW s, NEW e, NEW lineno, NEW column, NEW tokens, NEW phase,
           Lexes(self, s, e, lineno, column, tokens, phase), e < Len(s), IsSemicolon(s[e + 1])
    PROVE  LexerFits(ignore_comment(self))
<1>1. e \in 0 .. Len(s) /\ Len(s) \in Nat
  BY SourceLength DEF Lexes
<1>2. PICK C : C = {"\n"}
  OBVIOUS
<1>3. PICK newline : newline = index_of(self, C)
  OBVIOUS
<1>4. newline \in e .. Len(s) /\ \A i \in e + 1 .. newline : ~ IsNewline(s[i])
  <2>1. newline \in e .. Len(s) /\ \A i \in e + 1 .. newline : s[i] \notin C
    BY <1>3, IndexFound
  <2>2. \A x : IsNewline(x) => x \in C
    BY <1>2 DEF IsNewline
  <2> QED BY <2>1, <2>2
<1>5. PICK f : f = IF newline = Len(s) THEN newline ELSE newline + 1
  OBVIOUS
<1>6. f \in Nat /\ e <= f /\ f <= Len(s) /\ f <= newline + 1
  BY <1>1, <1>4, <1>5
<1>7. BlankIn(s, e, f)
  <2>1. ASSUME NEW i \in e + 1 .. f
        PROVE  \E j \in e + 1 .. i : /\ IsSemicolon(s[j])
                                     /\ \A k \in j .. i - 1 : ~ IsNewline(s[k])
    <3>1. e + 1 \in e + 1 .. i
      BY <1>1
    <3>2. \A k \in e + 1 .. i - 1 : k \in e + 1 .. newline
      BY <1>1, <1>4, <1>6
    <3> QED BY <1>4, <3>1, <3>2
  <2> QED BY <2>1 DEF BlankIn
<1>8. self.string = s
  BY DEF Lexes, Stands
<1>9. ignore_comment(self) = forward(self, f)
  BY <1>2, <1>3, <1>5, <1>8, Zenon DEF ignore_comment
<1> QED BY <1>6, <1>7, <1>9, BlankMove

\* collect_delimiter takes the one character.
LEMMA DelimiterFits ==
    ASSUME NEW self, NEW s, NEW e, NEW lineno, NEW column, NEW tokens, NEW phase,
           Lexes(self, s, e, lineno, column, tokens, phase), ~ IsDone(phase), e < Len(s)
    PROVE  LexerFits(collect_delimiter(self))
<1>1. e \in 0 .. Len(s) /\ Len(s) \in Nat /\ s \in Seq(Characters)
  BY SourceLength DEF Lexes
<1>2. self.cursor = e /\ self.string = s /\ e # Len(s)
  BY <1>1 DEF Lexes, Stands
<1>3. PICK c \in Characters : c = s[e + 1]
  <2>1. e + 1 \in 1 .. Len(s)
    BY <1>1
  <2> QED BY <1>1, <2>1, ElementOfSeq
<1>4. current_char(self) = c
  BY <1>2, <1>3, Zenon DEF current_char
<1>5. <<c>> = slice(s, e, e + 1)
  <2>1. PICK r : r = slice(s, e, e + 1)
    OBVIOUS
  <2>2. /\ r \in Seq(Characters) /\ Len(r) = (e + 1) - e
        /\ \A i \in 1 .. (e + 1) - e : r[i] = s[e + i]
    <3>1. PICK f \in Nat : f = e + 1
      BY <1>1
    <3>2. e \in Nat /\ e <= f /\ f <= Len(s)
      BY <1>1, <3>1
    <3>3. /\ slice(s, e, f) \in Seq(Characters) /\ Len(slice(s, e, f)) = f - e
          /\ \A i \in 1 .. f - e : slice(s, e, f)[i] = s[e + i]
      BY <1>1, <3>2, SliceIs
    <3> QED BY <2>1, <3>1, <3>3
  <2>3. Len(r) = 1 /\ r[1] = c
    BY <1>1, <1>3, <2>2
  <2>4. PICK q : q = <<c>>
    OBVIOUS
  <2>5. q \in Seq(Characters) /\ Len(q) = 1 /\ q[1] = c
    <3>1. c \in Characters
      OBVIOUS
    <3> QED BY <2>4, <3>1
  <2>6. \A i \in 1 .. Len(q) : q[i] = r[i]
    BY <2>3, <2>5
  <2>7. q = r
    BY <2>2, <2>3, <2>5, <2>6, SeqEqual
  <2> QED BY <2>1, <2>4, <2>7
<1>6. PICK kind : kind = "DELIMITER"
  OBVIOUS
<1>7. ~ IsString(kind) /\ ~ IsInt(kind)
  BY <1>6 DEF IsString, IsInt
<1>8. collect_delimiter(self) = push_token(forward(self, e + 1), <<c>>, kind)
  BY <1>2, <1>4, <1>6, Zenon DEF collect_delimiter
<1>9. e + 1 \in Nat /\ e <= e + 1 /\ e + 1 <= Len(s)
  BY <1>1
<1> QED BY <1>5, <1>7, <1>8, <1>9, TokenMove

\* collect_generic takes the text up to a space or a delimiter.
LEMMA GenericFits ==
    ASSUME NEW self, NEW s, NEW e, NEW lineno, NEW column, NEW tokens, NEW phase,
           Lexes(self, s, e, lineno, column, tokens, phase), ~ IsDone(phase)
    PROVE  LexerFits(collect_generic(self))
<1>1. e \in 0 .. Len(s) /\ Len(s) \in Nat
  BY SourceLength DEF Lexes
<1>2. self.cursor = e /\ self.string = s
  BY DEF Lexes, Stands
<1>3. PICK f : f = index_of(self, Spaces \cup Delimiters)
  OBVIOUS
<1>4. f \in Nat /\ e <= f /\ f <= Len(s)
  <2>1. f \in e .. Len(s)
    BY <1>3, IndexFound
  <2> QED BY <1>1, <2>1
<1>5. PICK kind : kind = "GENERIC"
  OBVIOUS
<1>6. ~ IsString(kind) /\ ~ IsInt(kind)
  BY <1>5 DEF IsString, IsInt
<1>7. collect_generic(self) = push_token(forward(self, f), slice(s, e, f), kind)
  BY <1>2, <1>3, <1>5, Zenon DEF collect_generic
<1> QED BY <1>4, <1>6, <1>7, TokenMove

-----------------------------------------------------------------------------
(* collect_string *)

\* Of what is read of a string from the quote at e on: as much as there is, and
\* the same if nothing is escaped.
ReadsOn(s, e, r) ==
    /\ Len(r.buffer) <= r.cursor - (e + 1)
    /\ \/ \E k \in e + 2 .. r.cursor : IsBackslash(s[k])
       \/ /\ Len(r.buffer) = r.cursor - (e + 1)
          /\ \A i \in 1 .. Len(r.buffer) : r.buffer[i] = s[e + 1 + i]
    /\ r.closed => r.cursor < Len(s) /\ IsQuote(s[r.cursor + 1])

\* The states of the loop of collect_string
Readings(s, e) ==
    {r \in [cursor : e + 1 .. Len(s), buffer : Seq(Characters), closed : BOOLEAN] :
       ReadsOn(s, e, r)}

\* A character is collected: the one at the cursor, or one that is escaped.
LEMMA Collects ==
    ASSUME NEW s, NEW e \in Nat, Len(s) \in Nat, NEW r \in Readings(s, e), ~ r.closed,
           NEW c \in Characters, NEW f \in r.cursor + 1 .. Len(s),
           \/ \E k \in r.cursor + 1 .. f : IsBackslash(s[k])
           \/ f = r.cursor + 1 /\ c = s[f]
    PROVE  [r EXCEPT !.cursor = f, !.buffer = Append(r.buffer, c)] \in Readings(s, e)
<1>1. /\ r \in [cursor : e + 1 .. Len(s), buffer : Seq(Characters), closed : BOOLEAN]
      /\ ReadsOn(s, e, r)
  BY DEF Readings
<1>2. PICK at \in e + 1 .. Len(s) : at = r.cursor
  BY <1>1
<1>3. PICK b \in Seq(Characters) : b = r.buffer
  BY <1>1
<1>4. PICK n \in Nat : n = Len(b)
  BY <1>3, LenProperties
<1>5. PICK more : more = Append(b, c)
  OBVIOUS
<1>6. /\ more \in Seq(Characters) /\ Len(more) = n + 1 /\ more[n + 1] = c
      /\ \A i \in 1 .. n : more[i] = b[i]
  <2>1. b \in Seq(Characters) /\ c \in Characters
    OBVIOUS
  <2> QED BY <1>4, <1>5, <2>1, AppendProperties
<1>7. PICK x : x = [r EXCEPT !.cursor = f]
  OBVIOUS
<1>8. PICK y : y = [x EXCEPT !.buffer = more]
  OBVIOUS
<1>9. f \in e + 1 .. Len(s) /\ f \in at + 1 .. Len(s)
  BY <1>2
<1>10. /\ x \in [cursor : e + 1 .. Len(s), buffer : Seq(Characters), closed : BOOLEAN]
       /\ x.cursor = f /\ x.closed = r.closed
  BY <1>1, <1>7, <1>9
<1>11. /\ y \in [cursor : e + 1 .. Len(s), buffer : Seq(Characters), closed : BOOLEAN]
       /\ y.cursor = f /\ y.buffer = more /\ y.closed = x.closed
  BY <1>6, <1>8, <1>10
<1>12. ~ y.closed
  BY <1>10, <1>11, Zenon
<1>13. n <= at - (e + 1)
  BY <1>1, <1>2, <1>3, <1>4 DEF ReadsOn
<1>14. \/ \E k \in e + 2 .. f : IsBackslash(s[k])
       \/ /\ n + 1 = f - (e + 1)
          /\ \A i \in 1 .. n + 1 : more[i] = s[e + 1 + i]
  <2>1. CASE \E k \in at + 1 .. f : IsBackslash(s[k])
    BY <1>2, <2>1
  <2>2. CASE f = at + 1 /\ c = s[f]
    <3>1. CASE \E k \in e + 2 .. at : IsBackslash(s[k])
      BY <1>2, <1>9, <3>1
    <3>2. CASE n = at - (e + 1) /\ \A i \in 1 .. n : b[i] = s[e + 1 + i]
      <4>1. n + 1 = f - (e + 1) /\ e + 1 + (n + 1) = f
        BY <1>2, <2>2, <3>2
      <4>2. ASSUME NEW i \in 1 .. n + 1 PROVE more[i] = s[e + 1 + i]
        <5>1. CASE i = n + 1
          BY <1>6, <2>2, <4>1, <5>1
        <5>2. CASE i \in 1 .. n
          BY <1>6, <3>2, <5>2
        <5> QED BY <5>1, <5>2
      <4> QED BY <4>1, <4>2
    <3> QED BY <1>1, <1>2, <1>3, <1>4, <3>1, <3>2 DEF ReadsOn
  <2> QED BY <1>2, <2>1, <2>2
<1>15. n + 1 <= f - (e + 1)
  BY <1>9, <1>13
<1>16. ReadsOn(s, e, y)
  BY <1>6, <1>11, <1>12, <1>14, <1>15 DEF ReadsOn
<1>17. [r EXCEPT !.cursor = f, !.buffer = Append(r.buffer, c)] = y
  BY <1>3, <1>5, <1>7, <1>8, Zenon
<1> QED BY <1>11, <1>16, <1>17 DEF Readings

\* The string ends at a quote.
LEMMA Closes ==
    ASSUME NEW s, NEW e \in Nat, Len(s) \in Nat, NEW r \in Readings(s, e),
           r.cursor < Len(s), IsQuote(s[r.cursor + 1]), NEW b, b = TRUE
    PROVE  [r EXCEPT !.closed = b] \in Readings(s, e)
<1>1. /\ r \in [cursor : e + 1 .. Len(s), buffer : Seq(Characters), closed : BOOLEAN]
      /\ ReadsOn(s, e, r)
  BY DEF Readings
<1>2. b \in BOOLEAN
  BY Zenon
<1>3. PICK y : y = [r EXCEPT !.closed = b]
  OBVIOUS
<1>4. /\ y \in [cursor : e + 1 .. Len(s), buffer : Seq(Characters), closed : BOOLEAN]
      /\ y.cursor = r.cursor /\ y.buffer = r.buffer
  BY <1>1, <1>2, <1>3
<1>5. ReadsOn(s, e, y)
  BY <1>1, <1>4 DEF ReadsOn
<1> QED BY <1>3, <1>4, <1>5 DEF Readings

\* What an escape stands for is a character.
LEMMA EscapedIs ==
    ASSUME NEW c \in Characters, c \in Escapable
    PROVE  Escaped(c) \in Characters
<1>1. CASE c = "n"
  <2>1. /\ c # "t" /\ c # "b" /\ c # "f" /\ c # "r" /\ c # "0"
        /\ c \notin {"\"", "\\"}
    BY <1>1
  <2>2. Escaped(c) = "\n"
    BY <1>1, <2>1, Zenon DEF Escaped
  <2> QED BY <2>2, Zenon DEF Characters
<1>2. CASE c = "t"
  <2>1. /\ c # "n" /\ c # "b" /\ c # "f" /\ c # "r" /\ c # "0"
        /\ c \notin {"\"", "\\"}
    BY <1>2
  <2>2. Escaped(c) = "\t"
    BY <1>2, <2>1, Zenon DEF Escaped
  <2> QED BY <2>2, Zenon DEF Characters
<1>3. CASE c = "b"
  <2>1. /\ c # "n" /\ c # "t" /\ c # "f" /\ c # "r" /\ c # "0"
        /\ c \notin {"\"", "\\"}
    BY <1>3
  <2>2. Escaped(c) = "BS"
    BY <1>3, <2>1, Zenon DEF Escaped
  <2> QED BY <2>2, Zenon DEF Characters
<1>4. CASE c = "f"
  <2>1. /\ c # "n" /\ c # "t" /\ c # "b" /\ c # "r" /\ c # "0"
        /\ c \notin {"\"", "\\"}
    BY <1>4
  <2>2. Escaped(c) = "\f"
    BY <1>4, <2>1, Zenon DEF Escaped
  <2> QED BY <2>2, Zenon DEF Characters
<1>5. CASE c = "r"
  <2>1. /\ c # "n" /\ c # "t" /\ c # "b" /\ c # "f" /\ c # "0"
        /\ c \notin {"\"", "\\"}
    BY <1>5
  <2>2. Escaped(c) = "\r"
    BY <1>5, <2>1, Zenon DEF Escaped
  <2> QED BY <2>2, Zenon DEF Characters
<1>6. CASE c = "0"
  <2>1. /\ c # "n" /\ c # "t" /\ c # "b" /\ c # "f" /\ c # "r"
        /\ c \notin {"\"", "\\"}
    BY <1>6
  <2>2. Escaped(c) = "NUL"
    BY <1>6, <2>1, Zenon DEF Escaped
  <2> QED BY <2>2, Zenon DEF Characters
<1>7. CASE c \in {"\"", "\\"}
  <2>1. c # "n" /\ c # "t" /\ c # "b" /\ c # "f" /\ c # "r" /\ c # "0"
    BY <1>7
  <2>2. Escaped(c) = c
    BY <1>7, <2>1, Zenon DEF Escaped
  <2> QED BY <2>2
<1> QED BY <1>1, <1>2, <1>3, <1>4, <1>5, <1>6, <1>7, Zenon DEF Escapable

\* Any turn of the loop of collect_string goes on reading the string.
LEMMA TurnReads ==
    ASSUME NEW s, Sourced(s), NEW e \in Nat, NEW r \in Readings(s, e)
    PROVE  collect_turn(s, r) \in Readings(s, e)
<1>1. s \in Seq(Characters) /\ Len(s) \in Nat
  BY SourceLength
<1>2. PICK at \in e + 1 .. Len(s) : at = r.cursor
  BY DEF Readings
<1>3. collect_turn(s, r) =
        IF r.closed \/ at = Len(s) THEN r
        ELSE IF IsQuote(s[at + 1]) THEN [r EXCEPT !.closed = TRUE]
        ELSE IF ~ IsBackslash(s[at + 1])
             THEN [r EXCEPT !.cursor = at + 1, !.buffer = Append(r.buffer, s[at + 1])]
        ELSE IF at + 1 < Len(s) /\ s[at + 2] \in Escapable
             THEN [r EXCEPT !.cursor = at + 2, !.buffer = Append(r.buffer, Escaped(s[at + 2]))]
        ELSE r
  BY <1>2, Zenon DEF collect_turn, IsQuote, IsBackslash
<1>4. CASE r.closed \/ at = Len(s)
  BY <1>3, <1>4, Zenon
<1>5. CASE ~ (r.closed \/ at = Len(s)) /\ IsQuote(s[at + 1])
  <2>1. at < Len(s)
    BY <1>1, <1>5
  <2>2. PICK b : b = TRUE
    OBVIOUS
  <2>3. [r EXCEPT !.closed = b] \in Readings(s, e)
    BY <1>1, <1>2, <1>5, <2>1, <2>2, Closes
  <2> QED BY <1>3, <1>5, <2>2, <2>3, Zenon
<1>6. CASE ~ (r.closed \/ at = Len(s)) /\ ~ IsQuote(s[at + 1]) /\ ~ IsBackslash(s[at + 1])
  <2>1. at + 1 \in 1 .. Len(s) /\ at + 1 \in r.cursor + 1 .. Len(s)
    BY <1>1, <1>2, <1>6
  <2>2. s[at + 1] \in Characters
    BY <1>1, <2>1, ElementOfSeq
  <2>3. [r EXCEPT !.cursor = at + 1, !.buffer = Append(r.buffer, s[at + 1])] \in Readings(s, e)
    BY <1>1, <1>2, <1>6, <2>1, <2>2, Collects
  <2> QED BY <1>3, <1>6, <2>3, Zenon
<1>7. CASE /\ ~ (r.closed \/ at = Len(s)) /\ ~ IsQuote(s[at + 1]) /\ IsBackslash(s[at + 1])
           /\ at + 1 < Len(s) /\ s[at + 2] \in Escapable
  <2>1. at + 2 \in 1 .. Len(s) /\ at + 2 \in r.cursor + 1 .. Len(s)
    BY <1>1, <1>2, <1>7
  <2>2. s[at + 2] \in Characters
    BY <1>1, <2>1, ElementOfSeq
  <2>3. Escaped(s[at + 2]) \in Characters
    BY <1>7, <2>2, EscapedIs
  <2>4. \E k \in r.cursor + 1 .. at + 2 : IsBackslash(s[k])
    <3>1. at + 1 \in r.cursor + 1 .. at + 2
      BY <1>2
    <3> QED BY <1>7, <3>1
  <2>5. [r EXCEPT !.cursor = at + 2, !.buffer = Append(r.buffer, Escaped(s[at + 2]))]
          \in Readings(s, e)
    BY <1>1, <1>7, <2>1, <2>3, <2>4, Collects
  <2> QED BY <1>3, <1>7, <2>5, Zenon
<1>8. CASE /\ ~ (r.closed \/ at = Len(s)) /\ ~ IsQuote(s[at + 1]) /\ IsBackslash(s[at + 1])
           /\ ~ (at + 1 < Len(s) /\ s[at + 2] \in Escapable)
  BY <1>3, <1>8, Zenon
<1> QED BY <1>4, <1>5, <1>6, <1>7, <1>8, Zenon

\* string_copy takes no more than there is, and all of it if there is no NUL.
LEMMA CopyIs ==
    ASSUME NEW b \in Seq(Characters)
    PROVE  /\ c_string(b) \in Seq(Characters)
           /\ Len(c_string(b)) \in Nat /\ Len(b) \in Nat /\ Len(c_string(b)) <= Len(b)
           /\ (\A i \in 1 .. Len(b) : b[i] # "NUL") => c_string(b) = b
<1> DEFINE ends == {i \in DOMAIN b : b[i] = "NUL"}
<1>1. Len(b) \in Nat /\ DOMAIN b = 1 .. Len(b)
  BY LenProperties
<1>2. c_string(b) = IF ends = {} THEN b ELSE SubSeq(b, 1, Least(ends) - 1)
  BY Zenon DEF c_string
<1>3. ends \subseteq 1 .. Len(b)
  BY <1>1
<1>4. CASE ends = {}
  BY <1>1, <1>2, <1>4
<1>5. CASE ends # {}
  <2>1. PICK n \in 1 .. Len(b) : n = Least(ends) /\ b[n] = "NUL"
    <3>1. Least(ends) \in ends
      <4>1. ends \subseteq Nat
        BY <1>3
      <4> HIDE DEF ends
      <4> QED BY <1>5, <4>1, LeastIs
    <3> QED BY <1>3, <3>1
  <2>2. n - 1 \in Nat /\ n - 1 <= Len(b)
    BY <1>1
  <2>3. SubSeq(b, 1, n - 1) \in Seq(Characters) /\ Len(SubSeq(b, 1, n - 1)) = n - 1
    <3>1. \A i \in 1 .. n - 1 : b[i] \in Characters
      BY <1>1, <2>2, ElementOfSeq
    <3>2. 1 \in Int /\ n - 1 \in Int
      BY <2>2
    <3>3. /\ SubSeq(b, 1, n - 1) \in Seq(Characters)
          /\ Len(SubSeq(b, 1, n - 1)) = IF 1 <= n - 1 THEN (n - 1) - 1 + 1 ELSE 0
      BY <3>1, <3>2, SubSeqProperties
    <3> QED BY <3>3
  <2>4. c_string(b) = SubSeq(b, 1, n - 1)
    BY <1>2, <1>5, <2>1, Zenon
  <2>5. c_string(b) \in Seq(Characters) /\ Len(c_string(b)) = n - 1
    BY <2>3, <2>4, Zenon
  <2> QED BY <1>1, <2>1, <2>2, <2>5
<1> QED BY <1>4, <1>5

\* Whatever the string, it is read up to some reading.
LEMMA StringReads ==
    ASSUME NEW self, NEW s, NEW e, NEW lineno, NEW column, NEW tokens, NEW phase,
           Lexes(self, s, e, lineno, column, tokens, phase), e < Len(s)
    PROVE  \E r \in Readings(s, e) :
             collect_string(self) =
               IF ~ r.closed THEN abort(self)
               ELSE forward(push_token(forward(self, r.cursor), c_string(r.buffer), "STRING"),
                            r.cursor + 1)
<1>1. Sourced(s) /\ e \in Nat /\ self.string = s /\ self.cursor = e
  BY SourceLength DEF Lexes, Stands
<1>2. PICK N \in Nat : N = Len(s)
  BY <1>1, SourceLength
<1>3. PICK base : base = [cursor |-> e + 1, buffer |-> <<>>, closed |-> FALSE]
  OBVIOUS
<1>4. base \in Readings(s, e)
  <2>1. PICK b, q : b = FALSE /\ q = <<>>
    OBVIOUS
  <2>2. b \in BOOLEAN /\ ~ b
    BY <2>1, Zenon
  <2>3. q \in Seq(Characters) /\ Len(q) = 0
    BY <2>1, EmptySeq
  <2>4. base = [cursor |-> e + 1, buffer |-> q, closed |-> b]
    BY <1>3, <2>1, Zenon
  <2>5. e + 1 \in e + 1 .. Len(s)
    BY <1>1, <1>2
  <2>6. /\ base \in [cursor : e + 1 .. Len(s), buffer : Seq(Characters), closed : BOOLEAN]
        /\ base.cursor = e + 1 /\ base.buffer = q /\ base.closed = b
    BY <2>2, <2>3, <2>4, <2>5
  <2>7. ~ base.closed
    BY <2>2, <2>6, Zenon
  <2>8. ReadsOn(s, e, base)
    BY <1>1, <2>3, <2>6, <2>7 DEF ReadsOn
  <2> QED BY <2>6, <2>8 DEF Readings
<1>5. PICK V : V = Readings(s, e)
  OBVIOUS
<1> DEFINE step == [x \in V \X Nat |-> collect_turn(s, x[1])]
           Loops(u) == u = [n \in 0 .. Len(self.string) |->
                              IF n = 0 THEN [cursor |-> self.cursor + 1, buffer |-> <<>>,
                                             closed |-> FALSE]
                              ELSE collect_turn(self.string, u[n - 1])]
<1>6. step \in Steps(V)
  <2>1. ASSUME NEW x \in V \X Nat PROVE collect_turn(s, x[1]) \in V
    <3>1. x[1] \in Readings(s, e)
      BY <1>5
    <3> QED BY <1>1, <1>5, <3>1, TurnReads
  <2> QED BY <2>1 DEF Steps
<1>7. PICK f : Follows(f, V, base, step, N)
  <2>1. base \in V
    BY <1>4, <1>5
  <2> HIDE DEF step
  <2> QED BY <1>6, <2>1, RecursionExists
<1>8. /\ f \in [0 .. N -> V] /\ f[0] = base
      /\ \A n \in 0 .. N : n < N => f[n + 1] = collect_turn(s, f[n])
  <2>1. /\ f \in [0 .. N -> V] /\ f[0] = base
        /\ \A n \in 0 .. N : n < N => f[n + 1] = step[<<f[n], n + 1>>]
    BY <1>7 DEF Follows
  <2>2. ASSUME NEW n \in 0 .. N, n < N PROVE f[n + 1] = collect_turn(s, f[n])
    <3>1. f[n] \in V /\ n + 1 \in Nat
      BY <2>1
    <3>2. step[<<f[n], n + 1>>] = collect_turn(s, f[n])
      BY <3>1
    <3> HIDE DEF step
    <3> QED BY <2>1, <2>2, <3>2
  <2> QED BY <2>1, <2>2
<1> HIDE DEF step
<1>9. Loops(f)
  <2>1. ASSUME NEW n \in 0 .. N
        PROVE  f[n] = IF n = 0 THEN [cursor |-> self.cursor + 1, buffer |-> <<>>,
                                     closed |-> FALSE]
                      ELSE collect_turn(self.string, f[n - 1])
    <3>1. CASE n = 0
      BY <1>1, <1>3, <1>8, <3>1, Zenon
    <3>2. CASE n # 0
      <4>1. n - 1 \in 0 .. N /\ n - 1 < N /\ (n - 1) + 1 = n
        BY <3>2
      <4>2. f[n] = collect_turn(s, f[n - 1])
        BY <1>8, <4>1
      <4> QED BY <1>1, <3>2, <4>2, Zenon
    <3> QED BY <3>1, <3>2
  <2>2. Len(self.string) = N
    BY <1>1, <1>2
  <2>3. f \in [0 .. Len(self.string) -> V]
    BY <1>8, <2>2
  <2>4. \A n \in 0 .. Len(self.string) :
          f[n] = IF n = 0 THEN [cursor |-> self.cursor + 1, buffer |-> <<>>, closed |-> FALSE]
                 ELSE collect_turn(self.string, f[n - 1])
    BY <2>1, <2>2
  <2> QED BY <2>3, <2>4, Zenon
<1>10. PICK g, r : /\ Loops(g) /\ r = g[N]
                   /\ collect_string(self) =
                        IF ~ r.closed THEN abort(self)
                        ELSE forward(push_token(forward(self, r.cursor), c_string(r.buffer), "STRING"),
                                     r.cursor + 1)
  <2>1. Loops(CHOOSE u : Loops(u))
    <3> HIDE DEF Loops
    <3> QED BY <1>9
  <2>2. PICK r : r = (CHOOSE u : Loops(u))[Len(self.string)]
    OBVIOUS
  <2>3. collect_string(self) =
          IF ~ r.closed THEN abort(self)
          ELSE forward(push_token(forward(self, r.cursor), c_string(r.buffer), "STRING"),
                       r.cursor + 1)
    <3>1. collect_string(self) =
            LET read == (CHOOSE u : Loops(u))[Len(self.string)]
            IN IF ~ read.closed THEN abort(self)
               ELSE forward(push_token(forward(self, read.cursor), c_string(read.buffer),
                                       "STRING"),
                            read.cursor + 1)
      BY Zenon DEF collect_string
    <3> HIDE DEF Loops
    <3> QED BY <2>2, <3>1, Zenon
  <2>4. Len(self.string) = N
    BY <1>1, <1>2
  <2> HIDE DEF Loops
  <2> QED BY <2>1, <2>2, <2>3, <2>4
<1>11. g[0] = base /\ \A n \in 0 .. N : n < N => g[n + 1] = collect_turn(s, g[n])
  <2>1. \A n \in 0 .. Len(self.string) :
          g[n] = IF n = 0 THEN [cursor |-> self.cursor + 1, buffer |-> <<>>, closed |-> FALSE]
                 ELSE collect_turn(self.string, g[n - 1])
    BY <1>10, Zenon
  <2>2. 0 .. Len(self.string) = 0 .. N /\ 0 \in 0 .. Len(self.string)
    BY <1>1, <1>2
  <2>3. g[0] = base
    BY <1>1, <1>3, <2>1, <2>2, Zenon
  <2>4. ASSUME NEW n \in 0 .. N, n < N PROVE g[n + 1] = collect_turn(s, g[n])
    <3>1. n + 1 \in 0 .. N /\ n + 1 # 0 /\ (n + 1) - 1 = n
      BY <2>4
    <3>2. g[n + 1] = collect_turn(s, g[(n + 1) - 1])
      BY <1>1, <2>1, <2>2, <3>1, Zenon
    <3> QED BY <3>1, <3>2
  <2> QED BY <2>3, <2>4
<1> HIDE DEF Loops
<1>12. g[N] = f[N]
  <2>1. \A n \in 0 .. N : n < N /\ g[n] = f[n] => g[n + 1] = f[n + 1]
    BY <1>8, <1>11
  <2>2. \A n \in 0 .. N : g[n] = f[n]
    <3>1. g[0] = f[0]
      BY <1>8, <1>11
    <3> QED BY <2>1, <3>1, RecursionUnique, SMTT(40)
  <2> QED BY <2>2
<1>13. r \in Readings(s, e)
  BY <1>5, <1>8, <1>10, <1>12
<1> QED BY <1>10, <1>13

\* collect_string takes the string with its quotes, or gives up.
LEMMA StringFits ==
    ASSUME NEW self, NEW s, NEW e, NEW lineno, NEW column, NEW tokens, NEW phase,
           Lexes(self, s, e, lineno, column, tokens, phase), ~ IsDone(phase),
           e < Len(s), IsQuote(s[e + 1])
    PROVE  LexerFits(collect_string(self))
<1>1. e \in Nat /\ Len(s) \in Nat /\ s \in Seq(Characters)
  BY SourceLength DEF Lexes
<1>2. PICK r \in Readings(s, e) :
        collect_string(self) =
          IF ~ r.closed THEN abort(self)
          ELSE forward(push_token(forward(self, r.cursor), c_string(r.buffer), "STRING"),
                       r.cursor + 1)
  BY StringReads
<1>3. CASE ~ r.closed
  <2>1. PICK p : p = "aborted"
    OBVIOUS
  <2>2. collect_string(self) = [self EXCEPT !.phase = p]
    BY <1>2, <1>3, <2>1, Zenon DEF abort
  <2>3. Stands(collect_string(self), s, e, lineno, column, tokens, p)
    BY <2>2 DEF Lexes, Stands
  <2>4. Judged(tokens, p)
    <3>1. ~ IsDone(p)
      BY <2>1 DEF IsDone
    <3> QED BY <3>1 DEF Lexes, Judged, Judges
  <2>5. Lexes(collect_string(self), s, e, lineno, column, tokens, p)
    BY <2>3, <2>4 DEF Lexes
  <2> QED BY <2>5 DEF LexerFits
<1>4. CASE r.closed
  <2>1. PICK f \in Nat : f = r.cursor
    BY <1>1 DEF Readings
  <2>2. PICK b \in Seq(Characters) : b = r.buffer
    BY DEF Readings
  <2>3. /\ f \in e + 1 .. Len(s) /\ f < Len(s) /\ IsQuote(s[f + 1])
        /\ Len(b) <= f - (e + 1)
        /\ \/ \E k \in e + 2 .. f : IsBackslash(s[k])
           \/ /\ Len(b) = f - (e + 1)
              /\ \A i \in 1 .. Len(b) : b[i] = s[e + 1 + i]
    BY <1>4, <2>1, <2>2 DEF Readings, ReadsOn
  <2>4. PICK spelling : spelling = c_string(b)
    OBVIOUS
  <2>5. spelling \in Seq(Characters) /\ Len(spelling) \in Nat /\ Len(b) \in Nat /\ Len(spelling) <= Len(b)
    BY <2>4, CopyIs
  <2>6. PICK kind : kind = "STRING"
    OBVIOUS
  <2>7. IsString(kind) /\ ~ IsInt(kind)
    BY <2>6 DEF IsString, IsInt
  <2>8. collect_string(self) = forward(push_token(forward(self, f), spelling, kind), f + 1)
    BY <1>2, <1>4, <2>1, <2>2, <2>4, <2>6, Zenon
  <2>9. PICK l, c, t :
          /\ LocatedAt(s, f, l, c)
          /\ t = [string |-> spelling, kind |-> kind, start |-> f - Len(spelling), end |-> f,
                  lineno |-> l, column |-> c, int_value |-> 0]
          /\ Stands(push_token(forward(self, f), spelling, kind), s, f, l, c,
                    Append(tokens, t), phase)
    <3>1. /\ LocatedAt(s, e, lineno, column)
          /\ Stands(self, s, e, lineno, column, tokens, phase)
      BY DEF Lexes
    <3>2. e \in Nat /\ f \in Nat /\ e <= f
      BY <1>1, <2>3
    <3> QED BY <3>1, <3>2, Pushes
  <2>10. /\ t.start = f - Len(spelling) /\ t.end = f /\ t.lineno = l /\ t.column = c
         /\ t.kind = kind /\ t.string = spelling
    BY <2>9
  <2>11. PICK last \in Nat : last = Behind(tokens, Len(tokens) + 1)
    BY DEF Lexes, Tiled
  <2>12. last <= e /\ BlankIn(s, last, e)
    BY <2>11 DEF Lexes, Tiled
  <2>13. \/ /\ slice(s, t.start, t.end) = t.string
            /\ last < t.start /\ IsQuote(s[t.start]) /\ BlankIn(s, last, t.start - 1)
         \/ \E k \in last + 1 .. t.end : IsBackslash(s[k])
    <3>1. CASE \E k \in e + 2 .. f : IsBackslash(s[k])
      BY <1>1, <2>10, <2>12, <3>1
    <3>2. CASE /\ Len(b) = f - (e + 1)
               /\ \A i \in 1 .. Len(b) : b[i] = s[e + 1 + i]
      <4>1. PICK a \in Nat : a = e + 1
        BY <1>1
      <4>2. a <= f /\ f <= Len(s)
        BY <2>3, <4>1
      <4>3. PICK q : q = slice(s, a, f)
        OBVIOUS
      <4>4. /\ q \in Seq(Characters) /\ Len(q) = f - a
            /\ \A i \in 1 .. f - a : q[i] = s[a + i]
        BY <1>1, <4>2, <4>3, SliceIs, ZenonT(60)
      <4>5. Len(b) = f - a /\ \A i \in 1 .. Len(b) : b[i] = s[a + i]
        BY <3>2, <4>1
      <4>6. b = q
        <5>1. \A i \in 1 .. Len(b) : b[i] = q[i]
          BY <4>4, <4>5
        <5> QED BY <4>4, <4>5, <5>1, SeqEqual
      <4>7. ASSUME NEW i \in 1 .. Len(b) PROVE b[i] # "NUL"
        <5>1. a + i \in 1 .. Len(s)
          BY <1>1, <2>5, <4>2, <4>5
        <5>2. s[a + i] # "NUL"
          BY <5>1 DEF Lexes, Sourced
        <5>3. b[i] = s[a + i]
          BY <4>5
        <5> QED BY <5>2, <5>3, Zenon
      <4>8. spelling = b
        BY <2>4, <4>7, CopyIs
      <4>9. t.start = a
        BY <2>10, <4>2, <4>5, <4>8
      <4>10. slice(s, t.start, t.end) = t.string
        BY <2>10, <4>3, <4>6, <4>8, <4>9
      <4>11. IsQuote(s[t.start]) /\ t.start - 1 = e /\ last < t.start
        BY <1>1, <2>12, <4>1, <4>9
      <4> QED BY <2>12, <4>10, <4>11
    <3> QED BY <2>3, <3>1, <3>2
  <2>14. TokenFits(s, t, last)
    <3>1. t.start \in Nat /\ last <= t.start /\ t.start <= t.end
      BY <1>1, <2>3, <2>5, <2>10, <2>12
    <3>2. t.end \in Nat /\ t.end <= Len(s) /\ t.end < Len(s) /\ IsQuote(s[t.end + 1])
      BY <2>3, <2>10
    <3>3. LocatedAt(s, t.end, t.lineno, t.column) /\ IsString(t.kind)
      BY <2>7, <2>9, <2>10
    <3>4. IsToken(t) /\ t.string \in Seq(Characters)
      BY <2>5, <2>9, <2>10, Zenon DEF IsToken
    <3> QED BY <2>13, <3>1, <3>2, <3>3, <3>4 DEF TokenFits
  <2>15. PICK h \in Nat : h = f + 1
    OBVIOUS
  <2>16. h = AfterToken(t) /\ f <= h /\ h \in 0 .. Len(s)
    <3>1. IsString(t.kind) /\ t.end = f
      BY <2>7, <2>10
    <3> QED BY <2>3, <2>15, <3>1 DEF AfterToken
  <2>17. PICK more : more = Append(tokens, t)
    OBVIOUS
  <2>18. Tiled(s, more, h)
    BY <2>11, <2>14, <2>16, <2>17, TilesOn DEF Lexes
  <2>19. PICK x : x = push_token(forward(self, f), spelling, kind)
    OBVIOUS
  <2>20. PICK l2, c2 : /\ LocatedAt(s, h, l2, c2)
                       /\ Stands(forward(x, h), s, h, l2, c2, more, phase)
    <3>1. Stands(x, s, f, l, c, more, phase) /\ LocatedAt(s, f, l, c)
      BY <2>9, <2>17, <2>19
    <3> QED BY <2>16, <3>1, ForwardIs
  <2>21. Lexes(forward(x, h), s, h, l2, c2, more, phase)
    <3>1. ~ IsInt(t.kind)
      BY <2>7, <2>10
    <3>2. Judged(more, phase)
      BY <2>17, <3>1, JudgesOn DEF Lexes
    <3> QED BY <2>16, <2>18, <2>20, <3>2 DEF Lexes
  <2>22. collect_string(self) = forward(x, h)
    BY <2>8, <2>15, <2>19, Zenon
  <2> QED BY <2>21, <2>22 DEF LexerFits
<1> QED BY <1>3, <1>4

-----------------------------------------------------------------------------
(* lexer_run *)

\* Any step of the lexer.
LEMMA StepFits ==
    ASSUME NEW self, LexerFits(self), ~ IsDone(self.phase), ~ is_finished(self)
    PROVE  LexerFits(lexer_step(self))
<1>1. PICK s, e, lineno, column, tokens, phase :
        Lexes(self, s, e, lineno, column, tokens, phase)
  BY DEF LexerFits
<1>2. self.cursor = e /\ self.string = s /\ ~ IsDone(phase)
  BY <1>1 DEF Lexes, Stands
<1>3. e < Len(s)
  <2>1. e \in 0 .. Len(s) /\ Len(s) \in Nat
    BY <1>1, SourceLength DEF Lexes
  <2> QED BY <1>2, <2>1 DEF is_finished
<1>4. PICK c : c = s[e + 1]
  OBVIOUS
<1>5. current_char(self) = c
  BY <1>2, <1>4, Zenon DEF current_char, is_finished
<1>6. lexer_step(self) = CASE c \in Spaces -> ignore_space(self)
                           [] c = ";" -> ignore_comment(self)
                           [] c \in Delimiters -> collect_delimiter(self)
                           [] c = "\"" -> collect_string(self)
                           [] OTHER -> collect_generic(self)
  BY <1>5, Zenon DEF lexer_step
<1>7. CASE c \in Spaces
  <2>1. c # ";" /\ c \notin Delimiters /\ c # "\""
    BY <1>7 DEF Spaces, Delimiters
  <2>2. lexer_step(self) = ignore_space(self)
    BY <1>6, <1>7, <2>1, Zenon
  <2> QED BY <1>1, <2>2, SpaceFits
<1>8. CASE c = ";"
  <2>1. c \notin Spaces /\ c \notin Delimiters /\ c # "\""
    BY <1>8 DEF Spaces, Delimiters
  <2>2. lexer_step(self) = ignore_comment(self)
    BY <1>6, <1>8, <2>1, Zenon
  <2>3. IsSemicolon(s[e + 1])
    BY <1>4, <1>8 DEF IsSemicolon
  <2> QED BY <1>1, <1>3, <2>2, <2>3, CommentFits
<1>9. CASE c \in Delimiters
  <2>1. c \notin Spaces /\ c # ";" /\ c # "\""
    BY <1>9 DEF Spaces, Delimiters
  <2>2. lexer_step(self) = collect_delimiter(self)
    BY <1>6, <1>9, <2>1, Zenon
  <2> QED BY <1>1, <1>2, <1>3, <2>2, DelimiterFits
<1>10. CASE c = "\""
  <2>1. c \notin Spaces /\ c # ";" /\ c \notin Delimiters
    BY <1>10 DEF Spaces, Delimiters
  <2>2. lexer_step(self) = collect_string(self)
    BY <1>6, <1>10, <2>1, Zenon
  <2>3. IsQuote(s[e + 1])
    BY <1>4, <1>10 DEF IsQuote
  <2> QED BY <1>1, <1>2, <1>3, <2>2, <2>3, StringFits
<1>11. CASE c \notin Spaces /\ c # ";" /\ c \notin Delimiters /\ c # "\""
  <2>1. lexer_step(self) = collect_generic(self)
    BY <1>6, <1>11, Zenon
  <2> QED BY <1>1, <1>2, <2>1, GenericFits
<1> QED BY <1>7, <1>8, <1>9, <1>10, <1>11

\* A token may be made an integer where it is.
MadeInt(t, kind, value) == [t EXCEPT !.kind = kind, !.int_value = value]

\* The token keeps its place.
LEMMA ProcessedFits ==
    ASSUME NEW s, NEW t, NEW last, TokenFits(s, t, last), NEW kind, NEW value,
           ~ IsString(kind), ~ IsString(t.kind)
    PROVE  /\ TokenFits(s, MadeInt(t, kind, value), last)
           /\ AfterToken(MadeInt(t, kind, value)) = AfterToken(t)
           /\ MadeInt(t, kind, value).kind = kind
           /\ MadeInt(t, kind, value).int_value = value
           /\ MadeInt(t, kind, value).string = t.string
<1>0. PICK u : u = MadeInt(t, kind, value)
  OBVIOUS
<1>1. PICK string, k, start, end, lineno, column, v :
        t = [string |-> string, kind |-> k, start |-> start, end |-> end,
             lineno |-> lineno, column |-> column, int_value |-> v]
  BY DEF TokenFits, IsToken
<1>2. PICK x : x = [t EXCEPT !.kind = kind]
  OBVIOUS
<1>3. x = [string |-> string, kind |-> kind, start |-> start, end |-> end,
           lineno |-> lineno, column |-> column, int_value |-> v]
  BY <1>1, <1>2
<1>4. u = [x EXCEPT !.int_value = value]
  BY <1>0, <1>2, Zenon DEF MadeInt
<1>5. u = [string |-> string, kind |-> kind, start |-> start, end |-> end,
           lineno |-> lineno, column |-> column, int_value |-> value]
  BY <1>3, <1>4
<1>6. /\ u.string = t.string /\ u.start = t.start /\ u.end = t.end
      /\ u.lineno = t.lineno /\ u.column = t.column /\ u.kind = kind /\ u.int_value = value
  BY <1>1, <1>5
<1>7. IsToken(u)
  BY <1>5, Zenon DEF IsToken
<1>8. ~ IsString(u.kind)
  BY <1>6
<1>9. TokenFits(s, u, last) /\ AfterToken(u) = AfterToken(t)
  BY <1>6, <1>7, <1>8 DEF TokenFits, AfterToken
<1> QED BY <1>0, <1>6, <1>9, Zenon

\* postprocess_int makes integers of the tokens that can be read as one.
LEMMA PostprocessFits ==
    ASSUME NEW self, LexerFits(self), ~ IsDone(self.phase)
    PROVE  LexerFits(postprocess_int(self))
<1>1. PICK s, e, lineno, column, tokens, phase :
        Lexes(self, s, e, lineno, column, tokens, phase)
  BY DEF LexerFits
<1>2. self.token_list = tokens /\ ~ IsDone(phase)
  BY <1>1 DEF Lexes, Stands
<1> DEFINE processed(token) ==
             IF token.kind = "GENERIC" /\ string_is_xint(token.string)
             THEN [token EXCEPT !.kind = "INT", !.int_value = string_parse_xint(token.string)]
             ELSE token
<1>3. PICK more : more = [i \in DOMAIN tokens |-> processed(tokens[i])]
  OBVIOUS
<1>4. PICK N \in Nat : N = Len(tokens) /\ DOMAIN tokens = 1 .. N
  <2>1. PICK S : tokens \in Seq(S)
    BY <1>1 DEF Lexes, Tiled
  <2> QED BY <2>1, LenProperties
<1>5. /\ \A i \in 1 .. N : TokenFits(s, tokens[i], Behind(tokens, i))
      /\ Behind(tokens, N + 1) \in Nat /\ Behind(tokens, N + 1) <= e
      /\ BlankIn(s, Behind(tokens, N + 1), e)
  BY <1>1, <1>4 DEF Lexes, Tiled
<1> DEFINE done == "done"
<1>6. ASSUME NEW i \in 1 .. N
      PROVE  /\ TokenFits(s, more[i], Behind(tokens, i))
             /\ AfterToken(more[i]) = AfterToken(tokens[i])
             /\ Judges(more[i], done)
  <2>1. PICK t : t = tokens[i]
    OBVIOUS
  <2>2. more[i] = processed(t)
    <3>1. i \in DOMAIN tokens
      BY <1>4
    <3> QED BY <1>3, <2>1, <3>1, Zenon
  <2>3. TokenFits(s, t, Behind(tokens, i))
    BY <1>5, <2>1
  <2>4. CASE t.kind = "GENERIC" /\ string_is_xint(t.string)
    <3>1. PICK kind, value : kind = "INT" /\ value = string_parse_xint(t.string)
      OBVIOUS
    <3>2. more[i] = [t EXCEPT !.kind = kind, !.int_value = value]
      BY <2>2, <2>4, <3>1, Zenon
    <3>3. ~ IsString(kind) /\ ~ IsString(t.kind)
      <4>1. t.kind = "GENERIC"
        BY <2>4, Zenon
      <4> QED BY <3>1, <4>1 DEF IsString
    <3>4. /\ TokenFits(s, MadeInt(t, kind, value), Behind(tokens, i))
          /\ AfterToken(MadeInt(t, kind, value)) = AfterToken(t)
          /\ MadeInt(t, kind, value).kind = kind
          /\ MadeInt(t, kind, value).int_value = value
          /\ MadeInt(t, kind, value).string = t.string
      BY <2>3, <3>3, ProcessedFits
    <3>5. PICK u : u = MadeInt(t, kind, value)
      OBVIOUS
    <3>6. Judges(u, done)
      <4>1. ~ IsGeneric(kind)
        BY <3>1 DEF IsGeneric
      <4> QED BY <2>4, <3>1, <3>4, <3>5, <4>1, Zenon DEF Judges, IsDone
    <3> QED BY <2>1, <3>2, <3>4, <3>5, <3>6, Zenon DEF MadeInt
  <2>5. CASE ~ (t.kind = "GENERIC" /\ string_is_xint(t.string))
    <3>1. more[i] = t
      BY <2>2, <2>5, Zenon
    <3>2. ~ IsInt(t.kind)
      BY <1>1, <1>2, <1>4, <2>1 DEF Lexes, Judged, Judges
    <3>3. Judges(t, done)
      BY <2>5, <3>2, Zenon DEF Judges, IsDone, IsGeneric
    <3> QED BY <2>1, <2>3, <3>1, <3>3, Zenon
  <2> QED BY <2>4, <2>5, Zenon
<1> HIDE DEF processed
<1>7. more \in Seq({more[i] : i \in 1 .. N}) /\ Len(more) = N
  <2>1. PICK R : R = {more[i] : i \in 1 .. N}
    OBVIOUS
  <2>2. DOMAIN more = 1 .. N
    BY <1>3, <1>4
  <2>3. more \in [1 .. N -> R]
    <3>1. \A i \in 1 .. N : more[i] \in R
      BY <2>1
    <3>2. more = [i \in 1 .. N |-> more[i]]
      BY <1>3, <1>4, Zenon
    <3> QED BY <3>1, <3>2
  <2>4. more \in Seq(R)
    BY <2>3, SeqDef
  <2> QED BY <2>1, <2>2, <2>4, LenProperties
<1>8. ASSUME NEW i \in 1 .. N + 1 PROVE Behind(more, i) = Behind(tokens, i)
  <2>1. CASE i = 1
    BY <2>1 DEF Behind
  <2>2. CASE i # 1
    <3>1. i - 1 \in 1 .. N
      BY <2>2
    <3> QED BY <1>6, <2>2, <3>1 DEF Behind
  <2> QED BY <2>1, <2>2
<1>9. Tiled(s, more, e)
  <2>1. N + 1 \in 1 .. N + 1
    OBVIOUS
  <2>2. Behind(more, N + 1) = Behind(tokens, N + 1)
    BY <1>8, <2>1
  <2>3. \A i \in 1 .. N : TokenFits(s, more[i], Behind(more, i))
    <3>1. \A i \in 1 .. N : i \in 1 .. N + 1
      OBVIOUS
    <3> QED BY <1>6, <1>8, <3>1
  <2>4. /\ Behind(more, N + 1) \in Nat /\ Behind(more, N + 1) <= e
        /\ BlankIn(s, Behind(more, N + 1), e)
    BY <1>5, <2>2
  <2>5. (\E S : more \in Seq(S)) /\ Len(more) = N
    BY <1>7
  <2> QED BY <2>3, <2>4, <2>5 DEF Tiled
<1>10. Judged(more, done)
  BY <1>6, <1>7 DEF Judged
<1>11. postprocess_int(self) = [self EXCEPT !.phase = done, !.token_list = more]
  <2>1. postprocess_int(self) =
          [self EXCEPT !.phase = "done",
                       !.token_list = [i \in DOMAIN self.token_list |->
                                         processed(self.token_list[i])]]
    BY Zenon DEF postprocess_int, processed
  <2> QED BY <1>2, <1>3, <2>1, Zenon
<1>12. Stands(postprocess_int(self), s, e, lineno, column, more, done)
  <2> HIDE DEF done
  <2>1. PICK x : x = [self EXCEPT !.phase = done]
    OBVIOUS
  <2>2. Stands(x, s, e, lineno, column, tokens, done)
    BY <1>1, <2>1 DEF Lexes, Stands
  <2>3. PICK y : y = [x EXCEPT !.token_list = more]
    OBVIOUS
  <2>4. Stands(y, s, e, lineno, column, more, done)
    BY <2>2, <2>3 DEF Stands
  <2>5. postprocess_int(self) = y
    BY <1>11, <2>1, <2>3, Zenon
  <2> QED BY <2>4, <2>5
<1>13. Lexes(postprocess_int(self), s, e, lineno, column, more, done)
  <2> HIDE DEF done
  <2> QED BY <1>1, <1>9, <1>10, <1>12 DEF Lexes
<1> QED BY <1>13 DEF LexerFits

\* Before anything is read.
LEMMA FirstFits ==
    ASSUME NEW s, Sourced(s), NEW phase
    PROVE  LexerFits([string |-> s, cursor |-> 0, lineno |-> 1, column |-> 1,
                      token_list |-> <<>>, phase |-> phase])
<1>1. PICK tokens : tokens = <<>>
  OBVIOUS
<1>2. tokens \in Seq(Characters) /\ Len(tokens) = 0
  BY <1>1, EmptySeq
<1>3. Behind(tokens, Len(tokens) + 1) = 0
  BY <1>2 DEF Behind
<1>4. BlankIn(s, 0, 0)
  BY DEF BlankIn
<1>5. Tiled(s, tokens, 0)
  BY <1>2, <1>3, <1>4 DEF Tiled
<1>6. 0 \in 0 .. Len(s)
  BY SourceLength
<1>7. Judged(tokens, phase)
  BY <1>2 DEF Judged
<1>8. PICK x : x = [string |-> s, cursor |-> 0, lineno |-> 1, column |-> 1,
                    token_list |-> tokens, phase |-> phase]
  OBVIOUS
<1>9. Lexes(x, s, 0, 1, 1, tokens, phase)
  BY <1>5, <1>6, <1>7, <1>8, LocatedFirst, Zenon DEF Lexes, Stands
<1>10. LexerFits(x)
  BY <1>9, Zenon DEF LexerFits
<1> QED BY <1>1, <1>8, <1>10, Zenon

\* The invariant, of the variable
TokensFit == LexerFits(lexer)

\* The invariant holds at first.
LEMMA InitFits == LexerInit => TokensFit
<1> SUFFICES ASSUME LexerInit PROVE TokensFit
  OBVIOUS
<1>1. PICK s, phase : s = <<>> /\ phase = "made"
  OBVIOUS
<1>2. Sourced(s)
  BY <1>1, EmptySeq DEF Sourced
<1>3. PICK x : x = [string |-> s, cursor |-> 0, lineno |-> 1, column |-> 1,
                    token_list |-> <<>>, phase |-> phase]
  OBVIOUS
<1>4. lexer = x
  <2>1. PICK tokens, run : tokens = <<>> /\ run = "run"
    OBVIOUS
  <2>2. PICK y : y = [string |-> s, cursor |-> 0, lineno |-> 1, column |-> 1,
                      token_list |-> tokens, phase |-> run]
    OBVIOUS
  <2>3. lexer = [y EXCEPT !.phase = phase]
    BY <1>1, <2>1, <2>2, Zenon DEF LexerInit, lexer_init
  <2>4. [y EXCEPT !.phase = phase] =
          [string |-> s, cursor |-> 0, lineno |-> 1, column |-> 1,
           token_list |-> tokens, phase |-> phase]
    BY <2>2
  <2> QED BY <1>3, <2>1, <2>3, <2>4, Zenon
<1>5. LexerFits(x)
  BY <1>2, <1>3, FirstFits
<1> QED BY <1>4, <1>5 DEF TokensFit

\* Every step keeps the invariant.
LEMMA NextFits == TokensFit /\ [LexerNext]_lexer => TokensFit'
<1> SUFFICES ASSUME TokensFit, [LexerNext]_lexer PROVE TokensFit'
  OBVIOUS
<1>1. CASE \E string \in Sources : LexerRun(string)
  <2>1. PICK string \in Sources : LexerRun(string)
    BY <1>1
  <2>2. Sourced(string)
    BY LexerAssumption DEF Sourced
  <2>3. PICK phase : phase = "run"
    OBVIOUS
  <2>4. LexerFits([string |-> string, cursor |-> 0, lineno |-> 1, column |-> 1,
                   token_list |-> <<>>, phase |-> phase])
    BY <2>2, FirstFits
  <2>5. lexer' = [string |-> string, cursor |-> 0, lineno |-> 1, column |-> 1,
                  token_list |-> <<>>, phase |-> phase]
    BY <2>1, <2>3, Zenon DEF LexerRun, lexer_init
  <2>6. LexerFits(lexer')
    BY <2>4, <2>5, Zenon
  <2> QED BY <2>6 DEF TokensFit
<1>2. CASE LexerStep
  <2>1. LexerFits(lexer_step(lexer)) /\ lexer' = lexer_step(lexer)
    BY <1>2, StepFits DEF LexerStep, TokensFit, IsDone
  <2>2. LexerFits(lexer')
    BY <2>1, Zenon
  <2> QED BY <2>2 DEF TokensFit
<1>3. CASE LexerFinish
  <2>1. LexerFits(postprocess_int(lexer)) /\ lexer' = postprocess_int(lexer)
    BY <1>3, PostprocessFits DEF LexerFinish, TokensFit, IsDone
  <2>2. LexerFits(lexer')
    BY <2>1, Zenon
  <2> QED BY <2>2 DEF TokensFit
<1>4. CASE UNCHANGED lexer
  <2>1. LexerFits(lexer')
    BY <1>4, Zenon DEF TokensFit
  <2> QED BY <2>1 DEF TokensFit
<1> QED BY <1>1, <1>2, <1>3, <1>4 DEF LexerNext

\* For any sources and after any steps, the tokens so far fit next to each other
\* up to the cursor, whose line and column are right; none is an integer until
\* postprocess_int, and then those are that string_is_xint takes.
THEOREM LexerInvariant == LexerSpec => []TokensFit
BY InitFits, NextFits, PTL DEF LexerSpec

-----------------------------------------------------------------------------
(* Where the tokens lie *)

\* A line begins at one place.
LEMMA LineBeginsOnce ==
    ASSUME NEW s, NEW e \in Nat, NEW m, NEW n, LineBegins(s, e, m), LineBegins(s, e, n)
    PROVE  m = n
<1>1. m \in 0 .. e /\ n \in 0 .. e
  BY DEF LineBegins
<1>2. CASE m < n
  <2>1. n \in m + 1 .. e /\ n # 0
    BY <1>1, <1>2
  <2> QED BY <2>1 DEF LineBegins
<1>3. CASE n < m
  <2>1. m \in n + 1 .. e /\ m # 0
    BY <1>1, <1>3
  <2> QED BY <2>1 DEF LineBegins
<1> QED BY <1>1, <1>2, <1>3

\* The column, as TokensTile counts it.
LEMMA ColumnIs ==
    ASSUME NEW s, NEW e \in Nat, NEW lineno, NEW column, LocatedAt(s, e, lineno, column)
    PROVE  column = e + 1 - (CHOOSE n \in 0 .. e :
                               /\ n = 0 \/ s[n] = "\n"
                               /\ \A k \in n + 1 .. e : s[k] # "\n")
<1>1. PICK n : LineBegins(s, e, n) /\ column = e + 1 - n
  BY DEF LocatedAt
<1>2. PICK m : m = CHOOSE x \in 0 .. e : /\ x = 0 \/ s[x] = "\n"
                                         /\ \A k \in x + 1 .. e : s[k] # "\n"
  OBVIOUS
<1>3. LineBegins(s, e, m)
  <2>1. \E x \in 0 .. e : (x = 0 \/ s[x] = "\n") /\ \A k \in x + 1 .. e : s[k] # "\n"
    BY <1>1, Zenon DEF LineBegins, IsNewline
  <2> QED BY <1>2, <2>1, Zenon DEF LineBegins, IsNewline
<1>4. m = n
  BY <1>1, <1>3, LineBeginsOnce
<1>5. column = e + 1 - m
  BY <1>1, <1>4
<1> QED BY <1>2, <1>5, Zenon

\* With the quote that a string begins with left off, blanks are before it.
LEMMA QuoteBefore ==
    ASSUME NEW S, NEW s \in Seq(S), NEW a \in Nat, NEW b \in Nat, a < b, b <= Len(s),
           BlankIn(s, a, b - 1), IsQuote(s[b]), NEW before, before = slice(s, a, b)
    PROVE  /\ before # <<>> /\ IsQuote(before[Len(before)])
           /\ Blank(SubSeq(before, 1, Len(before) - 1))
<1>1. PICK n \in Nat : n = b - a /\ 0 < n
  OBVIOUS
<1>2. before \in Seq(S) /\ Len(before) = n /\ \A i \in 1 .. n : before[i] = s[a + i]
  <2>1. a \in Nat /\ b \in Nat /\ a <= b /\ b <= Len(s)
    OBVIOUS
  <2>2. /\ slice(s, a, b) \in Seq(S) /\ Len(slice(s, a, b)) = b - a
        /\ \A i \in 1 .. b - a : slice(s, a, b)[i] = s[a + i]
    BY <2>1, SliceIs
  <2> QED BY <1>1, <2>2
<1>3. before # <<>>
  <2>1. PICK q : q = <<>>
    OBVIOUS
  <2>2. Len(q) = 0
    BY <2>1, EmptySeq
  <2>3. before # q
    BY <1>1, <1>2, <2>2
  <2> QED BY <2>1, <2>3
<1>4. IsQuote(before[Len(before)])
  <2>1. n \in 1 .. n /\ a + n = b
    BY <1>1
  <2> QED BY <1>2, <2>1
<1>5. PICK c \in Nat : c = b - 1
  OBVIOUS
<1>6. a <= c /\ c <= Len(s) /\ c - a = n - 1 /\ Len(s) \in Nat
  BY <1>1, <1>5, LenProperties
<1>7. PICK q : q = slice(s, a, c)
  OBVIOUS
<1>8. q \in Seq(S) /\ Len(q) = c - a /\ \A i \in 1 .. c - a : q[i] = s[a + i]
  <2>1. /\ slice(s, a, c) \in Seq(S) /\ Len(slice(s, a, c)) = c - a
        /\ \A i \in 1 .. c - a : slice(s, a, c)[i] = s[a + i]
    BY <1>6, SliceIs
  <2> QED BY <1>7, <2>1
<1>9. Blank(q)
  BY <1>5, <1>6, <1>7, BlankSlice
<1>10. PICK p : p = SubSeq(before, 1, n - 1)
  OBVIOUS
<1>11. p \in Seq(S) /\ Len(p) = n - 1 /\ \A i \in 1 .. n - 1 : p[i] = before[i]
  <2>1. \A i \in 1 .. n - 1 : before[i] \in S
    <3>1. \A i \in 1 .. n - 1 : i \in 1 .. Len(before)
      BY <1>1, <1>2
    <3> QED BY <1>2, <3>1, ElementOfSeq
  <2>2. 1 \in Int /\ n - 1 \in Int
    BY <1>1
  <2>3. /\ p \in Seq(S) /\ Len(p) = IF 1 <= n - 1 THEN (n - 1) - 1 + 1 ELSE 0
        /\ \A i \in 1 .. (n - 1) - 1 + 1 : p[i] = before[1 + i - 1]
    BY <1>10, <2>1, <2>2, SubSeqProperties
  <2>4. Len(p) = n - 1
    BY <1>1, <2>3
  <2>5. ASSUME NEW i \in 1 .. n - 1 PROVE p[i] = before[i]
    <3>1. i \in 1 .. (n - 1) - 1 + 1 /\ 1 + i - 1 = i
      BY <1>1
    <3> QED BY <2>3, <3>1
  <2> QED BY <2>3, <2>4, <2>5
<1>12. p = q
  <2>1. Len(p) = Len(q)
    BY <1>6, <1>8, <1>11
  <2>2. \A i \in 1 .. Len(p) : p[i] = q[i]
    <3>1. ASSUME NEW i \in 1 .. Len(p) PROVE p[i] = q[i]
      <4>1. i \in 1 .. n - 1 /\ i \in 1 .. n /\ i \in 1 .. c - a
        BY <1>1, <1>6, <1>11
      <4> QED BY <1>2, <1>8, <1>11, <4>1
    <3> QED BY <3>1
  <2> QED BY <1>8, <1>11, <2>1, <2>2, SeqEqual
<1> QED BY <1>2, <1>3, <1>4, <1>9, <1>10, <1>12

\* A backslash that lies in two texts next to each other.
LEMMA BackslashIn ==
    ASSUME NEW S, NEW s \in Seq(S), NEW a \in Nat, NEW b \in Nat, NEW c \in Nat,
           a <= b, b <= c, c <= Len(s), NEW k \in a + 1 .. c, IsBackslash(s[k])
    PROVE  \E i \in DOMAIN (slice(s, a, b) \o slice(s, b, c)) :
             IsBackslash((slice(s, a, b) \o slice(s, b, c))[i])
<1>1. PICK p, q : p = slice(s, a, b) /\ q = slice(s, b, c)
  OBVIOUS
<1>2. Len(s) \in Nat /\ b <= Len(s)
  BY LenProperties
<1>3. p \in Seq(S) /\ Len(p) = b - a /\ \A i \in 1 .. b - a : p[i] = s[a + i]
  BY <1>1, <1>2, SliceIs, ZenonT(60)
<1>4. q \in Seq(S) /\ Len(q) = c - b /\ \A i \in 1 .. c - b : q[i] = s[b + i]
  BY <1>1, SliceIs
<1>5. PICK r : r = p \o q
  OBVIOUS
<1>6. /\ r \in Seq(S) /\ Len(r) = Len(p) + Len(q)
      /\ \A i \in 1 .. Len(p) + Len(q) : r[i] = IF i <= Len(p) THEN p[i] ELSE q[i - Len(p)]
  BY <1>3, <1>4, <1>5, ConcatProperties
<1>7. DOMAIN r = 1 .. c - a
  BY <1>3, <1>4, <1>6, LenProperties
<1>8. PICK i \in 1 .. c - a : i = k - a
  OBVIOUS
<1>9. r[i] = s[k]
  <2>1. i \in 1 .. Len(p) + Len(q)
    BY <1>3, <1>4
  <2>2. CASE i <= b - a
    <3>1. i \in 1 .. b - a /\ a + i = k
      BY <1>8, <2>2
    <3> QED BY <1>3, <1>6, <2>1, <2>2, <3>1
  <2>3. CASE ~ (i <= b - a)
    <3>1. i - (b - a) \in 1 .. c - b /\ b + (i - (b - a)) = k
      BY <1>8, <2>3
    <3>2. r[i] = q[i - (b - a)]
      BY <1>3, <1>6, <2>1, <2>3
    <3> QED BY <1>4, <3>1, <3>2
  <2> QED BY <2>2, <2>3
<1>10. i \in DOMAIN r /\ IsBackslash(r[i])
  BY <1>7, <1>9
<1> QED BY <1>1, <1>5, <1>10

\* The invariant says where the tokens lie.
LEMMA FitsTile == TokensFit => TokensTile
<1> SUFFICES ASSUME TokensFit PROVE TokensTile
  OBVIOUS
<1> DEFINE s == lexer.string
           tokens == lexer.token_list
<1>1. PICK e, lineno, column, phase : Lexes(lexer, s, e, lineno, column, tokens, phase)
  <2>1. PICK string, e, lineno, column, list, phase :
          Lexes(lexer, string, e, lineno, column, list, phase)
    BY DEF TokensFit, LexerFits
  <2>2. string = s /\ list = tokens
    BY <2>1 DEF Lexes, Stands
  <2> QED BY <2>1, <2>2, Zenon
<1>3. s \in Seq(Characters) /\ Len(s) \in Nat
  BY <1>1, SourceLength DEF Lexes
<1> DEFINE spelling(t) == slice(s, t.start, t.end)
           Tiles(t, before) ==
             /\ t.lineno = code_lineno_of_index(s, t.end)
             /\ t.column =
                  t.end + 1 - (CHOOSE n \in 0 .. t.end :
                                 /\ n = 0 \/ s[n] = "\n"
                                 /\ \A k \in n + 1 .. t.end : s[k] # "\n")
             /\ IF t.kind # "STRING" THEN spelling(t) = t.string /\ Blank(before)
                ELSE /\ s[t.end + 1] = "\""
                     /\ \/ /\ spelling(t) = t.string
                           /\ before # <<>> /\ before[Len(before)] = "\""
                           /\ Blank(SubSeq(before, 1, Len(before) - 1))
                        \/ \E k \in DOMAIN (before \o spelling(t)) :
                             (before \o spelling(t))[k] = "\\"
<1>4. ASSUME NEW i \in DOMAIN tokens PROVE Tiles(tokens[i], Before(i))
  <2>1. PICK t, last, before :
          t = tokens[i] /\ last = Behind(tokens, i) /\ before = slice(s, last, t.start)
    OBVIOUS
  <2>2. TokenFits(s, t, last)
    <3>1. i \in 1 .. Len(tokens)
      BY <1>1, LenProperties DEF Lexes, Tiled
    <3> QED BY <1>1, <2>1, <3>1 DEF Lexes, Tiled
  <2>3. Before(i) = before
    BY <2>1, Zenon DEF Before, Behind, AfterToken, IsString
  <2>4. PICK a \in Nat, b \in Nat, c \in Nat :
          a = last /\ b = t.start /\ c = t.end /\ a <= b /\ b <= c /\ c <= Len(s)
    BY <2>2 DEF TokenFits
  <2>5. b <= Len(s)
    BY <1>3, <2>4
  <2>6. t.lineno = code_lineno_of_index(s, t.end)
    BY <2>2 DEF TokenFits, LocatedAt
  <2>7. t.column = t.end + 1 - (CHOOSE n \in 0 .. t.end :
                                  /\ n = 0 \/ s[n] = "\n"
                                  /\ \A k \in n + 1 .. t.end : s[k] # "\n")
    BY <2>2, <2>4, ColumnIs DEF TokenFits
  <2>8. CASE ~ IsString(t.kind)
    <3>1. spelling(t) = t.string /\ BlankIn(s, a, b)
      BY <2>2, <2>4, <2>8 DEF TokenFits
    <3>2. Blank(slice(s, a, b))
      BY <1>3, <2>4, <2>5, <3>1, BlankSlice
    <3>3. Blank(before)
      BY <2>1, <2>4, <3>2, Zenon
    <3>4. t.kind # "STRING"
      BY <2>8 DEF IsString
    <3> QED BY <2>1, <2>3, <2>6, <2>7, <3>1, <3>3, <3>4, Zenon
  <2>9. CASE IsString(t.kind)
    <3>1. ~ (t.kind # "STRING")
      BY <2>9 DEF IsString
    <3>2. s[t.end + 1] = "\""
      BY <2>2, <2>9, Zenon DEF TokenFits, IsQuote
    <3>3. \/ /\ spelling(t) = t.string
             /\ before # <<>> /\ before[Len(before)] = "\""
             /\ Blank(SubSeq(before, 1, Len(before) - 1))
          \/ \E k \in DOMAIN (before \o spelling(t)) : (before \o spelling(t))[k] = "\\"
      <4>1. CASE /\ spelling(t) = t.string
                 /\ a < b /\ IsQuote(s[b]) /\ BlankIn(s, a, b - 1)
        <5>1. before = slice(s, a, b)
          BY <2>1, <2>4
        <5>2. /\ before # <<>> /\ IsQuote(before[Len(before)])
              /\ Blank(SubSeq(before, 1, Len(before) - 1))
          BY <1>3, <2>5, <4>1, <5>1, QuoteBefore
        <5> QED BY <4>1, <5>2, Zenon DEF IsQuote
      <4>2. CASE \E k \in a + 1 .. c : IsBackslash(s[k])
        <5>1. \E k \in DOMAIN (slice(s, a, b) \o slice(s, b, c)) :
                IsBackslash((slice(s, a, b) \o slice(s, b, c))[k])
          BY <1>3, <2>4, <4>2, BackslashIn
        <5>2. before = slice(s, a, b) /\ spelling(t) = slice(s, b, c)
          BY <2>1, <2>4
        <5> QED BY <5>1, <5>2, Zenon DEF IsBackslash
      <4>3. \/ /\ spelling(t) = t.string
               /\ last < t.start /\ IsQuote(s[t.start]) /\ BlankIn(s, last, t.start - 1)
            \/ \E k \in last + 1 .. t.end : IsBackslash(s[k])
        BY <2>2, <2>9 DEF TokenFits
      <4> QED BY <2>4, <4>1, <4>2, <4>3
    <3> QED BY <2>1, <2>3, <2>6, <2>7, <3>1, <3>2, <3>3, Zenon
  <2> QED BY <2>8, <2>9
<1> QED BY <1>4, Zenon DEF TokensTile

\* For sources of any length and any characters, the tokens lie in the source in
\* order with only blanks between them, each over its text, and have the line and
\* the column where they end.
THEOREM TokensLie == LexerSpec => []TokensTile
BY LexerInvariant, FitsTile, PTL

-----------------------------------------------------------------------------
(* Integers *)

\* Signs and prefixes
IsMinus(c) == c = "-"
IsPlus(c) == c = "+"
IsZero(c) == c = "0"
IsEx(c) == c = "x"
IsAnyEx(c) == c \in {"x", "X"}
IsOh(c) == c = "o"
IsBee(c) == c = "b"

HexDigits == {"0", "1", "2", "3", "4", "5", "6", "7", "8", "9", "a", "A", "b", "B",
              "c", "C", "d", "D", "e", "E", "f", "F"}

\* The digits are these, and b is one of a larger base only.
LEMMA DigitsAre ==
    ASSUME NEW v \in 0 .. 15
    PROVE  /\ digits_of_value[v] \subseteq HexDigits
           /\ v < 10 => "b" \notin digits_of_value[v]
<1>1. PICK all :
        all = << {"0"}, {"1"}, {"2"}, {"3"}, {"4"}, {"5"}, {"6"}, {"7"}, {"8"}, {"9"},
                 {"a", "A"}, {"b", "B"}, {"c", "C"}, {"d", "D"}, {"e", "E"}, {"f", "F"} >>
  OBVIOUS
<1>2. digits_of_value[v] = all[v + 1]
  BY <1>1, Zenon DEF digits_of_value
<1>3. /\ all[1] = {"0"} /\ all[2] = {"1"} /\ all[3] = {"2"} /\ all[4] = {"3"}
      /\ all[5] = {"4"} /\ all[6] = {"5"} /\ all[7] = {"6"} /\ all[8] = {"7"}
      /\ all[9] = {"8"} /\ all[10] = {"9"} /\ all[11] = {"a", "A"}
      /\ all[12] = {"b", "B"} /\ all[13] = {"c", "C"} /\ all[14] = {"d", "D"}
      /\ all[15] = {"e", "E"} /\ all[16] = {"f", "F"}
  BY <1>1
<1>4. v + 1 \in 1 .. 10 \/ v + 1 \in 11 .. 16
  OBVIOUS
<1>5. ASSUME NEW j \in 1 .. 10
      PROVE  all[j] \subseteq HexDigits /\ "b" \notin all[j]
  BY <1>3, SMTT(40) DEF HexDigits
<1>6. ASSUME NEW j \in 11 .. 16
      PROVE  all[j] \subseteq HexDigits
  BY <1>3, SMTT(40) DEF HexDigits
<1>7. CASE v + 1 \in 1 .. 10
  BY <1>2, <1>5, <1>7
<1>8. CASE v + 1 \in 11 .. 16
  <2>1. ~ (v < 10)
    BY <1>8
  <2> QED BY <1>2, <1>6, <1>8, <2>1
<1> QED BY <1>4, <1>7, <1>8

\* A digit has a value and is no sign and no prefix.
LEMMA DigitIs ==
    ASSUME NEW c, NEW base, is_digit(c, base)
    PROVE  /\ digit_value[c] \in Nat
           /\ ~ IsMinus(c) /\ ~ IsPlus(c) /\ ~ IsEx(c) /\ ~ IsAnyEx(c) /\ ~ IsOh(c)
           /\ base = 10 => ~ IsBee(c)
<1>1. PICK u \in 0 .. 15 : c \in digits_of_value[u]
  BY DEF is_digit, digit_value
<1>2. digit_value[c] = CHOOSE v \in 0 .. 15 : c \in digits_of_value[v]
  BY <1>1, Zenon DEF digit_value
<1>3. PICK v \in 0 .. 15 : v = digit_value[c] /\ c \in digits_of_value[v]
  BY <1>1, <1>2, Zenon
<1>4. c \in HexDigits
  BY <1>3, DigitsAre
<1>5. c # "-" /\ c # "+" /\ c # "x" /\ c # "X" /\ c # "o"
  BY <1>4 DEF HexDigits
<1>6. ASSUME base = 10 PROVE ~ IsBee(c)
  <2>1. v < 10
    BY <1>3, <1>6 DEF is_digit
  <2>2. "b" \notin digits_of_value[v]
    BY <2>1, DigitsAre
  <2> QED BY <1>3, <2>2, Zenon DEF IsBee
<1>7. digit_value[c] \in Nat
  BY <1>3
<1> QED BY <1>5, <1>6, <1>7, Zenon DEF IsMinus, IsPlus, IsEx, IsAnyEx, IsOh

\* A zero is no sign.
LEMMA ZeroIs ==
    ASSUME NEW c, IsZero(c)
    PROVE  ~ IsMinus(c) /\ ~ IsPlus(c)
<1>1. c # "-" /\ c # "+"
  BY DEF IsZero
<1> QED BY <1>1, Zenon DEF IsMinus, IsPlus

\* The prefixes are different.
LEMMA ExIsNotOh ==
    \A c : ~ (IsEx(c) /\ IsOh(c)) /\ ~ (IsEx(c) /\ IsBee(c)) /\ ~ (IsOh(c) /\ IsBee(c))
<1>1. "x" # "o" /\ "x" # "b" /\ "o" # "b"
  OBVIOUS
<1> QED BY <1>1, Zenon DEF IsEx, IsOh, IsBee

\* string_starts_with, elementwise.
LEMMA Starts ==
    ASSUME NEW S, NEW w \in Seq(S), NEW T, NEW p \in Seq(T)
    PROVE  string_starts_with(w, p) <=>
             Len(p) <= Len(w) /\ \A i \in 1 .. Len(p) : w[i] = p[i]
<1>1. Len(w) \in Nat /\ Len(p) \in Nat
  BY LenProperties
<1>2. CASE Len(p) <= Len(w)
  <2>1. PICK b \in Nat : b = Len(p)
    BY <1>1
  <2>2. PICK q : q = SubSeq(w, 1, b)
    OBVIOUS
  <2>3. q \in Seq(S) /\ Len(q) = b /\ \A i \in 1 .. b : q[i] = w[i]
    <3>1. \A i \in 1 .. b : w[i] \in S
      <4>1. \A i \in 1 .. b : i \in 1 .. Len(w)
        BY <1>1, <1>2, <2>1
      <4> QED BY <4>1, ElementOfSeq
    <3>2. 1 \in Int /\ b \in Int
      OBVIOUS
    <3>3. /\ q \in Seq(S) /\ Len(q) = IF 1 <= b THEN b - 1 + 1 ELSE 0
          /\ \A i \in 1 .. b - 1 + 1 : q[i] = w[1 + i - 1]
      BY <2>2, <3>1, <3>2, SubSeqProperties
    <3>4. ASSUME NEW i \in 1 .. b PROVE q[i] = w[i]
      <4>1. i \in 1 .. b - 1 + 1 /\ 1 + i - 1 = i
        OBVIOUS
      <4> QED BY <3>3, <4>1
    <3> QED BY <3>3, <3>4
  <2>4. q = p <=> \A i \in 1 .. b : w[i] = p[i]
    <3>1. ASSUME \A i \in 1 .. b : w[i] = p[i] PROVE q = p
      <4>1. Len(q) = Len(p) /\ \A i \in 1 .. Len(q) : q[i] = p[i]
        BY <2>1, <2>3, <3>1
      <4> QED BY <2>3, <4>1, SeqEqual
    <3>2. ASSUME q = p PROVE \A i \in 1 .. b : w[i] = p[i]
      BY <2>3, <3>2
    <3> QED BY <3>1, <3>2
  <2> QED BY <1>2, <2>1, <2>2, <2>4 DEF string_starts_with
<1>3. CASE ~ (Len(p) <= Len(w))
  BY <1>3 DEF string_starts_with
<1> QED BY <1>2, <1>3

LEMMA StartsOne ==
    ASSUME NEW S, NEW w \in Seq(S), NEW a
    PROVE  string_starts_with(w, <<a>>) <=> 1 <= Len(w) /\ w[1] = a
<1>1. PICK p : p = <<a>>
  OBVIOUS
<1>2. p \in Seq({a}) /\ Len(p) = 1 /\ p[1] = a
  BY <1>1
<1>3. string_starts_with(w, p) <=> Len(p) <= Len(w) /\ \A i \in 1 .. Len(p) : w[i] = p[i]
  BY <1>2, Starts
<1>4. (\A i \in 1 .. Len(p) : w[i] = p[i]) <=> w[1] = a
  BY <1>2
<1> QED BY <1>1, <1>2, <1>3, <1>4

LEMMA StartsTwo ==
    ASSUME NEW S, NEW w \in Seq(S), NEW a, NEW c
    PROVE  string_starts_with(w, <<a, c>>) <=> 2 <= Len(w) /\ w[1] = a /\ w[2] = c
<1>1. PICK p : p = <<a, c>>
  OBVIOUS
<1>2. p \in Seq({a, c}) /\ Len(p) = 2 /\ p[1] = a /\ p[2] = c
  BY <1>1
<1>3. string_starts_with(w, p) <=> Len(p) <= Len(w) /\ \A i \in 1 .. Len(p) : w[i] = p[i]
  BY <1>2, Starts
<1>4. (\A i \in 1 .. Len(p) : w[i] = p[i]) <=> w[1] = a /\ w[2] = c
  BY <1>2
<1> QED BY <1>1, <1>2, <1>3, <1>4

\* How a string begins, without the characters.
LEMMA Beginnings ==
    ASSUME NEW S, NEW w \in Seq(S)
    PROVE  /\ string_starts_with(w, <<"-">>) <=> 1 <= Len(w) /\ IsMinus(w[1])
           /\ is_signed(w) <=> 1 <= Len(w) /\ (IsMinus(w[1]) \/ IsPlus(w[1]))
           /\ string_starts_with(w, <<"0", "x">>) <=>
                2 <= Len(w) /\ IsZero(w[1]) /\ IsEx(w[2])
           /\ string_starts_with(w, <<"0", "o">>) <=>
                2 <= Len(w) /\ IsZero(w[1]) /\ IsOh(w[2])
           /\ string_starts_with(w, <<"0", "b">>) <=>
                2 <= Len(w) /\ IsZero(w[1]) /\ IsBee(w[2])
<1>1. PICK minus, plus, zero, ex, oh, bee :
        minus = "-" /\ plus = "+" /\ zero = "0" /\ ex = "x" /\ oh = "o" /\ bee = "b"
  OBVIOUS
<1>2. string_starts_with(w, <<minus>>) <=> 1 <= Len(w) /\ w[1] = minus
  BY StartsOne
<1>3. string_starts_with(w, <<plus>>) <=> 1 <= Len(w) /\ w[1] = plus
  BY StartsOne
<1>4. string_starts_with(w, <<zero, ex>>) <=> 2 <= Len(w) /\ w[1] = zero /\ w[2] = ex
  BY StartsTwo
<1>5. string_starts_with(w, <<zero, oh>>) <=> 2 <= Len(w) /\ w[1] = zero /\ w[2] = oh
  BY StartsTwo
<1>6. string_starts_with(w, <<"-">>) <=> 1 <= Len(w) /\ IsMinus(w[1])
  BY <1>1, <1>2, Zenon DEF IsMinus
<1>7. is_signed(w) <=> 1 <= Len(w) /\ (IsMinus(w[1]) \/ IsPlus(w[1]))
  BY <1>1, <1>2, <1>3, Zenon DEF is_signed, IsMinus, IsPlus
<1>8. string_starts_with(w, <<"0", "x">>) <=> 2 <= Len(w) /\ IsZero(w[1]) /\ IsEx(w[2])
  BY <1>1, <1>4, Zenon DEF IsZero, IsEx
<1>9. string_starts_with(w, <<"0", "o">>) <=> 2 <= Len(w) /\ IsZero(w[1]) /\ IsOh(w[2])
  BY <1>1, <1>5, Zenon DEF IsZero, IsOh
<1>10. string_starts_with(w, <<zero, bee>>) <=> 2 <= Len(w) /\ w[1] = zero /\ w[2] = bee
  BY StartsTwo
<1>11. string_starts_with(w, <<"0", "b">>) <=> 2 <= Len(w) /\ IsZero(w[1]) /\ IsBee(w[2])
  BY <1>1, <1>10, Zenon DEF IsZero, IsBee
<1> QED BY <1>6, <1>7, <1>8, <1>9, <1>11, Zenon

\* A slice of what is left of a string.
LEMMA SliceAgain ==
    ASSUME NEW S, NEW w \in Seq(S), NEW a \in Nat, NEW b \in Nat, a + b <= Len(w)
    PROVE  /\ slice(w, a, Len(w)) \in Seq(S) /\ Len(slice(w, a, Len(w))) = Len(w) - a
           /\ \A i \in 1 .. Len(w) - a : slice(w, a, Len(w))[i] = w[a + i]
           /\ string_slice_from(slice(w, a, Len(w)), b) = slice(w, a + b, Len(w))
<1>1. PICK N \in Nat : N = Len(w)
  BY LenProperties
<1>2. PICK c \in Nat : c = a + b
  OBVIOUS
<1>3. a <= N /\ c <= N /\ N <= Len(w) /\ b <= N - a /\ N - a \in Nat /\ c <= Len(w)
  BY <1>1, <1>2
<1>4. PICK u : u = slice(w, a, N)
  OBVIOUS
<1>5. u \in Seq(S) /\ Len(u) = N - a /\ \A i \in 1 .. N - a : u[i] = w[a + i]
  <2>1. /\ slice(w, a, N) \in Seq(S) /\ Len(slice(w, a, N)) = N - a
        /\ \A i \in 1 .. N - a : slice(w, a, N)[i] = w[a + i]
    BY <1>3, SliceIs
  <2> QED BY <1>4, <2>1
<1>6. PICK p : p = slice(w, c, N)
  OBVIOUS
<1>7. p \in Seq(S) /\ Len(p) = N - c /\ \A i \in 1 .. N - c : p[i] = w[c + i]
  <2>1. /\ slice(w, c, N) \in Seq(S) /\ Len(slice(w, c, N)) = N - c
        /\ \A i \in 1 .. N - c : slice(w, c, N)[i] = w[c + i]
    BY <1>3, SliceIs
  <2> QED BY <1>6, <2>1
<1>8. PICK M \in Nat : M = N - a
  BY <1>3
<1>9. PICK q : q = slice(u, b, M)
  OBVIOUS
<1>10. q \in Seq(S) /\ Len(q) = M - b /\ \A i \in 1 .. M - b : q[i] = u[b + i]
  <2>1. b <= M /\ M <= Len(u)
    BY <1>3, <1>5, <1>8
  <2>2. /\ slice(u, b, M) \in Seq(S) /\ Len(slice(u, b, M)) = M - b
        /\ \A i \in 1 .. M - b : slice(u, b, M)[i] = u[b + i]
    BY <1>5, <2>1, SliceIs
  <2> QED BY <1>9, <2>2
<1>11. q = p
  <2>1. Len(q) = Len(p)
    BY <1>2, <1>7, <1>8, <1>10
  <2>2. ASSUME NEW i \in 1 .. Len(q) PROVE q[i] = p[i]
    <3>1. i \in 1 .. M - b /\ i \in 1 .. N - c /\ b + i \in 1 .. N - a /\ a + (b + i) = c + i
      BY <1>2, <1>3, <1>8, <1>10
    <3> QED BY <1>5, <1>7, <1>10, <3>1
  <2> QED BY <1>7, <1>10, <2>1, <2>2, SeqEqual
<1>12. string_slice_from(u, b) = q
  BY <1>5, <1>8, <1>9, Zenon DEF string_slice_from, slice
<1> QED BY <1>1, <1>2, <1>4, <1>5, <1>6, <1>11, <1>12, Zenon

\* What digits stand for.
LEMMA DenotedNat ==
    ASSUME NEW S, NEW d \in Seq(S), NEW base \in Nat,
           \A i \in 1 .. Len(d) : is_digit(d[i], base)
    PROVE  Denoted(d, base) \in Nat
<1>1. PICK N \in Nat : N = Len(d)
  BY LenProperties
<1>2. PICK zero \in Nat : zero = 0
  OBVIOUS
<1> DEFINE step == [x \in Nat \X Nat |->
                      IF x[2] \in 1 .. N THEN x[1] * base + digit_value[d[x[2]]] ELSE 0]
           Loops(u) == u = [i \in 0 .. Len(d) |->
                              IF i = 0 THEN 0 ELSE u[i - 1] * base + digit_value[d[i]]]
<1>3. \A i \in 1 .. N : digit_value[d[i]] \in Nat
  BY <1>1, DigitIs
<1>4. step \in Steps(Nat)
  <2>1. ASSUME NEW x \in Nat \X Nat
        PROVE  (IF x[2] \in 1 .. N THEN x[1] * base + digit_value[d[x[2]]] ELSE 0) \in Nat
    <3>1. CASE x[2] \in 1 .. N
      <4>1. PICK v \in Nat, k \in Nat : v = digit_value[d[x[2]]] /\ k = x[1]
        BY <1>3, <3>1
      <4>2. k * base + v \in Nat
        OBVIOUS
      <4> QED BY <3>1, <4>1, <4>2
    <3>2. CASE x[2] \notin 1 .. N
      BY <3>2
    <3> QED BY <3>1, <3>2
  <2> QED BY <2>1 DEF Steps
<1>5. PICK f : Follows(f, Nat, zero, step, N)
  <2> HIDE DEF step
  <2> QED BY <1>4, RecursionExists
<1>6. /\ f \in [0 .. N -> Nat] /\ f[0] = 0
      /\ \A n \in 0 .. N : n < N => f[n + 1] = f[n] * base + digit_value[d[n + 1]]
  <2>1. /\ f \in [0 .. N -> Nat] /\ f[0] = 0
        /\ \A n \in 0 .. N : n < N => f[n + 1] = step[<<f[n], n + 1>>]
    BY <1>2, <1>5 DEF Follows
  <2>2. ASSUME NEW n \in 0 .. N, n < N
        PROVE  f[n + 1] = f[n] * base + digit_value[d[n + 1]]
    <3>1. PICK v \in Nat, k \in 1 .. N : v = f[n] /\ k = n + 1
      BY <2>1, <2>2
    <3>2. step[<<v, k>>] = v * base + digit_value[d[k]]
      BY <3>1
    <3>3. f[n + 1] = step[<<v, k>>]
      <4> HIDE DEF step
      <4> QED BY <2>1, <2>2, <3>1
    <3> HIDE DEF step
    <3> QED BY <3>1, <3>2, <3>3
  <2> HIDE DEF step
  <2> QED BY <2>1, <2>2
<1> HIDE DEF step
<1>7. Loops(f)
  <2>1. ASSUME NEW n \in 0 .. N
        PROVE  f[n] = IF n = 0 THEN 0 ELSE f[n - 1] * base + digit_value[d[n]]
    <3>1. CASE n = 0
      BY <1>6, <3>1
    <3>2. CASE n # 0
      <4>1. n - 1 \in 0 .. N /\ n - 1 < N /\ (n - 1) + 1 = n
        BY <3>2
      <4>2. f[(n - 1) + 1] = f[n - 1] * base + digit_value[d[(n - 1) + 1]]
        BY <1>6, <4>1
      <4> QED BY <3>2, <4>1, <4>2, Zenon
    <3> QED BY <3>1, <3>2
  <2> QED BY <1>1, <1>6, <2>1, Zenon
<1>8. PICK g : Loops(g) /\ Denoted(d, base) = g[N]
  <2>1. Loops(CHOOSE u : Loops(u))
    <3> HIDE DEF Loops
    <3> QED BY <1>7
  <2>2. Denoted(d, base) = (CHOOSE u : Loops(u))[Len(d)]
    BY Zenon DEF Denoted
  <2> HIDE DEF Loops
  <2> QED BY <1>1, <2>1, <2>2
<1>9. /\ g[0] = 0
      /\ \A n \in 0 .. N : n < N => g[n + 1] = g[n] * base + digit_value[d[n + 1]]
  <2>1. \A n \in 0 .. N : g[n] = IF n = 0 THEN 0 ELSE g[n - 1] * base + digit_value[d[n]]
    BY <1>1, <1>8, Zenon
  <2>2. 0 \in 0 .. N
    OBVIOUS
  <2>3. ASSUME NEW n \in 0 .. N, n < N
        PROVE  g[n + 1] = g[n] * base + digit_value[d[n + 1]]
    <3>1. n + 1 \in 0 .. N /\ n + 1 # 0 /\ (n + 1) - 1 = n
      BY <2>3
    <3>2. g[n + 1] = g[(n + 1) - 1] * base + digit_value[d[n + 1]]
      BY <2>1, <3>1, Zenon
    <3> QED BY <3>1, <3>2, Zenon
  <2>4. g[0] = 0
    BY <2>1, <2>2, Zenon
  <2> QED BY <2>3, <2>4
<1> HIDE DEF Loops
<1>10. g[N] = f[N]
  <2>1. \A n \in 0 .. N : n < N /\ g[n] = f[n] => g[n + 1] = f[n + 1]
    BY <1>6, <1>9, Zenon
  <2>2. g[0] = f[0]
    BY <1>6, <1>9
  <2>3. \A n \in 0 .. N : g[n] = f[n]
    BY <2>1, <2>2, RecursionUnique, ZenonT(60)
  <2> QED BY <2>3
<1> QED BY <1>6, <1>8, <1>10

\* Where strtol begins and ends.
LEMMA DigitsStart ==
    ASSUME NEW S, NEW d \in Seq(S), NEW base
    PROVE  /\ digits_start(d, base) \in Nat /\ digits_start(d, base) <= Len(d)
           /\ \/ digits_start(d, base) = 0
              \/ 1 <= Len(d) /\ (IsMinus(d[1]) \/ IsPlus(d[1]))
              \/ base = 16 /\ 2 <= Len(d) /\ IsAnyEx(d[2])
<1>1. PICK N \in Nat : N = Len(d)
  BY LenProperties
<1>2. PICK sign \in 0 .. 1 : sign = IF is_signed(d) THEN 1 ELSE 0
  OBVIOUS
<1> DEFINE hex == /\ base = 16 /\ Len(d) > sign + 2
                  /\ SubSeq(d, sign + 1, sign + 2) \in {<<"0", "x">>, <<"0", "X">>}
                  /\ is_digit(d[sign + 3], 16)
<1>3. digits_start(d, base) = IF hex THEN sign + 2 ELSE sign
  BY <1>2, Zenon DEF digits_start
<1>4. is_signed(d) <=> 1 <= Len(d) /\ (IsMinus(d[1]) \/ IsPlus(d[1]))
  BY Beginnings
<1>5. sign = 0 \/ (sign = 1 /\ 1 <= Len(d) /\ (IsMinus(d[1]) \/ IsPlus(d[1])))
  BY <1>2, <1>4
<1>6. CASE hex
  <2>1. CASE sign = 0
    <3>1. N > 2
      BY <1>1, <1>6, <2>1
    <3>2. PICK q : q = SubSeq(d, 1, 2)
      OBVIOUS
    <3>3. q[2] = d[2] /\ Len(q) = 2
      <4>1. \A i \in 1 .. 2 : d[i] \in S
        <5>1. \A i \in 1 .. 2 : i \in 1 .. Len(d)
          BY <1>1, <3>1
        <5> QED BY <5>1, ElementOfSeq
      <4>2. 1 \in Int /\ 2 \in Int
        OBVIOUS
      <4>3. /\ Len(q) = IF 1 <= 2 THEN 2 - 1 + 1 ELSE 0
            /\ \A i \in 1 .. 2 - 1 + 1 : q[i] = d[1 + i - 1]
        BY <3>2, <4>1, <4>2, SubSeqProperties
      <4>4. 2 \in 1 .. 2 - 1 + 1 /\ 1 + 2 - 1 = 2
        OBVIOUS
      <4> QED BY <4>3, <4>4
    <3>4. sign + 1 = 1 /\ sign + 2 = 2
      BY <2>1
    <3>5. PICK zero, ex : q = <<zero, ex>> /\ ex \in {"x", "X"}
      <4>1. q \in {<<"0", "x">>, <<"0", "X">>}
        BY <1>6, <3>2, <3>4, Zenon
      <4> QED BY <4>1, Zenon
    <3>8. d[2] = ex
      BY <3>3, <3>5
    <3>9. IsAnyEx(d[2])
      BY <3>5, <3>8 DEF IsAnyEx
    <3>10. digits_start(d, base) = 2
      BY <1>3, <1>6, <3>4
    <3> QED BY <1>1, <1>6, <3>1, <3>9, <3>10
  <2>2. CASE sign # 0
    <3>1. digits_start(d, base) = sign + 2 /\ Len(d) > sign + 2
      BY <1>3, <1>6
    <3> QED BY <1>1, <1>5, <2>2, <3>1
  <2> QED BY <2>1, <2>2
<1>7. CASE ~ hex
  <2>1. digits_start(d, base) = sign
    BY <1>3, <1>7, Zenon
  <2> QED BY <1>1, <1>5, <2>1
<1> QED BY <1>6, <1>7

\* strtol reads as many digits as there are.
LEMMA DigitsEnd ==
    ASSUME NEW S, NEW d \in Seq(S), NEW base, NEW start \in Nat, start <= Len(d)
    PROVE  LET e == digits_end(d, start, base)
           IN /\ e \in start .. Len(d)
              /\ \A i \in start + 1 .. e : is_digit(d[i], base)
              /\ e < Len(d) => ~ is_digit(d[e + 1], base)
<1>1. PICK N \in Nat : N = Len(d)
  BY LenProperties
<1> DEFINE Ends(n) == /\ AllDigits(SubSeq(d, start + 1, n), base)
                      /\ n < Len(d) => ~ is_digit(d[n + 1], base)
<1>2. ASSUME NEW n \in start .. N
      PROVE  AllDigits(SubSeq(d, start + 1, n), base) <=>
               \A i \in start + 1 .. n : is_digit(d[i], base)
  <2>1. start \in Nat /\ n \in Nat /\ start <= n /\ n <= Len(d)
    BY <1>1
  <2>2. PICK q : q = slice(d, start, n)
    OBVIOUS
  <2>3. q \in Seq(S) /\ Len(q) = n - start /\ \A i \in 1 .. n - start : q[i] = d[start + i]
    <3>1. /\ slice(d, start, n) \in Seq(S) /\ Len(slice(d, start, n)) = n - start
          /\ \A i \in 1 .. n - start : slice(d, start, n)[i] = d[start + i]
      BY <2>1, SliceIs
    <3> QED BY <2>2, <3>1
  <2>4. DOMAIN q = 1 .. n - start
    BY <2>3, LenProperties
  <2>5. AllDigits(q, base) <=> \A i \in 1 .. n - start : is_digit(q[i], base)
    BY <2>4 DEF AllDigits
  <2>6. (\A i \in 1 .. n - start : is_digit(q[i], base)) <=>
          (\A i \in start + 1 .. n : is_digit(d[i], base))
    <3>1. ASSUME \A i \in 1 .. n - start : is_digit(q[i], base), NEW i \in start + 1 .. n
          PROVE  is_digit(d[i], base)
      <4>1. i - start \in 1 .. n - start /\ start + (i - start) = i
        OBVIOUS
      <4> QED BY <2>3, <3>1, <4>1
    <3>2. ASSUME \A i \in start + 1 .. n : is_digit(d[i], base), NEW i \in 1 .. n - start
          PROVE  is_digit(q[i], base)
      <4>1. start + i \in start + 1 .. n
        OBVIOUS
      <4> QED BY <2>3, <3>2, <4>1
    <3> QED BY <3>1, <3>2
  <2>7. q = SubSeq(d, start + 1, n)
    BY <2>2 DEF slice
  <2> QED BY <2>5, <2>6, <2>7
<1>3. \E n \in start .. N : Ends(n)
  <2> DEFINE F == {n \in start .. N : n = N \/ ~ is_digit(d[n + 1], base)}
  <2>1. F \subseteq Nat /\ N \in F
    BY <1>1
  <2>2. PICK n \in F : \A j \in F : n <= j
    <3> HIDE DEF F
    <3> QED BY <2>1, LeastOf
  <2>3. n \in start .. N /\ (n = N \/ ~ is_digit(d[n + 1], base))
    BY <2>2
  <2>4. ASSUME NEW i \in start + 1 .. n PROVE is_digit(d[i], base)
    <3>1. i - 1 \in start .. N /\ ~ (n <= i - 1) /\ (i - 1) + 1 = i /\ i - 1 # N
      BY <2>3
    <3>2. i - 1 \notin F
      BY <2>2, <3>1
    <3> QED BY <3>1, <3>2
  <2>5. n < Len(d) => ~ is_digit(d[n + 1], base)
    BY <1>1, <2>3
  <2>6. AllDigits(SubSeq(d, start + 1, n), base)
    BY <1>2, <2>3, <2>4
  <2> QED BY <2>3, <2>5, <2>6
<1>4. PICK e : e = digits_end(d, start, base)
  OBVIOUS
<1>5. e \in start .. N /\ Ends(e)
  <2>1. e = CHOOSE n \in start .. N : Ends(n)
    BY <1>1, <1>4, Zenon DEF digits_end
  <2> HIDE DEF Ends
  <2> QED BY <1>3, <2>1, Zenon
<1>6. \A i \in start + 1 .. e : is_digit(d[i], base)
  BY <1>2, <1>5
<1> QED BY <1>1, <1>4, <1>5, <1>6

\* strtol of digits alone.
LEMMA StrtolReads ==
    ASSUME NEW S, NEW d \in Seq(S), NEW base \in Nat, d # <<>>,
           \A i \in 1 .. Len(d) : is_digit(d[i], base)
    PROVE  /\ string_is_int_of_base(d, base)
           /\ Denoted(d, base) \in Nat
           /\ string_parse_int(d, base) =
                IF Denoted(d, base) > IntMax THEN IntMax ELSE Denoted(d, base)
<1>1. PICK N \in Nat : N = Len(d) /\ 0 < N
  <2>1. Len(d) \in Nat /\ Len(d) # 0
    BY LenProperties, EmptySeq
  <2> QED BY <2>1
<1>2. \A i \in 1 .. N : ~ IsMinus(d[i]) /\ ~ IsPlus(d[i]) /\ ~ IsAnyEx(d[i])
  BY <1>1, DigitIs
<1>3. digits_start(d, base) = 0
  <2>1. 1 \in 1 .. N /\ (2 <= N => 2 \in 1 .. N)
    BY <1>1
  <2> QED BY <1>1, <1>2, <2>1, DigitsStart
<1>4. digits_end(d, 0, base) = N
  <2>1. PICK e : e = digits_end(d, 0, base)
    OBVIOUS
  <2>2. 0 \in Nat /\ 0 <= Len(d)
    BY <1>1
  <2>3. e \in 0 .. Len(d) /\ (e < Len(d) => ~ is_digit(d[e + 1], base))
    BY <2>1, <2>2, DigitsEnd
  <2>4. e < N => e + 1 \in 1 .. N
    BY <1>1, <2>3
  <2>5. ~ (e < N)
    BY <1>1, <2>3, <2>4
  <2>6. e = N
    BY <1>1, <2>3, <2>5
  <2> QED BY <2>1, <2>6
<1>5. PICK D \in Nat : D = Denoted(d, base)
  BY DenotedNat
<1>6. SubSeq(d, 0 + 1, N) = d
  <2>1. SubSeq(d, 1, Len(d)) = d
    BY SubSeqFull
  <2> QED BY <1>1, <2>1
<1>7. ~ string_starts_with(d, <<"-">>)
  <2>1. 1 \in 1 .. N
    BY <1>1
  <2> QED BY <1>2, <2>1, Beginnings
<1>8. strtol(d, base) =
        [end |-> IF N = 0 THEN 0 ELSE N,
         value |-> in_range(string_starts_with(d, <<"-">>), D)]
  BY <1>3, <1>4, <1>5, <1>6, Zenon DEF strtol, digits_read
<1>9. strtol(d, base).end = N
  BY <1>1, <1>8
<1>10. string_is_int_of_base(d, base)
  BY <1>1, <1>9, Zenon DEF string_is_int_of_base
<1>11. string_parse_int(d, base) = in_range(string_starts_with(d, <<"-">>), D)
  BY <1>8 DEF string_parse_int
<1>12. string_parse_int(d, base) = IF D > IntMax THEN IntMax ELSE D
  BY <1>7, <1>11, Zenon DEF in_range
<1> QED BY <1>5, <1>10, <1>12, Zenon

\* What strtol reads to the end is digits, or has a sign or a prefix.
LEMMA StrtolAll ==
    ASSUME NEW S, NEW d \in Seq(S), NEW base, string_is_int_of_base(d, base)
    PROVE  /\ 0 < Len(d)
           /\ \/ \A i \in 1 .. Len(d) : is_digit(d[i], base)
              \/ IsMinus(d[1]) \/ IsPlus(d[1])
              \/ base = 16 /\ 2 <= Len(d) /\ IsAnyEx(d[2])
<1>1. PICK N \in Nat : N = Len(d) /\ 0 < N
  <2>1. d # <<>>
    BY Zenon DEF string_is_int_of_base
  <2>2. Len(d) \in Nat /\ Len(d) # 0
    BY <2>1, LenProperties, EmptySeq
  <2> QED BY <2>2
<1>2. PICK start \in Nat : start = digits_start(d, base)
  BY DigitsStart
<1>3. /\ start <= N
      /\ \/ start = 0
         \/ 1 <= N /\ (IsMinus(d[1]) \/ IsPlus(d[1]))
         \/ base = 16 /\ 2 <= N /\ IsAnyEx(d[2])
  BY <1>1, <1>2, DigitsStart
<1>4. PICK e : e = digits_end(d, start, base)
  OBVIOUS
<1>5. e \in start .. N /\ \A i \in start + 1 .. e : is_digit(d[i], base)
  BY <1>1, <1>3, <1>4, DigitsEnd
<1>6. PICK v : v = in_range(string_starts_with(d, <<"-">>),
                            Denoted(SubSeq(d, start + 1, e), base))
  OBVIOUS
<1>7. strtol(d, base) = [end |-> IF e = start THEN 0 ELSE e, value |-> v]
  BY <1>2, <1>4, <1>6, Zenon DEF strtol, digits_read
<1>8. strtol(d, base).end = N
  BY <1>1, Zenon DEF string_is_int_of_base
<1>9. e = N
  BY <1>1, <1>7, <1>8
<1> QED BY <1>1, <1>3, <1>5, <1>9

-----------------------------------------------------------------------------

\* A sign over k characters, a prefix over m, and digits to the end.
Prefixed(w, k, m, base) ==
    \/ m = 0 /\ base = 10
    \/ m = 2 /\ IsZero(w[k + 1]) /\ IsEx(w[k + 2]) /\ base = 16
    \/ m = 2 /\ IsZero(w[k + 1]) /\ IsOh(w[k + 2]) /\ base = 8

\* What is spelled as an integer, without the strings of PlainInt
Laid(w, k, m, base) ==
    /\ k \in {0, 1} /\ m \in {0, 2} /\ k + m < Len(w)
    /\ k = 1 => IsMinus(w[1]) \/ IsPlus(w[1])
    /\ Prefixed(w, k, m, base)
    /\ \A i \in (k + m) + 1 .. Len(w) : is_digit(w[i], base)

\* unsigned takes the sign off.
LEMMA UnsignedIs ==
    ASSUME NEW S, NEW w \in Seq(S), NEW k \in {0, 1},
           k = 1 <=> 1 <= Len(w) /\ (IsMinus(w[1]) \/ IsPlus(w[1]))
    PROVE  unsigned(w) = slice(w, k, Len(w)) /\ k <= Len(w)
<1>1. is_signed(w) <=> 1 <= Len(w) /\ (IsMinus(w[1]) \/ IsPlus(w[1]))
  BY Beginnings
<1>2. Len(w) \in Nat
  BY LenProperties
<1>3. CASE k = 1
  <2>1. unsigned(w) = string_slice_from(w, 1)
    BY <1>1, <1>3, Zenon DEF unsigned
  <2>2. string_slice_from(w, 1) = slice(w, 1, Len(w))
    BY Zenon DEF string_slice_from, slice
  <2> QED BY <1>2, <1>3, <2>1, <2>2
<1>4. CASE k = 0
  <2>1. unsigned(w) = w
    BY <1>1, <1>4 DEF unsigned
  <2>2. SubSeq(w, 1, Len(w)) = w
    BY SubSeqFull
  <2>3. slice(w, 0, Len(w)) = SubSeq(w, 1, Len(w))
    <3>1. slice(w, 0, Len(w)) = SubSeq(w, 0 + 1, Len(w)) /\ 0 + 1 = 1
      BY DEF slice
    <3> QED BY <3>1
  <2> QED BY <1>2, <1>4, <2>1, <2>2, <2>3
<1> QED BY <1>3, <1>4

\* based takes the prefix off what has no sign.
LEMMA BasedIs ==
    ASSUME NEW S, NEW w \in Seq(S), NEW k \in Nat, k <= Len(w), NEW u, u = slice(w, k, Len(w))
    PROVE  \E m \in {0, 2}, base \in Nat :
             /\ based(u) = [digits |-> slice(w, k + m, Len(w)), base |-> base]
             /\ k + m <= Len(w) /\ Prefixed(w, k, m, base)
             /\ m = 0 => /\ ~ (k + 2 <= Len(w) /\ IsZero(w[k + 1]) /\ IsEx(w[k + 2]))
                         /\ ~ (k + 2 <= Len(w) /\ IsZero(w[k + 1]) /\ IsOh(w[k + 2]))
<1>1. PICK N \in Nat : N = Len(w)
  BY LenProperties
<1>2. /\ u \in Seq(S) /\ Len(u) = N - k /\ \A i \in 1 .. N - k : u[i] = w[k + i]
  <2>1. k \in Nat /\ 0 \in Nat /\ k + 0 <= Len(w)
    BY <1>1
  <2>2. /\ slice(w, k, Len(w)) \in Seq(S) /\ Len(slice(w, k, Len(w))) = Len(w) - k
        /\ \A i \in 1 .. Len(w) - k : slice(w, k, Len(w))[i] = w[k + i]
    BY <2>1, SliceAgain
  <2> QED BY <1>1, <2>2
<1>3. PICK hex, oct :
        /\ hex = string_starts_with(u, <<"0", "x">>)
        /\ oct = string_starts_with(u, <<"0", "o">>)
  OBVIOUS
<1>4. /\ hex <=> 2 <= Len(u) /\ IsZero(u[1]) /\ IsEx(u[2])
      /\ oct <=> 2 <= Len(u) /\ IsZero(u[1]) /\ IsOh(u[2])
  <2>1. /\ string_starts_with(u, <<"0", "x">>) <=>
             2 <= Len(u) /\ IsZero(u[1]) /\ IsEx(u[2])
        /\ string_starts_with(u, <<"0", "o">>) <=>
             2 <= Len(u) /\ IsZero(u[1]) /\ IsOh(u[2])
    BY <1>2, Beginnings
  <2> QED BY <1>3, <2>1, Zenon
<1>5. /\ hex <=> k + 2 <= N /\ IsZero(w[k + 1]) /\ IsEx(w[k + 2])
      /\ oct <=> k + 2 <= N /\ IsZero(w[k + 1]) /\ IsOh(w[k + 2])
  <2>1. 2 <= Len(u) <=> k + 2 <= N
    BY <1>1, <1>2
  <2>2. CASE k + 2 <= N
    <3>1. 1 \in 1 .. N - k /\ 2 \in 1 .. N - k
      BY <1>1, <2>2
    <3>2. u[1] = w[k + 1] /\ u[2] = w[k + 2]
      BY <1>2, <3>1
    <3> QED BY <1>4, <2>1, <2>2, <3>2, Zenon
  <2>3. CASE ~ (k + 2 <= N)
    BY <1>4, <2>1, <2>3, Zenon
  <2> QED BY <2>2, <2>3
<1>6. ~ (hex /\ oct)
  BY <1>5, ExIsNotOh, Zenon
<1>7. based(u) = CASE hex -> [digits |-> string_slice_from(u, 2), base |-> 16]
                   [] oct -> [digits |-> string_slice_from(u, 2), base |-> 8]
                   [] OTHER -> [digits |-> u, base |-> 10]
  BY <1>3, Zenon DEF based
<1>8. k + 2 <= N => string_slice_from(u, 2) = slice(w, k + 2, N)
  <2>1. 2 \in Nat
    OBVIOUS
  <2>2. k + 2 <= Len(w) => string_slice_from(slice(w, k, Len(w)), 2) = slice(w, k + 2, Len(w))
    BY <2>1, SliceAgain
  <2> QED BY <1>1, <2>2, Zenon
<1>9. CASE hex
  <2>1. k + 2 <= N /\ Prefixed(w, k, 2, 16)
    <3>1. k + 2 <= N /\ IsZero(w[k + 1]) /\ IsEx(w[k + 2])
      BY <1>5, <1>9, Zenon
    <3> QED BY <3>1 DEF Prefixed
  <2>2. based(u) = [digits |-> slice(w, k + 2, Len(w)), base |-> 16]
    BY <1>1, <1>6, <1>7, <1>8, <1>9, <2>1, Zenon
  <2>3. 2 \in {0, 2} /\ 16 \in Nat /\ 2 # 0
    OBVIOUS
  <2> QED BY <1>1, <2>1, <2>2, <2>3
<1>10. CASE oct
  <2>1. k + 2 <= N /\ Prefixed(w, k, 2, 8)
    <3>1. k + 2 <= N /\ IsZero(w[k + 1]) /\ IsOh(w[k + 2])
      BY <1>5, <1>10, Zenon
    <3> QED BY <3>1 DEF Prefixed
  <2>2. based(u) = [digits |-> slice(w, k + 2, Len(w)), base |-> 8]
    BY <1>1, <1>6, <1>7, <1>8, <1>10, <2>1, Zenon
  <2>3. 2 \in {0, 2} /\ 8 \in Nat /\ 2 # 0
    OBVIOUS
  <2> QED BY <1>1, <2>1, <2>2, <2>3
<1>11. CASE ~ hex /\ ~ oct
  <2>1. based(u) = [digits |-> u, base |-> 10]
    BY <1>7, <1>11, Zenon
  <2>2. based(u) = [digits |-> slice(w, k + 0, Len(w)), base |-> 10]
    <3>1. k + 0 = k
      OBVIOUS
    <3> QED BY <2>1, <3>1, Zenon
  <2>3. Prefixed(w, k, 0, 10) /\ k + 0 <= Len(w)
    BY DEF Prefixed
  <2>4. 0 \in {0, 2} /\ 10 \in Nat
    OBVIOUS
  <2>5. /\ ~ (k + 2 <= Len(w) /\ IsZero(w[k + 1]) /\ IsEx(w[k + 2]))
        /\ ~ (k + 2 <= Len(w) /\ IsZero(w[k + 1]) /\ IsOh(w[k + 2]))
    BY <1>1, <1>5, <1>11, Zenon
  <2> QED BY <2>2, <2>3, <2>4, <2>5, Zenon
<1> QED BY <1>9, <1>10, <1>11, Zenon

\* The digits behind, as a string of their own.
LEMMA DigitsBehind ==
    ASSUME NEW S, NEW w \in Seq(S), NEW n \in Nat, n <= Len(w), NEW base
    PROVE  LET d == slice(w, n, Len(w))
           IN /\ d \in Seq(S) /\ Len(d) = Len(w) - n /\ (d # <<>> <=> n < Len(w))
              /\ \A i \in 1 .. Len(w) - n : d[i] = w[n + i]
              /\ (\A i \in 1 .. Len(d) : is_digit(d[i], base)) <=>
                   (\A i \in n + 1 .. Len(w) : is_digit(w[i], base))
              /\ AllDigits(d, base) <=> (\A i \in n + 1 .. Len(w) : is_digit(w[i], base))
<1>1. PICK N \in Nat : N = Len(w)
  BY LenProperties
<1>2. PICK d : d = slice(w, n, Len(w))
  OBVIOUS
<1>3. d \in Seq(S) /\ Len(d) = N - n /\ \A i \in 1 .. N - n : d[i] = w[n + i]
  <2>1. n \in Nat /\ 0 \in Nat /\ n + 0 <= Len(w)
    BY <1>1
  <2>2. /\ slice(w, n, Len(w)) \in Seq(S) /\ Len(slice(w, n, Len(w))) = Len(w) - n
        /\ \A i \in 1 .. Len(w) - n : slice(w, n, Len(w))[i] = w[n + i]
    BY <2>1, SliceAgain
  <2> QED BY <1>1, <1>2, <2>2
<1>4. d # <<>> <=> n < N
  <2>1. d # <<>> <=> Len(d) # 0
    BY <1>3, EmptySeq
  <2> QED BY <1>1, <1>3, <2>1
<1>5. (\A i \in 1 .. N - n : is_digit(d[i], base)) <=>
        (\A i \in n + 1 .. N : is_digit(w[i], base))
  <2>1. ASSUME \A i \in 1 .. N - n : is_digit(d[i], base), NEW i \in n + 1 .. N
        PROVE  is_digit(w[i], base)
    <3>1. i - n \in 1 .. N - n /\ n + (i - n) = i
      OBVIOUS
    <3> QED BY <1>3, <2>1, <3>1
  <2>2. ASSUME \A i \in n + 1 .. N : is_digit(w[i], base), NEW i \in 1 .. N - n
        PROVE  is_digit(d[i], base)
    <3>1. n + i \in n + 1 .. N
      OBVIOUS
    <3> QED BY <1>3, <2>2, <3>1
  <2> QED BY <2>1, <2>2
<1>6. AllDigits(d, base) <=> \A i \in 1 .. N - n : is_digit(d[i], base)
  <2>1. DOMAIN d = 1 .. N - n
    BY <1>3, LenProperties
  <2> QED BY <2>1 DEF AllDigits
<1> QED BY <1>1, <1>2, <1>3, <1>4, <1>5, <1>6

\* What is laid out as an integer is read as one, with its value.
LEMMA LaidReads ==
    ASSUME NEW S, NEW w \in Seq(S), NEW k, NEW m, NEW base \in Nat, Laid(w, k, m, base),
           NEW d, d = slice(w, k + m, Len(w))
    PROVE  /\ string_is_xint(w) /\ Denoted(d, base) \in Nat
           /\ string_parse_xint(w) =
                IF k = 1 /\ IsMinus(w[1])
                THEN - (IF Denoted(d, base) > IntMax THEN IntMax ELSE Denoted(d, base))
                ELSE IF Denoted(d, base) > IntMax THEN IntMax ELSE Denoted(d, base)
<1>1. PICK N \in Nat : N = Len(w)
  BY LenProperties
<1>2. /\ k \in {0, 1} /\ m \in {0, 2} /\ k + m < N
      /\ k = 1 => IsMinus(w[1]) \/ IsPlus(w[1])
      /\ Prefixed(w, k, m, base)
      /\ \A i \in (k + m) + 1 .. N : is_digit(w[i], base)
  BY <1>1 DEF Laid
<1>3. ~ IsMinus(w[k + 1]) /\ ~ IsPlus(w[k + 1])
  <2>1. CASE m = 0
    <3>1. k + 1 \in (k + m) + 1 .. N
      BY <1>1, <1>2, <2>1
    <3> QED BY <1>2, <3>1, DigitIs
  <2>2. CASE m = 2
    BY <1>2, <2>2, ZeroIs DEF Prefixed
  <2> QED BY <1>2, <2>1, <2>2
<1>4. k = 1 <=> 1 <= Len(w) /\ (IsMinus(w[1]) \/ IsPlus(w[1]))
  <2>1. CASE k = 1
    BY <1>1, <1>2, <2>1
  <2>2. CASE k = 0
    <3>1. k + 1 = 1
      BY <2>2
    <3> QED BY <1>3, <2>2, <3>1
  <2> QED BY <1>2, <2>1, <2>2
<1>5. PICK u : u = unsigned(w)
  OBVIOUS
<1>6. u = slice(w, k, Len(w)) /\ k <= Len(w) /\ k \in Nat
  <2>1. k \in {0, 1}
    BY <1>2
  <2> QED BY <1>4, <1>5, <2>1, UnsignedIs
<1>7. PICK n \in {0, 2}, b \in Nat :
        /\ based(u) = [digits |-> slice(w, k + n, Len(w)), base |-> b]
        /\ k + n <= Len(w) /\ Prefixed(w, k, n, b)
        /\ n = 0 => /\ ~ (k + 2 <= Len(w) /\ IsZero(w[k + 1]) /\ IsEx(w[k + 2]))
                    /\ ~ (k + 2 <= Len(w) /\ IsZero(w[k + 1]) /\ IsOh(w[k + 2]))
  BY <1>6, BasedIs
<1>8. n = m /\ b = base
  <2>1. CASE m = 2
    <3>1. k + 2 <= Len(w)
      BY <1>1, <1>2, <2>1
    <3>2. IsZero(w[k + 1]) /\ (IsEx(w[k + 2]) \/ IsOh(w[k + 2]))
      BY <1>2, <2>1 DEF Prefixed
    <3>3. n = 2
      BY <1>7, <3>1, <3>2
    <3>4. ~ (IsEx(w[k + 2]) /\ IsOh(w[k + 2]))
      BY ExIsNotOh
    <3> QED BY <1>2, <1>7, <2>1, <3>3, <3>4 DEF Prefixed
  <2>2. CASE m = 0
    <3>1. CASE n = 2
      <4>1. IsEx(w[k + 2]) \/ IsOh(w[k + 2])
        BY <1>7, <3>1 DEF Prefixed
      <4>2. k + 2 \in (k + m) + 1 .. N
        BY <1>1, <1>2, <1>7, <2>2, <3>1
      <4> QED BY <1>2, <4>1, <4>2, DigitIs
    <3>2. CASE n = 0
      BY <1>2, <1>7, <2>2, <3>2 DEF Prefixed
    <3> QED BY <1>7, <3>1, <3>2
  <2> QED BY <1>2, <2>1, <2>2
<1>9. based(u).digits = d /\ based(u).base = base
  BY <1>7, <1>8
<1>10. d \in Seq(S) /\ d # <<>> /\ \A i \in 1 .. Len(d) : is_digit(d[i], base)
  <2>1. PICK z \in Nat : z = k + m
    BY <1>2
  <2>2. z <= Len(w) /\ z < Len(w) /\ d = slice(w, z, Len(w))
    BY <1>1, <1>2, <2>1
  <2>3. \A i \in z + 1 .. Len(w) : is_digit(w[i], base)
    BY <1>1, <1>2, <2>1
  <2> QED BY <2>2, <2>3, DigitsBehind, ZenonT(60)
<1>11. PICK D, v : /\ D \in Nat /\ D = Denoted(d, base) /\ string_is_int_of_base(d, base)
                          /\ v = string_parse_int(d, base)
                          /\ v = IF D > IntMax THEN IntMax ELSE D
  <2>1. /\ string_is_int_of_base(d, base) /\ Denoted(d, base) \in Nat
        /\ string_parse_int(d, base) =
             IF Denoted(d, base) > IntMax THEN IntMax ELSE Denoted(d, base)
    BY <1>10, StrtolReads
  <2> QED BY <2>1
<1>12. ~ is_signed(u)
  <2>1. PICK z \in Nat : z = k
    BY <1>2
  <2>2. z <= Len(w) /\ u = slice(w, z, Len(w)) /\ 1 \in 1 .. Len(w) - z
    BY <1>1, <1>2, <1>6, <2>1
  <2>3. u \in Seq(S) /\ u[1] = w[z + 1]
    BY <2>2, DigitsBehind
  <2>4. is_signed(u) <=> 1 <= Len(u) /\ (IsMinus(u[1]) \/ IsPlus(u[1]))
    BY <2>3, Beginnings
  <2> QED BY <1>3, <2>1, <2>3, <2>4
<1>13. string_is_xint(w)
  BY <1>5, <1>9, <1>11, <1>12, Zenon DEF string_is_xint
<1>14. string_starts_with(w, <<"-">>) <=> k = 1 /\ IsMinus(w[1])
  <2>1. string_starts_with(w, <<"-">>) <=> 1 <= Len(w) /\ IsMinus(w[1])
    BY Beginnings
  <2> QED BY <1>4, <2>1
<1>15. string_parse_xint(w) = IF string_starts_with(w, <<"-">>) THEN -v ELSE v
  <2>1. ~ string_starts_with(u, <<"0", "b">>)
    <3>1. PICK z \in Nat : z = k
      BY <1>2
    <3>2. z <= Len(w) /\ u = slice(w, z, Len(w))
      BY <1>6, <3>1
    <3>3. u \in Seq(S) /\ Len(u) = N - z /\ \A i \in 1 .. N - z : u[i] = w[z + i]
      BY <1>1, <3>2, DigitsBehind
    <3>4. string_starts_with(u, <<"0", "b">>) <=> 2 <= Len(u) /\ IsZero(u[1]) /\ IsBee(u[2])
      BY <3>3, Beginnings
    <3>5. ASSUME 2 <= N - z PROVE ~ IsBee(w[z + 2])
      <4>1. CASE m = 0
        <5>1. z + 2 \in (k + m) + 1 .. N
          BY <1>1, <1>2, <3>1, <3>5, <4>1
        <5>2. is_digit(w[z + 2], base) /\ base = 10
          BY <1>2, <4>1, <5>1 DEF Prefixed
        <5> QED BY <5>2, DigitIs
      <4>2. CASE m = 2
        <5>1. IsEx(w[z + 2]) \/ IsOh(w[z + 2])
          BY <1>2, <3>1, <4>2 DEF Prefixed
        <5> QED BY <5>1, ExIsNotOh
      <4> QED BY <1>2, <4>1, <4>2
    <3>6. ASSUME 2 <= N - z PROVE u[2] = w[z + 2]
      <4>1. 2 \in 1 .. N - z
        BY <1>1, <3>1, <3>6
      <4> QED BY <3>3, <4>1
    <3> QED BY <3>3, <3>4, <3>5, <3>6
  <2>2. parse_form(u) = based(u)
    BY <2>1, Zenon DEF parse_form
  <2>3. negated(v) = -v
    <3>1. v # -IntMax - 1
      BY <1>11, XintAssumption
    <3> QED BY <3>1, Zenon DEF negated
  <2> QED BY <1>5, <1>9, <1>11, <2>2, <2>3, Zenon DEF string_parse_xint
<1>16. string_parse_xint(w) = IF k = 1 /\ IsMinus(w[1]) THEN -v ELSE v
  BY <1>14, <1>15, Zenon
<1> QED BY <1>11, <1>13, <1>16, Zenon

\* What is read as an integer is laid out as one, or there is more to it.
LEMMA ReadsLaid ==
    ASSUME NEW S, NEW w \in Seq(S), string_is_xint(w)
    PROVE  \/ \E k, m, base : Laid(w, k, m, base)
           \/ \E j \in 3 .. Len(w) : IsMinus(w[j]) \/ IsPlus(w[j]) \/ IsAnyEx(w[j])
<1>1. PICK N \in Nat : N = Len(w)
  BY LenProperties
<1>2. PICK k \in {0, 1} : k = 1 <=> 1 <= Len(w) /\ (IsMinus(w[1]) \/ IsPlus(w[1]))
  OBVIOUS
<1>3. PICK u : u = unsigned(w)
  OBVIOUS
<1>4. u = slice(w, k, Len(w)) /\ k <= Len(w) /\ k \in Nat
  BY <1>2, <1>3, UnsignedIs
<1>5. PICK m \in {0, 2}, base \in Nat :
        /\ based(u) = [digits |-> slice(w, k + m, Len(w)), base |-> base]
        /\ k + m <= Len(w) /\ Prefixed(w, k, m, base)
        /\ m = 0 => /\ ~ (k + 2 <= Len(w) /\ IsZero(w[k + 1]) /\ IsEx(w[k + 2]))
                    /\ ~ (k + 2 <= Len(w) /\ IsZero(w[k + 1]) /\ IsOh(w[k + 2]))
  BY <1>4, BasedIs
<1>6. PICK d : d = slice(w, k + m, Len(w))
  OBVIOUS
<1>7. based(u).digits = d /\ based(u).base = base
  BY <1>5, <1>6
<1>8. ~ is_signed(u) /\ string_is_int_of_base(d, base)
  BY <1>3, <1>7, Zenon DEF string_is_xint
<1>9. PICK z \in Nat : z = k + m
  OBVIOUS
<1>10. /\ d \in Seq(S) /\ Len(d) = N - z
       /\ \A i \in 1 .. N - z : d[i] = w[z + i]
       /\ (\A i \in 1 .. Len(d) : is_digit(d[i], base)) <=>
            (\A i \in z + 1 .. N : is_digit(w[i], base))
  <2>1. z <= Len(w) /\ d = slice(w, z, Len(w))
    BY <1>5, <1>6, <1>9
  <2> QED BY <1>1, <2>1, DigitsBehind
<1>11. /\ 0 < Len(d)
       /\ \/ \A i \in 1 .. Len(d) : is_digit(d[i], base)
          \/ IsMinus(d[1]) \/ IsPlus(d[1])
          \/ base = 16 /\ 2 <= Len(d) /\ IsAnyEx(d[2])
  BY <1>8, <1>10, StrtolAll
<1>12. CASE \A i \in 1 .. Len(d) : is_digit(d[i], base)
  <2>1. Laid(w, k, m, base)
    BY <1>1, <1>2, <1>5, <1>9, <1>10, <1>11, <1>12 DEF Laid
  <2> QED BY <2>1
<1>13. CASE m = 2 /\ (IsMinus(d[1]) \/ IsPlus(d[1]))
  <2>1. 1 \in 1 .. N - z /\ z + 1 \in 3 .. N
    BY <1>1, <1>9, <1>10, <1>11, <1>13
  <2> QED BY <1>1, <1>10, <1>13, <2>1
<1>14. CASE m = 2 /\ 2 <= Len(d) /\ IsAnyEx(d[2])
  <2>1. 2 \in 1 .. N - z /\ z + 2 \in 3 .. N
    BY <1>1, <1>9, <1>10, <1>14
  <2> QED BY <1>1, <1>10, <1>14, <2>1
<1>15. CASE m = 0 /\ ~ (\A i \in 1 .. Len(d) : is_digit(d[i], base))
  <2>1. d = u
    <3>1. k + m = k
      BY <1>15
    <3> QED BY <1>4, <1>6, <3>1, Zenon
  <2>2. is_signed(d) <=> 1 <= Len(d) /\ (IsMinus(d[1]) \/ IsPlus(d[1]))
    BY <1>10, Beginnings
  <2>3. 1 <= Len(d) /\ ~ IsMinus(d[1]) /\ ~ IsPlus(d[1])
    BY <1>8, <1>10, <1>11, <2>1, <2>2
  <2>4. base = 10
    BY <1>5, <1>15 DEF Prefixed
  <2> QED BY <1>11, <1>15, <2>3, <2>4
<1> QED BY <1>5, <1>11, <1>12, <1>13, <1>14, <1>15

-----------------------------------------------------------------------------

\* The signs and prefixes, without the characters.
LEMMA SignIs ==
    ASSUME NEW sign \in Signs
    PROVE  /\ \E T : sign \in Seq(T)
           /\ \/ Len(sign) = 0
              \/ Len(sign) = 1 /\ (IsMinus(sign[1]) \/ IsPlus(sign[1]))
           /\ sign = <<"-">> <=> Len(sign) = 1 /\ IsMinus(sign[1])
<1>1. PICK minus, plus : minus = "-" /\ plus = "+"
  OBVIOUS
<1>2. IsMinus(minus) /\ IsPlus(plus) /\ ~ IsMinus(plus)
  <2>1. "-" # "+"
    OBVIOUS
  <2> QED BY <1>1, <2>1, Zenon DEF IsMinus, IsPlus
<1>3. sign \in {<<>>, <<minus>>, <<plus>>}
  BY <1>1, Zenon DEF Signs
<1>4. sign = <<"-">> <=> sign = <<minus>>
  BY <1>1, Zenon
<1>5. CASE sign = <<>>
  <2>1. sign \in Seq({minus}) /\ Len(sign) = 0
    BY <1>5, EmptySeq
  <2>2. sign # <<minus>>
    BY <1>5
  <2> QED BY <1>4, <2>1, <2>2
<1>6. CASE sign = <<minus>>
  <2>1. sign \in Seq({minus}) /\ Len(sign) = 1 /\ sign[1] = minus
    BY <1>6
  <2> QED BY <1>2, <1>4, <1>6, <2>1
<1>7. CASE sign = <<plus>>
  <2>1. sign \in Seq({plus}) /\ Len(sign) = 1 /\ sign[1] = plus
    BY <1>7
  <2>2. sign # <<minus>>
    <3>1. sign[1] # minus
      BY <1>2, <2>1
    <3>2. PICK q : q = <<minus>>
      OBVIOUS
    <3>3. q[1] = minus
      BY <3>2
    <3>4. sign # q
      BY <3>1, <3>3
    <3> QED BY <3>2, <3>4
  <2> QED BY <1>2, <1>4, <2>1, <2>2
<1> QED BY <1>3, <1>5, <1>6, <1>7

\* The prefixes and bases.
LEMMA FormIs ==
    ASSUME NEW form \in Forms
    PROVE  /\ \E T : form.prefix \in Seq(T)
           /\ form.base \in Nat
           /\ \/ Len(form.prefix) = 0 /\ form.base = 10
              \/ /\ Len(form.prefix) = 2 /\ form.base = 16
                 /\ IsZero(form.prefix[1]) /\ IsEx(form.prefix[2])
              \/ /\ Len(form.prefix) = 2 /\ form.base = 8
                 /\ IsZero(form.prefix[1]) /\ IsOh(form.prefix[2])
<1>1. PICK zero, ex, oh : zero = "0" /\ ex = "x" /\ oh = "o"
  OBVIOUS
<1>2. IsZero(zero) /\ IsEx(ex) /\ IsOh(oh)
  BY <1>1, Zenon DEF IsZero, IsEx, IsOh
<1>3. form \in {[prefix |-> <<>>, base |-> 10], [prefix |-> <<zero, ex>>, base |-> 16],
                [prefix |-> <<zero, oh>>, base |-> 8]}
  BY <1>1, Zenon DEF Forms
<1>4. CASE form = [prefix |-> <<>>, base |-> 10]
  <2>1. PICK p : p = form.prefix
    OBVIOUS
  <2>2. p = <<>> /\ form.base = 10
    BY <1>4, <2>1
  <2>3. p \in Seq({zero}) /\ Len(p) = 0
    BY <2>2, EmptySeq
  <2> QED BY <2>1, <2>2, <2>3
<1>5. CASE form = [prefix |-> <<zero, ex>>, base |-> 16]
  <2>1. PICK p : p = form.prefix
    OBVIOUS
  <2>2. p = <<zero, ex>> /\ form.base = 16
    BY <1>5, <2>1
  <2>3. p \in Seq({zero, ex}) /\ Len(p) = 2 /\ p[1] = zero /\ p[2] = ex
    BY <2>2
  <2>4. (\E T : p \in Seq(T)) /\ IsZero(p[1]) /\ IsEx(p[2])
    BY <1>2, <2>3, Zenon
  <2>5. 16 \in Nat
    OBVIOUS
  <2> QED BY <2>1, <2>2, <2>3, <2>4, <2>5, Zenon
<1>6. CASE form = [prefix |-> <<zero, oh>>, base |-> 8]
  <2>1. PICK p : p = form.prefix
    OBVIOUS
  <2>2. p = <<zero, oh>> /\ form.base = 8
    BY <1>6, <2>1
  <2>3. p \in Seq({zero, oh}) /\ Len(p) = 2 /\ p[1] = zero /\ p[2] = oh
    BY <2>2
  <2>4. (\E T : p \in Seq(T)) /\ IsZero(p[1]) /\ IsOh(p[2])
    BY <1>2, <2>3, Zenon
  <2>5. 8 \in Nat
    OBVIOUS
  <2> QED BY <2>1, <2>2, <2>3, <2>4, <2>5, Zenon
<1> QED BY <1>3, <1>4, <1>5, <1>6

\* A sequence over a set is one over a greater set.
LEMMA Widened ==
    ASSUME NEW T, NEW q \in Seq(T), NEW Q, T \subseteq Q
    PROVE  q \in Seq(Q)
<1>1. PICK n \in Nat : n = Len(q) /\ q \in [1 .. n -> T]
  BY LenProperties
<1>2. q \in [1 .. n -> Q]
  BY <1>1
<1> QED BY <1>2, SeqDef

\* PlainInt, character by character
SpelledOut(w, sign, prefix, base, k, m) ==
    /\ k + m < Len(w)
    /\ \A i \in 1 .. k : w[i] = sign[i]
    /\ \A i \in 1 .. m : w[k + i] = prefix[i]
    /\ \A i \in (k + m) + 1 .. Len(w) : is_digit(w[i], base)

\* What PlainInt says of each character.
LEMMA PlainIs ==
    ASSUME NEW S, NEW w \in Seq(S), NEW sign \in Signs, NEW form \in Forms
    PROVE  /\ PlainInt(w, sign, form) <=>
                SpelledOut(w, sign, form.prefix, form.base, Len(sign), Len(form.prefix))
           /\ digits_of(w, sign, form) = slice(w, Len(sign) + Len(form.prefix), Len(w))
<1>0. PICK k, m : k = Len(sign) /\ m = Len(form.prefix)
  OBVIOUS
<1>1. PICK T : sign \in Seq(T)
  BY SignIs
<1>2. PICK R : form.prefix \in Seq(R)
  BY FormIs
<1>3. k \in Nat /\ m \in Nat
  BY <1>0, <1>1, <1>2, LenProperties
<1>4. PICK Q : Q = T \cup R
  OBVIOUS
<1>5. sign \in Seq(Q) /\ form.prefix \in Seq(Q)
  <2>1. T \subseteq Q /\ R \subseteq Q
    BY <1>4
  <2> QED BY <1>1, <1>2, <2>1, Widened
<1>6. PICK p : p = sign \o form.prefix
  OBVIOUS
<1>7. /\ p \in Seq(Q) /\ Len(p) = k + m
      /\ \A i \in 1 .. k + m : p[i] = IF i <= k THEN sign[i] ELSE form.prefix[i - k]
  <2>1. /\ p \in Seq(Q) /\ Len(p) = Len(sign) + Len(form.prefix)
        /\ \A i \in 1 .. Len(sign) + Len(form.prefix) :
             p[i] = IF i <= Len(sign) THEN sign[i] ELSE form.prefix[i - Len(sign)]
    BY <1>5, <1>6, ConcatProperties
  <2> QED BY <1>0, <2>1
<1>8. string_starts_with(w, p) <=>
        k + m <= Len(w) /\ \A i \in 1 .. k + m : w[i] = p[i]
  BY <1>7, Starts
<1>9. (\A i \in 1 .. k + m : w[i] = p[i]) <=>
        /\ \A i \in 1 .. k : w[i] = sign[i]
        /\ \A i \in 1 .. m : w[k + i] = form.prefix[i]
  <2>1. ASSUME \A i \in 1 .. k + m : w[i] = p[i]
        PROVE  /\ \A i \in 1 .. k : w[i] = sign[i]
               /\ \A i \in 1 .. m : w[k + i] = form.prefix[i]
    <3>1. ASSUME NEW i \in 1 .. k PROVE w[i] = sign[i]
      <4>1. i \in 1 .. k + m /\ i <= k
        BY <1>3
      <4> QED BY <1>7, <2>1, <4>1
    <3>2. ASSUME NEW i \in 1 .. m PROVE w[k + i] = form.prefix[i]
      <4>1. k + i \in 1 .. k + m /\ ~ (k + i <= k) /\ (k + i) - k = i
        BY <1>3
      <4> QED BY <1>7, <2>1, <4>1
    <3> QED BY <3>1, <3>2
  <2>2. ASSUME /\ \A i \in 1 .. k : w[i] = sign[i]
               /\ \A i \in 1 .. m : w[k + i] = form.prefix[i],
               NEW i \in 1 .. k + m
        PROVE  w[i] = p[i]
    <3>1. CASE i <= k
      <4>1. i \in 1 .. k
        BY <1>3, <3>1
      <4> QED BY <1>7, <2>2, <3>1, <4>1
    <3>2. CASE ~ (i <= k)
      <4>1. i - k \in 1 .. m /\ k + (i - k) = i
        BY <1>3, <3>2
      <4>2. w[i] = form.prefix[i - k]
        BY <2>2, <4>1
      <4> QED BY <1>7, <3>2, <4>2
    <3> QED BY <3>1, <3>2
  <2> QED BY <2>1, <2>2
<1>10. PICK d : d = digits_of(w, sign, form)
  OBVIOUS
<1>11. d = slice(w, k + m, Len(w))
  BY <1>0, <1>10, Zenon DEF digits_of, string_slice_from, slice
<1>12. k + m <= Len(w) =>
         /\ d # <<>> <=> k + m < Len(w)
         /\ AllDigits(d, form.base) <=>
              (\A i \in (k + m) + 1 .. Len(w) : is_digit(w[i], form.base))
  <2>1. PICK n \in Nat : n = k + m
    BY <1>3
  <2>2. SUFFICES ASSUME n <= Len(w)
                 PROVE  /\ d # <<>> <=> n < Len(w)
                        /\ AllDigits(d, form.base) <=>
                             (\A i \in n + 1 .. Len(w) : is_digit(w[i], form.base))
    BY <2>1
  <2>3. d = slice(w, n, Len(w))
    BY <1>11, <2>1
  <2> QED BY <2>2, <2>3, DigitsBehind
<1>13. PlainInt(w, sign, form) <=>
         string_starts_with(w, p) /\ d # <<>> /\ AllDigits(d, form.base)
  BY <1>6, <1>10, Zenon DEF PlainInt
<1>14. Len(w) \in Nat
  BY LenProperties
<1>15. k + m < Len(w) => k + m <= Len(w)
  BY <1>3, <1>14
<1>16. PlainInt(w, sign, form) <=> SpelledOut(w, sign, form.prefix, form.base, k, m)
  BY <1>8, <1>9, <1>12, <1>13, <1>15, Zenon DEF SpelledOut
<1> QED BY <1>0, <1>10, <1>11, <1>16, Zenon

\* What PlainInt takes for an integer is laid out as one, and the other way round.
LEMMA PlainLaid ==
    ASSUME NEW S, NEW w \in Seq(S), NEW sign \in Signs, NEW form \in Forms,
           PlainInt(w, sign, form)
    PROVE  /\ Laid(w, Len(sign), Len(form.prefix), form.base)
           /\ form.base \in Nat
           /\ digits_of(w, sign, form) = slice(w, Len(sign) + Len(form.prefix), Len(w))
           /\ sign = <<"-">> <=> Len(sign) = 1 /\ IsMinus(w[1])
<1>1. PICK k, m : k = Len(sign) /\ m = Len(form.prefix)
  OBVIOUS
<1>2. /\ k + m < Len(w)
      /\ \A i \in 1 .. k : w[i] = sign[i]
      /\ \A i \in 1 .. m : w[k + i] = form.prefix[i]
      /\ \A i \in (k + m) + 1 .. Len(w) : is_digit(w[i], form.base)
      /\ digits_of(w, sign, form) = slice(w, k + m, Len(w))
  <2>1. /\ SpelledOut(w, sign, form.prefix, form.base, Len(sign), Len(form.prefix))
        /\ digits_of(w, sign, form) = slice(w, Len(sign) + Len(form.prefix), Len(w))
    BY PlainIs
  <2> QED BY <1>1, <2>1, Zenon DEF SpelledOut
<1>3. /\ k = 0 \/ (k = 1 /\ (IsMinus(sign[1]) \/ IsPlus(sign[1])))
      /\ sign = <<"-">> <=> k = 1 /\ IsMinus(sign[1])
  BY <1>1, SignIs
<1>4. k = 1 => w[1] = sign[1]
  <2>1. k = 1 => 1 \in 1 .. k
    OBVIOUS
  <2> QED BY <1>2, <2>1
<1>5. /\ form.base \in Nat
      /\ \/ m = 0 /\ form.base = 10
         \/ m = 2 /\ form.base = 16 /\ IsZero(form.prefix[1]) /\ IsEx(form.prefix[2])
         \/ m = 2 /\ form.base = 8 /\ IsZero(form.prefix[1]) /\ IsOh(form.prefix[2])
  BY <1>1, FormIs
<1>6. m = 2 => w[k + 1] = form.prefix[1] /\ w[k + 2] = form.prefix[2]
  <2>1. m = 2 => 1 \in 1 .. m /\ 2 \in 1 .. m
    OBVIOUS
  <2> QED BY <1>2, <2>1
<1>7. Prefixed(w, k, m, form.base)
  BY <1>5, <1>6 DEF Prefixed
<1>8. Laid(w, k, m, form.base)
  BY <1>2, <1>3, <1>4, <1>5, <1>7 DEF Laid
<1> QED BY <1>1, <1>2, <1>3, <1>4, <1>5, <1>8

LEMMA LaidPlain ==
    ASSUME NEW S, NEW w \in Seq(S), NEW k, NEW m, NEW base, Laid(w, k, m, base)
    PROVE  \E sign \in Signs, form \in Forms : PlainInt(w, sign, form)
<1>1. /\ k \in {0, 1} /\ m \in {0, 2} /\ k + m < Len(w)
      /\ k = 1 => IsMinus(w[1]) \/ IsPlus(w[1])
      /\ Prefixed(w, k, m, base)
      /\ \A i \in (k + m) + 1 .. Len(w) : is_digit(w[i], base)
  BY DEF Laid
<1>2. PICK sign \in Signs : Len(sign) = k /\ (k = 1 => sign[1] = w[1])
  <2>1. PICK minus, plus : minus = "-" /\ plus = "+"
    OBVIOUS
  <2>2. <<>> \in Signs /\ <<minus>> \in Signs /\ <<plus>> \in Signs
    BY <2>1, Zenon DEF Signs
  <2>3. CASE k = 0
    <3>1. PICK q \in Signs : q = <<>>
      BY <2>2
    <3>2. Len(q) = 0
      BY <3>1, EmptySeq
    <3> QED BY <2>3, <3>2
  <2>4. CASE k = 1 /\ IsMinus(w[1])
    <3>1. PICK q \in Signs : q = <<minus>>
      BY <2>2
    <3>2. Len(q) = 1 /\ q[1] = minus
      BY <3>1
    <3>3. minus = w[1]
      BY <2>1, <2>4, Zenon DEF IsMinus
    <3> QED BY <2>4, <3>2, <3>3
  <2>5. CASE k = 1 /\ IsPlus(w[1])
    <3>1. PICK q \in Signs : q = <<plus>>
      BY <2>2
    <3>2. Len(q) = 1 /\ q[1] = plus
      BY <3>1
    <3>3. plus = w[1]
      BY <2>1, <2>5, Zenon DEF IsPlus
    <3> QED BY <2>5, <3>2, <3>3
  <2> QED BY <1>1, <2>3, <2>4, <2>5
<1>3. PICK form \in Forms :
        /\ Len(form.prefix) = m /\ form.base = base
        /\ m = 2 => form.prefix[1] = w[k + 1] /\ form.prefix[2] = w[k + 2]
  <2>1. PICK zero, ex, oh : zero = "0" /\ ex = "x" /\ oh = "o"
    OBVIOUS
  <2>2. /\ [prefix |-> <<>>, base |-> 10] \in Forms
        /\ [prefix |-> <<zero, ex>>, base |-> 16] \in Forms
        /\ [prefix |-> <<zero, oh>>, base |-> 8] \in Forms
    BY <2>1, Zenon DEF Forms
  <2>3. CASE m = 0 /\ base = 10
    <3>1. PICK q : q = <<>>
      OBVIOUS
    <3>2. Len(q) = 0 /\ [prefix |-> q, base |-> 10] \in Forms
      BY <2>2, <3>1, EmptySeq, Zenon
    <3>3. PICK form \in Forms : form = [prefix |-> q, base |-> 10]
      BY <3>2
    <3>4. form.prefix = q /\ form.base = 10
      BY <3>3
    <3> QED BY <2>3, <3>2, <3>4
  <2>4. CASE m = 2 /\ IsZero(w[k + 1]) /\ IsEx(w[k + 2]) /\ base = 16
    <3>1. PICK q : q = <<zero, ex>>
      OBVIOUS
    <3>2. Len(q) = 2 /\ q[1] = zero /\ q[2] = ex
      BY <3>1
    <3>3. PICK form \in Forms : form = [prefix |-> q, base |-> 16]
      BY <2>2, <3>1, Zenon
    <3>4. form.prefix = q /\ form.base = 16
      BY <3>3
    <3>5. zero = w[k + 1] /\ ex = w[k + 2]
      BY <2>1, <2>4, Zenon DEF IsZero, IsEx
    <3> QED BY <2>4, <3>2, <3>4, <3>5
  <2>5. CASE m = 2 /\ IsZero(w[k + 1]) /\ IsOh(w[k + 2]) /\ base = 8
    <3>1. PICK q : q = <<zero, oh>>
      OBVIOUS
    <3>2. Len(q) = 2 /\ q[1] = zero /\ q[2] = oh
      BY <3>1
    <3>3. PICK form \in Forms : form = [prefix |-> q, base |-> 8]
      BY <2>2, <3>1, Zenon
    <3>4. form.prefix = q /\ form.base = 8
      BY <3>3
    <3>5. zero = w[k + 1] /\ oh = w[k + 2]
      BY <2>1, <2>5, Zenon DEF IsZero, IsOh
    <3> QED BY <2>5, <3>2, <3>4, <3>5
  <2> QED BY <1>1, <2>3, <2>4, <2>5 DEF Prefixed
<1>4. PlainInt(w, sign, form)
  <2>1. \A i \in 1 .. k : w[i] = sign[i]
    BY <1>1, <1>2
  <2>2. \A i \in 1 .. m : w[k + i] = form.prefix[i]
    BY <1>1, <1>3
  <2>3. \A i \in (k + m) + 1 .. Len(w) : is_digit(w[i], form.base)
    BY <1>1, <1>3
  <2>4. SpelledOut(w, sign, form.prefix, form.base, k, m)
    BY <1>1, <2>1, <2>2, <2>3, Zenon DEF SpelledOut
  <2>5. SpelledOut(w, sign, form.prefix, form.base, Len(sign), Len(form.prefix))
    BY <1>2, <1>3, <2>4, Zenon
  <2> QED BY <2>5, PlainIs
<1> QED BY <1>4

\* With its sign, within the ends of the range.
LEMMA WithinIs ==
    ASSUME NEW D \in Nat, NEW v, v = IF D > IntMax THEN IntMax ELSE D
    PROVE  Within(D) = v /\ Within(-D) = -v
BY XintAssumption DEF Within

\* The invariant says which tokens are integers, and which.
LEMMA FitsRead == TokensFit => IntsAreRead
<1> SUFFICES ASSUME TokensFit, lexer.phase = "done", NEW i \in DOMAIN lexer.token_list
             PROVE  LET token == lexer.token_list[i]
                    IN token.kind \in {"INT", "GENERIC"} =>
                         /\ \A sign \in Signs, form \in Forms :
                              PlainInt(token.string, sign, form) =>
                                LET n == Denoted(digits_of(token.string, sign, form), form.base)
                                IN /\ token.kind = "INT"
                                   /\ token.int_value = Within(IF sign = <<"-">> THEN -n ELSE n)
                         /\ token.kind = "INT" =>
                              \/ \E sign \in Signs, form \in Forms :
                                   PlainInt(token.string, sign, form)
                              \/ \E k \in DOMAIN token.string :
                                   k > 2 /\ token.string[k] \in {"-", "+", "x", "X"}
  BY Zenon DEF IntsAreRead
<1>1. PICK s, e, lineno, column, tokens, phase :
        Lexes(lexer, s, e, lineno, column, tokens, phase)
  BY DEF TokensFit, LexerFits
<1>2. lexer.token_list = tokens /\ lexer.phase = phase
  BY <1>1 DEF Lexes, Stands
<1>3. IsDone(phase)
  BY <1>2, Zenon DEF IsDone
<1>4. i \in 1 .. Len(tokens)
  BY <1>1, <1>2, LenProperties DEF Lexes, Tiled
<1>5. PICK t, w : t = tokens[i] /\ w = t.string
  OBVIOUS
<1>6. w \in Seq(Characters)
  <2>1. TokenFits(s, t, Behind(tokens, i))
    BY <1>1, <1>4, <1>5 DEF Lexes, Tiled
  <2> QED BY <1>5, <2>1 DEF TokenFits
<1>7. /\ IsGeneric(t.kind) => ~ string_is_xint(w)
      /\ IsInt(t.kind) => string_is_xint(w) /\ t.int_value = string_parse_xint(w)
  BY <1>1, <1>3, <1>4, <1>5 DEF Lexes, Judged, Judges
<1>8. ASSUME IsInt(t.kind) \/ IsGeneric(t.kind), NEW sign \in Signs, NEW form \in Forms,
             PlainInt(w, sign, form)
      PROVE  LET n == Denoted(digits_of(w, sign, form), form.base)
             IN IsInt(t.kind) /\ t.int_value = Within(IF sign = <<"-">> THEN -n ELSE n)
  <2>1. PICK k, m, base \in Nat :
          k = Len(sign) /\ m = Len(form.prefix) /\ base = form.base
    BY FormIs
  <2>2. PICK d : d = digits_of(w, sign, form)
    OBVIOUS
  <2>3. /\ Laid(w, k, m, base) /\ d = slice(w, k + m, Len(w))
        /\ sign = <<"-">> <=> k = 1 /\ IsMinus(w[1])
    <3>1. /\ Laid(w, Len(sign), Len(form.prefix), form.base)
          /\ digits_of(w, sign, form) = slice(w, Len(sign) + Len(form.prefix), Len(w))
          /\ sign = <<"-">> <=> Len(sign) = 1 /\ IsMinus(w[1])
      BY <1>6, <1>8, PlainLaid
    <3> QED BY <2>1, <2>2, <3>1, Zenon
  <2>4. PICK D, v : D \in Nat /\ D = Denoted(d, base) /\ v = IF D > IntMax THEN IntMax ELSE D
    <3>1. Denoted(d, base) \in Nat
      BY <1>6, <2>3, LaidReads
    <3> QED BY <3>1
  <2>5. /\ string_is_xint(w)
        /\ string_parse_xint(w) = IF k = 1 /\ IsMinus(w[1]) THEN -v ELSE v
    <3>1. /\ string_is_xint(w)
          /\ string_parse_xint(w) =
               IF k = 1 /\ IsMinus(w[1])
               THEN - (IF Denoted(d, base) > IntMax THEN IntMax ELSE Denoted(d, base))
               ELSE IF Denoted(d, base) > IntMax THEN IntMax ELSE Denoted(d, base)
      BY <1>6, <2>3, LaidReads
    <3> QED BY <2>4, <3>1, Zenon
  <2>6. IsInt(t.kind) /\ t.int_value = IF sign = <<"-">> THEN -v ELSE v
    BY <1>7, <1>8, <2>3, <2>5, Zenon
  <2>7. Within(D) = v /\ Within(-D) = -v
    BY <2>4, WithinIs
  <2>8. t.int_value = Within(IF sign = <<"-">> THEN -D ELSE D)
    BY <2>6, <2>7, Zenon
  <2> QED BY <2>1, <2>2, <2>4, <2>6, <2>8, Zenon
<1>9. ASSUME IsInt(t.kind)
      PROVE  \/ \E sign \in Signs, form \in Forms : PlainInt(w, sign, form)
             \/ \E k \in DOMAIN w : k > 2 /\ w[k] \in {"-", "+", "x", "X"}
  <2>1. \/ \E k, m, base : Laid(w, k, m, base)
        \/ \E j \in 3 .. Len(w) : IsMinus(w[j]) \/ IsPlus(w[j]) \/ IsAnyEx(w[j])
    BY <1>6, <1>7, <1>9, ReadsLaid
  <2>2. CASE \E k, m, base : Laid(w, k, m, base)
    BY <1>6, <2>2, LaidPlain
  <2>3. CASE \E j \in 3 .. Len(w) : IsMinus(w[j]) \/ IsPlus(w[j]) \/ IsAnyEx(w[j])
    <3>1. PICK j \in 3 .. Len(w) : IsMinus(w[j]) \/ IsPlus(w[j]) \/ IsAnyEx(w[j])
      BY <2>3
    <3>2. j \in DOMAIN w /\ j > 2
      <4>1. DOMAIN w = 1 .. Len(w)
        BY <1>6, LenProperties
      <4> QED BY <4>1
    <3>3. w[j] \in {"-", "+", "x", "X"}
      BY <3>1, Zenon DEF IsMinus, IsPlus, IsAnyEx
    <3> QED BY <3>2, <3>3
  <2> QED BY <2>1, <2>2, <2>3
<1> QED BY <1>2, <1>5, <1>8, <1>9, Zenon DEF IsInt, IsGeneric

\* For any sources and any width of an integer, every token that is spelled as an
\* integer is one and has its value, cut off at the ends of the range, and what
\* else is taken for one has a second sign or prefix.
THEOREM IntsRead == LexerSpec => []IntsAreRead
BY LexerInvariant, FitsRead, PTL
=============================================================================
