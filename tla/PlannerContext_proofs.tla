------------------------ MODULE PlannerContext_proofs ------------------------
(***************************************************************************)
(* Proofs about the context of the planner's prompt, for any conversation, *)
(* any passages and any limits.  The two loops and the sum of the sizes    *)
(* are functions defined by recursion; that such a function exists, and    *)
(* what holds of its values, rests on the least element of a set of        *)
(* numbers: the induction is over the numbers of which a fact is shown,    *)
(* and the invariant of each loop says what its first n steps have done.   *)
(***************************************************************************)
EXTENDS PlannerContext, NaturalRecursion, SequenceTheorems, TLAPS

----------------------------------------------------------------------------
(* The passages of the prompt, for any of them *)

Contexts == [included : Seq(Passages), used : Nat, truncated : BOOLEAN]

FirstContext == [included |-> <<>>, used |-> 0, truncated |-> FALSE]

\* The contexts of the loop, after each of the passages.
AreContexts(context, passages) ==
    context = [n \in 0..Len(passages) |->
                 IF n = 0 THEN FirstContext ELSE GroundChunk(context[n - 1], passages[n])]

\* The beginning of a passage is a passage, and all of it if it is as long.
LEMMA BeginningIsAPassage ==
  ASSUME NEW p \in Passages, NEW n \in 0..p.size
  PROVE  /\ Beginning(p, n) \in Passages
         /\ Beginning(p, n).size = n
         /\ Beginning(p, n) = p <=> n = p.size
<1> DEFINE b == Beginning(p, n)
<1>0. p \in [size : Nat, spaces : SUBSET (Nat \ {0, 1})] /\ p.spaces \subseteq 1..p.size /\ p.size \in Nat
  BY DEF Passages
<1>1. b = [size |-> n, spaces |-> p.spaces \cap 1..n]
  BY DEF Beginning
<1>2. b.size = n /\ b.spaces = p.spaces \cap 1..n
  BY <1>1
<1>3. b \in Passages
  BY <1>0, <1>1, <1>2 DEF Passages
<1>4. ASSUME n = p.size PROVE b = p
  <2>1. p.spaces \cap 1..n = p.spaces
    BY <1>0, <1>4
  <2>2. p = [size |-> p.size, spaces |-> p.spaces]
    BY <1>0
  <2> QED BY <1>1, <1>4, <2>1, <2>2
<1>5. b = p => n = p.size
  BY <1>2
<1> QED BY <1>2, <1>3, <1>4, <1>5

\* What is left of a passage without the white space at its end, and that there
\* is nothing more to take away.
LEMMA StripIsABeginning ==
  ASSUME NEW p \in Passages
  PROVE  /\ Strip(p) \in Passages
         /\ Strip(p).size \in 0..p.size
         /\ p.size > 0 => Strip(p).size > 0
         /\ Strip(Strip(p)) = Strip(p)
<1> DEFINE Ends(q, n) == n \notin q.spaces /\ n + 1..q.size \subseteq q.spaces
<1>0. p.size \in Nat /\ p.spaces \subseteq 1..p.size /\ p.spaces \subseteq Nat \ {0, 1}
  BY DEF Passages
<1>1. \E n \in 0..p.size : Ends(p, n)
  <2> DEFINE S == {n \in 0..p.size : n + 1..p.size \subseteq p.spaces}
  <2>1. p.size \in S /\ S \in SUBSET Nat
    BY <1>0
  <2>2. PICK m \in S : \A k \in S : m <= k
    <3> HIDE DEF S
    <3> QED BY <2>1, LeastNumber
  <2>3. m \notin p.spaces
    <3> SUFFICES ASSUME m \in p.spaces PROVE FALSE
      OBVIOUS
    <3>1. m - 1 \in 0..p.size /\ m \in 1..p.size
      BY <1>0, <2>2
    <3>2. \A i \in (m - 1) + 1..p.size : i = m \/ i \in m + 1..p.size
      BY <3>1
    <3>3. m - 1 \in S
      BY <2>2, <3>1, <3>2
    <3> QED BY <2>2, <3>1, <3>3
  <2> QED BY <2>2, <2>3
<1> DEFINE n == CHOOSE k \in 0..p.size : k \notin p.spaces /\ k + 1..p.size \subseteq p.spaces
<1>2. n \in 0..p.size /\ n \notin p.spaces /\ n + 1..p.size \subseteq p.spaces
  BY <1>1
<1>3. Strip(p) = Beginning(p, n)
  BY DEF Strip
<1> HIDE DEF n
<1> DEFINE s == Strip(p)
<1>4. s \in Passages /\ s.size = n /\ s.spaces = p.spaces \cap 1..n
  <2>1. s.spaces = p.spaces \cap 1..n
    BY <1>3 DEF Beginning
  <2> QED BY <1>2, <1>3, <2>1, BeginningIsAPassage
<1>5. p.size > 0 => n > 0
  <2> SUFFICES ASSUME p.size > 0, n = 0 PROVE FALSE
    BY <1>0, <1>2
  <2>1. 1 \in n + 1..p.size
    BY <1>0
  <2> QED BY <1>0, <1>2, <2>1
<1>6. Strip(s) = s
  <2> HIDE DEF s
  <2>1. Ends(s, n) /\ n \in 0..s.size
    BY <1>0, <1>2, <1>4
  <2> DEFINE m == CHOOSE k \in 0..s.size : k \notin s.spaces /\ k + 1..s.size \subseteq s.spaces
  <2>2. m \in 0..s.size /\ m \notin s.spaces /\ m + 1..s.size \subseteq s.spaces
    BY <2>1
  <2>3. Strip(s) = Beginning(s, m)
    BY DEF Strip
  <2> HIDE DEF m
  <2>4. m = n
    <3> SUFFICES ASSUME m # n PROVE FALSE
      OBVIOUS
    <3>1. n \in m + 1..s.size
      BY <1>0, <1>2, <1>4, <2>2
    <3> QED BY <1>4, <2>1, <2>2, <3>1
  <2> QED BY <1>4, <2>2, <2>3, <2>4, BeginningIsAPassage
<1> QED BY <1>0, <1>2, <1>4, <1>5, <1>6

\* What one step makes of a context and a passage.
LEMMA GroundChunkCases ==
  ASSUME NEW c \in Contexts, NEW p \in Passages, c.used <= max_total_chars
  PROVE  \/ /\ Len(c.included) >= max_chunks \/ Strip(p).size = 0 \/ c.used >= max_total_chars
            /\ GroundChunk(c, p) = [included |-> c.included, used |-> c.used, truncated |-> TRUE]
         \/ \E bounded \in 1..Strip(p).size :
              /\ Len(c.included) < max_chunks /\ c.used < max_total_chars
              /\ bounded <= max_chars_per_chunk /\ c.used + bounded <= max_total_chars
              /\ bounded = SmallestOf(Strip(p).size, SmallestOf(max_chars_per_chunk, max_total_chars - c.used))
              /\ GroundChunk(c, p) = [included |-> Append(c.included, Beginning(Strip(p), bounded)),
                                      used |-> c.used + bounded,
                                      truncated |-> c.truncated \/ bounded < Strip(p).size]
<1> DEFINE size == Strip(p).size
<1>0. /\ c.included \in Seq(Passages) /\ c.used \in Nat /\ c.truncated \in BOOLEAN /\ Len(c.included) \in Nat
      /\ max_chunks \in Nat /\ max_chars_per_chunk \in Nat \ {0} /\ max_total_chars \in Nat
      /\ size \in Nat
  <2>1. p.size \in Nat
    BY DEF Passages
  <2> QED BY <2>1, StripIsABeginning, ContextAssumption DEF Contexts
<1>1. CASE Len(c.included) >= max_chunks \/ size = 0 \/ c.used >= max_total_chars
  <2>1. GroundChunk(c, p) = [c EXCEPT !.truncated = TRUE]
    BY <1>1 DEF GroundChunk
  <2> QED BY <1>1, <2>1 DEF Contexts
<1>2. CASE ~(Len(c.included) >= max_chunks \/ size = 0 \/ c.used >= max_total_chars)
  <2> DEFINE bounded == SmallestOf(size, SmallestOf(max_chars_per_chunk, max_total_chars - c.used))
  <2>2. GroundChunk(c, p) = [included |-> Append(c.included, Beginning(Strip(p), bounded)),
                             used |-> c.used + bounded, truncated |-> c.truncated \/ bounded < size]
    BY <1>2 DEF GroundChunk
  <2> HIDE DEF size
  <2>1. bounded \in 1..size /\ bounded <= max_chars_per_chunk /\ c.used + bounded <= max_total_chars
    BY <1>0, <1>2 DEF SmallestOf
  <2> HIDE DEF bounded
  <2>3. Len(c.included) < max_chunks /\ c.used < max_total_chars
    BY <1>0, <1>2
  <2> QED BY <2>1, <2>2, <2>3 DEF bounded, size
<1> QED BY <1>1, <1>2

\* Every context is of the loop's type, whatever its budget.
LEMMA GroundChunkType == ASSUME NEW c \in Contexts, NEW p \in Passages PROVE GroundChunk(c, p) \in Contexts
<1> DEFINE s == Strip(p)
<1>0. /\ c.included \in Seq(Passages) /\ c.used \in Nat /\ c.truncated \in BOOLEAN
      /\ max_chars_per_chunk \in Nat \ {0} /\ max_total_chars \in Nat
      /\ s \in Passages /\ s.size \in Nat
  <2>1. s \in Passages
    BY StripIsABeginning
  <2>2. s.size \in Nat
    BY <2>1 DEF Passages
  <2> QED BY <2>1, <2>2, ContextAssumption DEF Contexts
<1>1. CASE Len(c.included) >= max_chunks \/ s.size = 0 \/ c.used >= max_total_chars
  <2>1. GroundChunk(c, p) = [c EXCEPT !.truncated = TRUE]
    BY <1>1 DEF GroundChunk
  <2> QED BY <1>0, <2>1 DEF Contexts
<1>2. CASE ~(Len(c.included) >= max_chunks \/ s.size = 0 \/ c.used >= max_total_chars)
  <2> DEFINE bounded == SmallestOf(s.size, SmallestOf(max_chars_per_chunk, max_total_chars - c.used))
  <2>2. GroundChunk(c, p) = [included |-> Append(c.included, Beginning(s, bounded)), used |-> c.used + bounded,
                             truncated |-> c.truncated \/ bounded < s.size]
    BY <1>2 DEF GroundChunk
  <2> HIDE DEF s
  <2>1. bounded \in 0..s.size
    BY <1>0, <1>2 DEF SmallestOf
  <2> HIDE DEF bounded
  <2>3. /\ Append(c.included, Beginning(s, bounded)) \in Seq(Passages)
        /\ c.used + bounded \in Nat /\ (c.truncated \/ bounded < s.size) \in BOOLEAN
    <3>1. Beginning(s, bounded) \in Passages
      BY <1>0, <2>1, BeginningIsAPassage
    <3> QED BY <1>0, <2>1, <3>1
  <2> QED BY <2>2, <2>3 DEF Contexts
<1> QED BY <1>1, <1>2

\* Ground is the last of the contexts of its loop.
LEMMA GroundIsLast ==
  ASSUME NEW passages \in Seq(Passages)
  PROVE  \E context : AreContexts(context, passages) /\ Ground(passages) = context[Len(passages)]
<1> DEFINE N == Len(passages)
           step == [n \in 1..N |-> [c \in Contexts |-> GroundChunk(c, passages[n])]]
           P(f) == f = [n \in 0..N |-> IF n = 0 THEN FirstContext ELSE GroundChunk(f[n - 1], passages[n])]
<1>1. FirstContext \in Contexts /\ N \in Nat
  BY DEF FirstContext, Contexts
<1>2. step \in [1..N -> [Contexts -> Contexts]]
  <2>1. \A n \in 1..N, c \in Contexts : GroundChunk(c, passages[n]) \in Contexts
    BY GroundChunkType
  <2> QED BY <2>1
<1>3. PICK f \in [0..N -> Contexts] : Follows(f, FirstContext, step, N)
  <2> HIDE DEF step, N
  <2> QED BY <1>1, <1>2, Recursion
<1>4. \A n \in 1..N : step[n][f[n - 1]] = GroundChunk(f[n - 1], passages[n])
  BY <1>1
<1>5. P(f)
  <2> HIDE DEF step
  <2>1. [n \in 0..N |-> IF n = 0 THEN FirstContext ELSE step[n][f[n - 1]]]
          = [n \in 0..N |-> IF n = 0 THEN FirstContext ELSE GroundChunk(f[n - 1], passages[n])]
    BY <1>1, <1>4
  <2> QED BY <1>3, <2>1 DEF Follows
<1> DEFINE context == CHOOSE g : P(g)
<1>6. Ground(passages) = context[Len(passages)]
  BY DEF Ground, FirstContext
<1>7. P(context)
  <2> HIDE DEF P
  <2> QED BY <1>5
<1>8. AreContexts(context, passages)
  BY <1>7 DEF AreContexts
<1> HIDE DEF context
<1> QED BY <1>6, <1>8

\* There is one such loop only.
LEMMA OneGrounding ==
  ASSUME NEW passages \in Seq(Passages), NEW c, NEW d, AreContexts(c, passages), AreContexts(d, passages)
  PROVE  c[Len(passages)] = d[Len(passages)]
<1> DEFINE N == Len(passages)
           good == {n \in Nat : c[n] = d[n]}
<1>1. N \in Nat
  OBVIOUS
<1>2. 0 \in good
  BY <1>1 DEF AreContexts
<1>3. ASSUME NEW n \in 0..N - 1, n \in good PROVE n + 1 \in good
  <2>1. n + 1 \in 0..N /\ n + 1 # 0 /\ (n + 1) - 1 = n
    BY <1>1
  <2>2. /\ c[n + 1] = GroundChunk(c[n], passages[n + 1])
        /\ d[n + 1] = GroundChunk(d[n], passages[n + 1])
    BY <2>1 DEF AreContexts
  <2> QED BY <1>3, <2>2
<1>4. N \in good
  <2> HIDE DEF good, N
  <2>1. \A n \in 0..N - 1 : n \in good => n + 1 \in good
    BY <1>3
  <2>2. \A n \in 0..N : n \in good
    BY <1>1, <1>2, <2>1, Induction
  <2> QED BY <1>1, <2>2
<1> QED BY <1>4

\* Grounding the passages of a context again takes the white space at their
\* ends away and nothing else.
Regrounds(c) ==
    \E d : /\ AreContexts(d, c.included)
           /\ LET last == d[Len(c.included)] IN
              /\ last \in Contexts /\ last.included = Stripped(c.included)
              /\ last.used <= c.used /\ ~last.truncated

\* What the context is after n passages.
GroundInv(c, n, passages) ==
    /\ c \in Contexts
    /\ Len(c.included) <= n /\ Len(c.included) <= max_chunks /\ c.used <= max_total_chars
    /\ \A i \in 1..Len(c.included) : c.included[i].size <= max_chars_per_chunk
    /\ ~c.truncated <=> Len(c.included) = n /\ \A i \in 1..n : c.included[i] = Strip(passages[i])
    /\ Regrounds(c)

\* A passage that is included is included again.
LEMMA RegroundsOneMore ==
  ASSUME NEW c \in Contexts, Regrounds(c), NEW piece \in Passages, piece.size > 0,
         Len(c.included) < max_chunks, c.used < max_total_chars,
         piece.size <= max_chars_per_chunk, c.used + piece.size <= max_total_chars,
         NEW t \in BOOLEAN
  PROVE  Regrounds([included |-> Append(c.included, piece), used |-> c.used + piece.size, truncated |-> t])
<1> DEFINE L == Len(c.included)
           s == Append(c.included, piece)
           stripped == Strip(piece)
<1>0. /\ c.included \in Seq(Passages) /\ c.used \in Nat /\ L \in Nat /\ s \in Seq(Passages) /\ Len(s) = L + 1
      /\ max_chunks \in Nat /\ max_chars_per_chunk \in Nat /\ max_total_chars \in Nat
  BY ContextAssumption DEF Contexts
<1>a. stripped \in Passages /\ stripped.size \in Nat /\ piece.size \in Nat /\ 0 < stripped.size /\ stripped.size <= piece.size
  <2>1. piece.size \in Nat
    BY DEF Passages
  <2> QED BY <2>1, StripIsABeginning
<1>b. Beginning(stripped, stripped.size) = stripped
  <2>1. stripped.size \in 0..stripped.size
    BY <1>a
  <2> HIDE DEF stripped
  <2> QED BY <1>a, <2>1, BeginningIsAPassage
<1>1. PICK d : /\ AreContexts(d, c.included)
               /\ d[L] \in Contexts /\ d[L].included = Stripped(c.included)
               /\ d[L].used <= c.used /\ ~d[L].truncated
  BY DEF Regrounds
<1>c. /\ d[L].used \in Nat /\ d[L].included \in Seq(Passages) /\ Len(d[L].included) = L
  BY <1>0, <1>1 DEF Contexts, Stripped
<1> DEFINE next == GroundChunk(d[L], piece)
           e == [n \in 0..L + 1 |-> IF n = L + 1 THEN next ELSE d[n]]
<1>2. next \in Contexts /\ next.included = Stripped(s) /\ next.used <= c.used + piece.size /\ ~next.truncated
  <2>1. SmallestOf(stripped.size, SmallestOf(max_chars_per_chunk, max_total_chars - d[L].used)) = stripped.size
    <3> HIDE DEF stripped
    <3>1. stripped.size <= max_chars_per_chunk
      BY <1>0, <1>a
    <3> DEFINE u == d[L].used
               z == stripped.size
               v == c.used
               p == piece.size
    <3>2. u <= v
      BY <1>1
    <3>a. z <= p /\ v + p <= max_total_chars /\ z \in Nat /\ p \in Nat
      BY <1>a
    <3>b. u \in Nat /\ v \in Nat /\ max_chars_per_chunk \in Nat /\ max_total_chars \in Nat
      BY <1>0, <1>c
    <3>c. z <= max_chars_per_chunk
      BY <3>1
    <3> HIDE DEF u, z, v, p
    <3>3. z <= max_chars_per_chunk /\ u + z <= max_total_chars /\ z \in Nat /\ u \in Nat /\ max_chars_per_chunk \in Nat /\ max_total_chars \in Nat
      BY <3>2, <3>a, <3>b, <3>c
    <3>4. SmallestOf(z, SmallestOf(max_chars_per_chunk, max_total_chars - u)) = z
      BY <3>3 DEF SmallestOf
    <3> QED BY <3>4 DEF u, z
  <2>2. ~(Len(d[L].included) >= max_chunks \/ stripped.size = 0 \/ d[L].used >= max_total_chars)
    <3> HIDE DEF stripped
    <3> QED BY <1>0, <1>1, <1>a, <1>c
  <2>3. next = [included |-> Append(d[L].included, Beginning(stripped, stripped.size)),
                used |-> d[L].used + stripped.size, truncated |-> d[L].truncated \/ stripped.size < stripped.size]
    BY <2>1, <2>2 DEF GroundChunk
  <2>4. next \in Contexts
    BY <1>1, GroundChunkType
  <2>5. Append(Stripped(c.included), stripped) = Stripped(s)
    <3> DEFINE k == c.included
    <3>1. k \in Seq(Passages) /\ Len(k) = L /\ s = Append(k, piece) /\ Len(s) = L + 1
      BY <1>0
    <3>2. Stripped(k) = [i \in 1..L |-> Strip(k[i])] /\ Stripped(s) = [i \in 1..L + 1 |-> Strip(s[i])]
      BY <3>1 DEF Stripped
    <3>3. \A i \in 1..L + 1 : s[i] = IF i = L + 1 THEN piece ELSE k[i]
      <4> HIDE DEF k
      <4> QED BY <1>0, <3>1
    <3> HIDE DEF k, s, stripped, L
    <3>4. Stripped(k) \in Seq(Passages) /\ Len(Stripped(k)) = L
      BY <1>1, <1>c DEF k
    <3> DEFINE a == Append(Stripped(k), stripped)
               b == Stripped(s)
    <3>5. a \in Seq(Passages) /\ Len(a) = L + 1 /\ \A i \in 1..L + 1 : a[i] = IF i = L + 1 THEN stripped ELSE Stripped(k)[i]
      BY <3>4, <1>0, <1>a
    <3>6. \A i \in 1..L + 1 : (IF i = L + 1 THEN stripped ELSE Stripped(k)[i]) = Strip(s[i])
      BY <1>0, <3>2, <3>3 DEF stripped
    <3>8. \A i \in 1..L + 1 : a[i] = b[i]
      <4> HIDE DEF a
      <4> QED BY <3>2, <3>5, <3>6
    <3>9. b \in Seq(Passages) /\ Len(b) = L + 1
      <4>1. \A i \in 1..L + 1 : Strip(s[i]) \in Passages
        <5> HIDE DEF a
        <5> QED BY <3>5, <3>6, <3>8, ElementOfSeq
      <4> QED BY <1>0, <3>2, <4>1
    <3>7. a = b
      <4> HIDE DEF a, b
      <4> QED BY <3>5, <3>8, <3>9, SeqEqual
    <3> QED BY <3>7 DEF k
  <2> HIDE DEF next, s, stripped
  <2>6. next.included = Append(Stripped(c.included), stripped)
    BY <1>1, <1>b, <2>3
  <2>7. next.used = d[L].used + stripped.size
    BY <2>3
  <2>8. ~next.truncated
    <3>1. ~(stripped.size < stripped.size)
      BY <1>a
    <3>2. next.truncated = (d[L].truncated \/ stripped.size < stripped.size)
      BY <2>3
    <3> QED BY <1>1, <3>1, <3>2, Zenon
  <2>9. next.used <= c.used + piece.size
    BY <1>0, <1>1, <1>a, <1>c, <2>7
  <2> QED BY <2>4, <2>5, <2>6, <2>8, <2>9
<1> HIDE DEF next
<1>3. /\ DOMAIN e = 0..L + 1 /\ e[L + 1] = next
      /\ \A n \in 0..L : n \in 0..L + 1 /\ n # L + 1 /\ e[n] = d[n]
  BY <1>0
<1>4. \A n \in 1..L : s[n] = c.included[n]
  BY <1>0
<1>5. s[L + 1] = piece
  BY <1>0
<1>6. e = [n \in 0..L + 1 |-> e[n]]
  OBVIOUS
<1> HIDE DEF e, s
<1>7. ASSUME NEW n \in 0..L + 1
      PROVE  e[n] = IF n = 0 THEN FirstContext ELSE GroundChunk(e[n - 1], s[n])
  <2>1. CASE n = L + 1
    <3>1. n # 0 /\ n - 1 = L /\ L \in 0..L
      BY <1>0, <2>1
    <3> QED BY <1>3, <1>5, <2>1, <3>1 DEF next
  <2>2. CASE n = 0
    <3>1. 0 \in 0..L
      BY <1>0
    <3> QED BY <1>1, <1>3, <2>2, <3>1 DEF AreContexts
  <2>3. CASE n \in 1..L
    <3>1. n \in 0..L /\ n - 1 \in 0..L /\ n # 0
      BY <1>0, <2>3
    <3>2. d[n] = GroundChunk(d[n - 1], c.included[n])
      BY <1>1, <3>1 DEF AreContexts
    <3> QED BY <1>3, <1>4, <2>3, <3>1, <3>2
  <2>4. n = L + 1 \/ n = 0 \/ n \in 1..L
    BY <1>0
  <2> QED BY <2>1, <2>2, <2>3, <2>4
<1>8. AreContexts(e, s)
  <2>1. e = [n \in 0..Len(s) |-> e[n]]
    BY <1>0, <1>6
  <2> QED BY <1>0, <1>7, <2>1 DEF AreContexts
<1>9. /\ e[Len(s)] \in Contexts /\ e[Len(s)].included = Stripped(s)
      /\ e[Len(s)].used <= c.used + piece.size /\ ~e[Len(s)].truncated
  BY <1>0, <1>2, <1>3
<1> DEFINE new == [included |-> s, used |-> c.used + piece.size, truncated |-> t]
<1>10. new.included = s /\ new.used = c.used + piece.size
  OBVIOUS
<1> HIDE DEF new
<1>11. Regrounds(new)
  BY <1>8, <1>9, <1>10 DEF Regrounds
<1> QED BY <1>11 DEF new, s

\* Before the first passage.
LEMMA GroundInvFirst == ASSUME NEW passages \in Seq(Passages) PROVE GroundInv(FirstContext, 0, passages)
<1>1. /\ FirstContext \in Contexts /\ FirstContext.included = <<>> /\ FirstContext.used = 0
      /\ ~FirstContext.truncated
  BY DEF FirstContext, Contexts
<1> DEFINE d == [n \in 0..0 |-> FirstContext]
<1>2. d[0] = FirstContext /\ Len(<<>>) = 0 /\ Stripped(<<>>) = <<>>
  BY DEF Stripped
<1>3. AreContexts(d, <<>>)
  BY DEF AreContexts
<1>4. Regrounds(FirstContext)
  <2> HIDE DEF d
  <2> QED BY <1>1, <1>2, <1>3 DEF Regrounds
<1> QED BY <1>1, <1>2, <1>4, ContextAssumption DEF GroundInv

\* The next passage.
LEMMA GroundInvNext ==
  ASSUME NEW passages \in Seq(Passages), NEW n \in 0..Len(passages) - 1, NEW c, GroundInv(c, n, passages)
  PROVE  GroundInv(GroundChunk(c, passages[n + 1]), n + 1, passages)
<1> DEFINE p == passages[n + 1]
           s == Strip(p)
           new == GroundChunk(c, p)
<1>a. c \in Contexts
  BY DEF GroundInv
<1>b. /\ c.included \in Seq(Passages) /\ c.used \in Nat /\ Len(c.included) \in Nat
      /\ c.truncated \in BOOLEAN
  BY <1>a DEF Contexts
<1>c. n \in Nat /\ p \in Passages /\ n + 1 \in 1..Len(passages)
  OBVIOUS
<1>d. s \in Passages /\ s.size \in Nat
  <2>1. s \in Passages
    BY <1>c, StripIsABeginning
  <2> QED BY <2>1 DEF Passages
<1>e. max_chunks \in Nat /\ max_chars_per_chunk \in Nat /\ max_total_chars \in Nat
  BY ContextAssumption
<1>0. n \in Nat /\ n + 1 \in 1..Len(passages)
  BY <1>c
<1>1. new \in Contexts
  BY <1>a, <1>c, GroundChunkType
<1>2. ASSUME new = [included |-> c.included, used |-> c.used, truncated |-> TRUE]
      PROVE  GroundInv(new, n + 1, passages)
  <2>1. new.included = c.included /\ new.used = c.used /\ new.truncated
    BY <1>2
  <2> HIDE DEF new
  <2>2. Regrounds(new)
    BY <2>1 DEF GroundInv, Regrounds
  <2>3. /\ Len(c.included) <= n /\ Len(c.included) <= max_chunks /\ c.used <= max_total_chars
        /\ \A i \in 1..Len(c.included) : c.included[i].size <= max_chars_per_chunk
    BY DEF GroundInv
  <2>4. Len(new.included) # n + 1
    BY <1>0, <1>b, <2>1, <2>3
  <2>5. Len(new.included) <= n + 1
    BY <1>0, <1>b, <2>1, <2>3
  <2> QED BY <1>1, <2>1, <2>2, <2>3, <2>4, <2>5 DEF GroundInv
<1>3. ASSUME NEW bounded \in 1..s.size,
             Len(c.included) < max_chunks, c.used < max_total_chars,
             bounded <= max_chars_per_chunk, c.used + bounded <= max_total_chars,
             new = [included |-> Append(c.included, Beginning(s, bounded)), used |-> c.used + bounded,
                    truncated |-> c.truncated \/ bounded < s.size]
      PROVE  GroundInv(new, n + 1, passages)
  <2> DEFINE piece == Beginning(s, bounded)
  <2>1. /\ new.included = Append(c.included, piece) /\ new.used = c.used + bounded
        /\ new.truncated = (c.truncated \/ bounded < s.size)
    BY <1>3
  <2>2. bounded \in Nat \ {0} /\ bounded \in 0..s.size /\ (c.truncated \/ bounded < s.size) \in BOOLEAN
    BY <1>d, <1>b
  <2>p. piece \in Passages /\ piece.size = bounded /\ (piece = s <=> bounded = s.size)
    <3> HIDE DEF s
    <3> QED BY <1>d, <2>2, BeginningIsAPassage
  <2> HIDE DEF piece
  <2>3. Regrounds(new)
    <3>1. Regrounds(c)
      BY DEF GroundInv
    <3>2. piece.size > 0 /\ piece.size <= max_chars_per_chunk /\ c.used + piece.size <= max_total_chars
      BY <1>3, <2>2, <2>p
    <3>3. new = [included |-> Append(c.included, piece), used |-> c.used + piece.size,
                 truncated |-> c.truncated \/ bounded < s.size]
      BY <1>3, <2>p DEF piece
    <3> HIDE DEF new, p, s
    <3> QED BY <1>a, <1>3, <2>2, <2>p, <3>1, <3>2, <3>3, RegroundsOneMore
  <2> HIDE DEF new
  <2>4. /\ Len(new.included) = Len(c.included) + 1
        /\ \A i \in 1..Len(c.included) : new.included[i] = c.included[i]
        /\ new.included[Len(c.included) + 1] = piece
    BY <1>b, <2>1, <2>p
  <2>5. \A i \in 1..Len(new.included) : new.included[i].size <= max_chars_per_chunk
    <3> TAKE i \in 1..Len(new.included)
    <3>1. i \in 1..Len(c.included) \/ i = Len(c.included) + 1
      BY <1>b, <2>4
    <3> QED BY <1>3, <2>4, <2>p, <3>1 DEF GroundInv
  <2>6. ~new.truncated <=> Len(new.included) = n + 1 /\ \A i \in 1..n + 1 : new.included[i] = Strip(passages[i])
    <3>0. bounded < s.size <=> piece # s
      BY <1>d, <2>2, <2>p
    <3>1. ~new.truncated <=> ~c.truncated /\ piece = s
      BY <2>1, <3>0, Zenon
    <3>2. ~c.truncated <=> Len(c.included) = n /\ \A i \in 1..n : c.included[i] = Strip(passages[i])
      BY DEF GroundInv
    <3>3. \A i \in 1..n + 1 : i \in 1..n \/ i = n + 1
      BY <1>0
    <3>4. Len(new.included) = n + 1 <=> Len(c.included) = n
      BY <1>0, <1>b, <2>4
    <3>5. CASE Len(c.included) = n
      <4>1. (\A i \in 1..n + 1 : new.included[i] = Strip(passages[i]))
              <=> (\A i \in 1..n : c.included[i] = Strip(passages[i])) /\ piece = s
        <5>1. n + 1 \in 1..n + 1 /\ \A i \in 1..n : i \in 1..n + 1
          BY <1>0
        <5>2. (\A i \in 1..n + 1 : new.included[i] = Strip(passages[i]))
                <=> (\A i \in 1..n : new.included[i] = Strip(passages[i])) /\ new.included[n + 1] = Strip(passages[n + 1])
          BY <3>3, <5>1
        <5> QED BY <2>4, <3>5, <5>2
      <4> QED BY <3>1, <3>2, <3>4, <3>5, <4>1
    <3>6. CASE Len(c.included) # n
      BY <3>1, <3>2, <3>4, <3>6
    <3> QED BY <3>5, <3>6
  <2>7. Len(new.included) <= n + 1 /\ Len(new.included) <= max_chunks /\ new.used <= max_total_chars
    BY <1>0, <1>3, <1>b, <1>e, <2>1, <2>2, <2>4 DEF GroundInv
  <2> QED BY <1>1, <2>3, <2>5, <2>6, <2>7 DEF GroundInv
<1>4. c.used <= max_total_chars
  BY DEF GroundInv
<1> QED
  <2> HIDE DEF new
  <2>1. \/ new = [included |-> c.included, used |-> c.used, truncated |-> TRUE]
        \/ \E bounded \in 1..s.size :
             /\ Len(c.included) < max_chunks /\ c.used < max_total_chars
             /\ bounded <= max_chars_per_chunk /\ c.used + bounded <= max_total_chars
             /\ new = [included |-> Append(c.included, Beginning(s, bounded)), used |-> c.used + bounded,
                       truncated |-> c.truncated \/ bounded < s.size]
    <3> HIDE DEF p
    <3> QED BY <1>a, <1>c, <1>4, GroundChunkCases DEF new
  <2>2. GroundInv(new, n + 1, passages)
    BY <1>2, <1>3, <2>1
  <2> QED BY <2>2 DEF new

\* The grounding of any passages is an honest one.
LEMMA GroundingIsHonest == ASSUME NEW passages \in Seq(Passages) PROVE IsHonestGrounding(Ground(passages), passages)
<1> DEFINE N == Len(passages)
<1>0. N \in Nat
  OBVIOUS
<1>1. PICK c : AreContexts(c, passages) /\ Ground(passages) = c[N]
  BY GroundIsLast
<1> DEFINE good == {n \in Nat : GroundInv(c[n], n, passages)}
<1>2. 0 \in good
  <2>1. c[0] = FirstContext
    BY <1>0, <1>1 DEF AreContexts
  <2> QED BY <2>1, GroundInvFirst
<1>3. ASSUME NEW n \in 0..N - 1, n \in good PROVE n + 1 \in good
  <2>1. n + 1 \in 0..N /\ n + 1 # 0 /\ (n + 1) - 1 = n
    BY <1>0
  <2>2. c[n + 1] = GroundChunk(c[n], passages[n + 1])
    BY <1>1, <2>1 DEF AreContexts
  <2>3. GroundInv(c[n], n, passages)
    BY <1>3
  <2> QED BY <1>0, <2>1, <2>2, <2>3, GroundInvNext
<1>4. N \in good
  <2> HIDE DEF good, N
  <2>1. \A n \in 0..N - 1 : n \in good => n + 1 \in good
    BY <1>3
  <2>2. \A n \in 0..N : n \in good
    BY <1>0, <1>2, <2>1, Induction
  <2> QED BY <1>0, <2>2
<1> DEFINE g == Ground(passages)
<1>5. GroundInv(g, N, passages)
  BY <1>1, <1>4
<1> HIDE DEF g, good
<1>6. g \in Contexts /\ g.included \in Seq(Passages) /\ g.truncated \in BOOLEAN
  BY <1>5 DEF GroundInv, Contexts
<1>7. g.truncated <=> g.included # Stripped(passages)
  <2>1. Stripped(passages) \in Seq(Passages) /\ Len(Stripped(passages)) = N
        /\ \A i \in 1..N : Stripped(passages)[i] = Strip(passages[i])
    <3>1. \A i \in 1..N : Strip(passages[i]) \in Passages
      BY StripIsABeginning
    <3> QED BY <3>1 DEF Stripped
  <2>2. g.included = Stripped(passages) <=> Len(g.included) = N /\ \A i \in 1..N : g.included[i] = Strip(passages[i])
    BY <1>0, <1>6, <2>1, SeqEqual
  <2> QED BY <1>5, <1>6, <2>2 DEF GroundInv
<1>8. Ground(g.included).included = Stripped(g.included) /\ ~Ground(g.included).truncated
  <2>1. PICK d : /\ AreContexts(d, g.included) /\ d[Len(g.included)].included = Stripped(g.included)
                 /\ ~d[Len(g.included)].truncated
    BY <1>5 DEF GroundInv, Regrounds
  <2>2. PICK e : AreContexts(e, g.included) /\ Ground(g.included) = e[Len(g.included)]
    BY <1>6, GroundIsLast
  <2> QED BY <1>6, <2>1, <2>2, OneGrounding
<1> QED BY <1>5, <1>7, <1>8 DEF GroundInv, IsHonestGrounding, g

----------------------------------------------------------------------------
(* The conversation of the prompt, for any of them *)

Spoken == {message \in Messages : message.size > 0}

\* The candidates among the first messages of a history.
AreAccepted(accepted, history) ==
    accepted = [n \in 0..Len(history) |->
                  IF n = 0 THEN <<>>
                  ELSE IF history[n].trusted /\ history[n].size > 0 THEN Append(accepted[n - 1], history[n])
                  ELSE accepted[n - 1]]

\* Candidates is the last of them.
LEMMA CandidatesAreLast ==
  ASSUME NEW history \in Seq(Messages)
  PROVE  \E accepted : AreAccepted(accepted, history) /\ Candidates(history) = accepted[Len(history)]
<1> DEFINE N == Len(history)
           S == Seq(Messages)
           next(a, n) == IF history[n].trusted /\ history[n].size > 0 THEN Append(a, history[n]) ELSE a
           step == [n \in 1..N |-> [a \in S |-> next(a, n)]]
           P(f) == f = [n \in 0..N |->
                          IF n = 0 THEN <<>>
                          ELSE IF history[n].trusted /\ history[n].size > 0 THEN Append(f[n - 1], history[n])
                          ELSE f[n - 1]]
<1>1. <<>> \in S /\ N \in Nat
  OBVIOUS
<1>2. step \in [1..N -> [S -> S]]
  <2>1. \A n \in 1..N, a \in S : next(a, n) \in S
    OBVIOUS
  <2> HIDE DEF next, S
  <2> QED BY <2>1
<1>3. PICK f \in [0..N -> S] : Follows(f, <<>>, step, N)
  <2> HIDE DEF step, N, S
  <2> QED BY <1>1, <1>2, Recursion
<1>4. \A n \in 1..N : step[n][f[n - 1]] = next(f[n - 1], n)
  <2> HIDE DEF next, S
  <2>1. \A n \in 1..N : n - 1 \in 0..N
    BY <1>1
  <2> QED BY <2>1
<1>5. P(f)
  <2>1. [n \in 0..N |-> IF n = 0 THEN <<>> ELSE step[n][f[n - 1]]]
          = [n \in 0..N |-> IF n = 0 THEN <<>> ELSE next(f[n - 1], n)]
    <3> HIDE DEF step, next
    <3> QED BY <1>1, <1>4
  <2> HIDE DEF step
  <2>2. f = [n \in 0..N |-> IF n = 0 THEN <<>> ELSE next(f[n - 1], n)]
    BY <1>3, <2>1 DEF Follows
  <2> QED BY <2>2
<1> DEFINE accepted == CHOOSE g : P(g)
<1>6. Candidates(history) = accepted[Len(history)]
  BY DEF Candidates
<1>7. P(accepted)
  <2> HIDE DEF P
  <2> QED BY <1>5
<1>8. AreAccepted(accepted, history)
  BY <1>7 DEF AreAccepted
<1> HIDE DEF accepted
<1> QED BY <1>6, <1>8

\* The candidates among n messages.
AcceptedInv(a, n, history) ==
    /\ a \in Seq(Spoken)
    /\ Len(a) <= n
    /\ Len(a) = n => \A i \in 1..n : a[i] = history[i]

\* The candidates have a content, and are all of the history when they are as many.
LEMMA CandidatesOfHistory ==
  ASSUME NEW history \in Seq(Messages)
  PROVE  /\ Candidates(history) \in Seq(Spoken)
         /\ Len(Candidates(history)) <= Len(history)
         /\ Len(Candidates(history)) = Len(history) => Candidates(history) = history
<1> DEFINE N == Len(history)
<1>0. N \in Nat
  OBVIOUS
<1>1. PICK a : AreAccepted(a, history) /\ Candidates(history) = a[N]
  BY CandidatesAreLast
<1> DEFINE good == {n \in Nat : AcceptedInv(a[n], n, history)}
<1>2. 0 \in good
  <2>1. a[0] = <<>>
    BY <1>0, <1>1 DEF AreAccepted
  <2>2. <<>> \in Seq(Spoken) /\ Len(<<>>) = 0
    OBVIOUS
  <2>3. AcceptedInv(<<>>, 0, history)
    <3> DEFINE e == <<>>
    <3>1. e \in Seq(Spoken) /\ Len(e) = 0
      BY <2>2
    <3> HIDE DEF e
    <3>2. AcceptedInv(e, 0, history)
      BY <3>1 DEF AcceptedInv
    <3> QED BY <3>2 DEF e
  <2> QED BY <2>1, <2>3
<1>3. ASSUME NEW n \in 0..N - 1, n \in good PROVE n + 1 \in good
  <2>1. n + 1 \in 0..N /\ n + 1 \in 1..N /\ n + 1 # 0 /\ (n + 1) - 1 = n /\ n \in Nat
    BY <1>0
  <2> DEFINE m == history[n + 1]
  <2>2. a[n + 1] = IF m.trusted /\ m.size > 0 THEN Append(a[n], m) ELSE a[n]
    <3>1. \A k \in 0..N : k # 0 => a[k] = IF history[k].trusted /\ history[k].size > 0
                                        THEN Append(a[k - 1], history[k]) ELSE a[k - 1]
      BY <1>1 DEF AreAccepted
    <3>2. a[n + 1] = IF history[n + 1].trusted /\ history[n + 1].size > 0
                       THEN Append(a[(n + 1) - 1], history[n + 1]) ELSE a[(n + 1) - 1]
      <4> HIDE DEF N, m
      <4> QED BY <2>1, <3>1, Zenon
    <3> QED BY <2>1, <3>2, Zenon
  <2>3. /\ a[n] \in Seq(Spoken) /\ Len(a[n]) \in Nat /\ Len(a[n]) <= n
        /\ Len(a[n]) = n => \A i \in 1..n : a[n][i] = history[i]
    BY <1>3 DEF AcceptedInv
  <2>4. CASE m.trusted /\ m.size > 0
    <3>1. m \in Spoken
      BY <2>1, <2>4 DEF Spoken
    <3>2. a[n + 1] = Append(a[n], m)
      BY <2>2, <2>4
    <3> HIDE DEF m
    <3>3. /\ a[n + 1] \in Seq(Spoken) /\ Len(a[n + 1]) = Len(a[n]) + 1
          /\ \A i \in 1..Len(a[n]) : a[n + 1][i] = a[n][i]
          /\ a[n + 1][Len(a[n]) + 1] = m
      BY <2>3, <3>1, <3>2
    <3>4. \A i \in 1..n + 1 : i \in 1..n \/ i = n + 1
      BY <2>1
    <3>5. AcceptedInv(a[n + 1], n + 1, history)
      BY <2>1, <2>3, <3>3, <3>4 DEF AcceptedInv, m
    <3> QED BY <2>1, <3>5
  <2>5. CASE ~(m.trusted /\ m.size > 0)
    <3>1. a[n + 1] = a[n]
      BY <2>2, <2>5
    <3>2. AcceptedInv(a[n + 1], n + 1, history)
      BY <2>1, <2>3, <3>1 DEF AcceptedInv
    <3> QED BY <2>1, <3>2
  <2> QED BY <2>4, <2>5
<1>4. N \in good
  <2> HIDE DEF good, N
  <2>1. \A n \in 0..N - 1 : n \in good => n + 1 \in good
    BY <1>3
  <2>2. \A n \in 0..N : n \in good
    BY <1>0, <1>2, <2>1, Induction
  <2> QED BY <1>0, <2>2
<1> DEFINE c == Candidates(history)
<1>5. /\ c \in Seq(Spoken) /\ Len(c) <= N
      /\ Len(c) = N => \A i \in 1..N : c[i] = history[i]
  BY <1>1, <1>4 DEF AcceptedInv
<1> HIDE DEF c
<1>6. c \in Seq(Messages)
  BY <1>5 DEF Spoken
<1>7. Len(c) = N => c = history
  BY <1>5, <1>6, SeqEqual
<1> QED BY <1>5, <1>7 DEF c

\* The sums of the sizes of the last messages.
AreTotals(total, messages) ==
    total = [n \in 0..Len(messages) |->
               IF n = 0 THEN 0 ELSE messages[Len(messages) - n + 1].size + total[n - 1]]

\* TotalSize is the last of them.
LEMMA TotalSizeIsLast ==
  ASSUME NEW messages \in Seq(Messages)
  PROVE  \E total : /\ AreTotals(total, messages)
                    /\ TotalSize(messages) = total[Len(messages)]
                    /\ TotalSize(messages) \in Nat
<1> DEFINE N == Len(messages)
           size(n) == messages[Len(messages) - n + 1].size
           step == [n \in 1..N |-> [t \in Nat |-> size(n) + t]]
           P(f) == f = [n \in 0..N |-> IF n = 0 THEN 0 ELSE messages[Len(messages) - n + 1].size + f[n - 1]]
<1>1. N \in Nat
  OBVIOUS
<1>2. \A n \in 1..N : size(n) \in Nat
  <2> TAKE n \in 1..N
  <2>1. Len(messages) - n + 1 \in 1..Len(messages)
    BY <1>1
  <2>2. messages[Len(messages) - n + 1] \in Messages
    BY <2>1
  <2> QED BY <2>2 DEF Messages
<1>3. step \in [1..N -> [Nat -> Nat]]
  <2> HIDE DEF size
  <2> QED BY <1>2
<1>4. PICK f \in [0..N -> Nat] : Follows(f, 0, step, N)
  <2> HIDE DEF step, N
  <2> QED BY <1>1, <1>3, Recursion
<1>5. \A n \in 1..N : step[n][f[n - 1]] = size(n) + f[n - 1]
  <2> HIDE DEF size
  <2>1. \A n \in 1..N : n - 1 \in 0..N
    BY <1>1
  <2> QED BY <2>1
<1>6. P(f)
  <2>1. [n \in 0..N |-> IF n = 0 THEN 0 ELSE step[n][f[n - 1]]]
          = [n \in 0..N |-> IF n = 0 THEN 0 ELSE size(n) + f[n - 1]]
    <3> HIDE DEF step, size
    <3> QED BY <1>1, <1>5
  <2> HIDE DEF step
  <2>2. f = [n \in 0..N |-> IF n = 0 THEN 0 ELSE size(n) + f[n - 1]]
    BY <1>4, <2>1 DEF Follows
  <2> QED BY <2>2
<1> DEFINE total == CHOOSE g : P(g)
<1>7. TotalSize(messages) = total[Len(messages)]
  BY DEF TotalSize
<1>8. P(total)
  <2> HIDE DEF P
  <2> QED BY <1>6
<1>9. AreTotals(total, messages)
  BY <1>8 DEF AreTotals
<1> HIDE DEF total
<1> DEFINE good == {n \in Nat : total[n] \in Nat}
<1>10. 0 \in good
  BY <1>1, <1>9 DEF AreTotals
<1>11. ASSUME NEW n \in 0..N - 1, n \in good PROVE n + 1 \in good
  <2>1. n + 1 \in 0..N /\ n + 1 \in 1..N /\ n + 1 # 0 /\ (n + 1) - 1 = n /\ n + 1 \in Nat
    BY <1>1
  <2>2. total[n + 1] = size(n + 1) + total[n]
    BY <1>9, <2>1 DEF AreTotals
  <2>3. size(n + 1) \in Nat
    BY <1>2, <2>1
  <2> HIDE DEF size
  <2> QED BY <1>11, <2>1, <2>2, <2>3
<1>12. N \in good
  <2> HIDE DEF good, N
  <2>1. \A n \in 0..N - 1 : n \in good => n + 1 \in good
    BY <1>11
  <2>2. \A n \in 0..N : n \in good
    BY <1>1, <1>10, <2>1, Induction
  <2> QED BY <1>1, <2>2
<1>13. TotalSize(messages) \in Nat
  BY <1>7, <1>12
<1> QED BY <1>7, <1>9, <1>13

\* One message more adds its size.
LEMMA TotalSizeMore ==
  ASSUME NEW messages \in Seq(Messages), NEW message \in Messages
  PROVE  TotalSize(<<message>> \o messages) = message.size + TotalSize(messages)
<1> DEFINE N == Len(messages)
           more == <<message>> \o messages
<1>0. /\ N \in Nat /\ more \in Seq(Messages) /\ Len(more) = N + 1 /\ more[1] = message
      /\ \A i \in 1..N : more[i + 1] = messages[i]
  OBVIOUS
<1>1. PICK t : AreTotals(t, messages) /\ TotalSize(messages) = t[N]
  BY TotalSizeIsLast
<1>2. PICK u : AreTotals(u, more) /\ TotalSize(more) = u[Len(more)]
  <2> HIDE DEF more
  <2> QED BY <1>0, TotalSizeIsLast
<1> HIDE DEF more
<1> DEFINE good == {n \in Nat : u[n] = t[n]}
<1>3. 0 \in good
  BY <1>0, <1>1, <1>2 DEF AreTotals
<1>4. ASSUME NEW n \in 0..N - 1, n \in good PROVE n + 1 \in good
  <2>1. /\ n + 1 \in 0..N /\ n + 1 \in 0..N + 1 /\ n + 1 # 0 /\ (n + 1) - 1 = n /\ n + 1 \in Nat
        /\ N - (n + 1) + 1 = N - n /\ (N + 1) - (n + 1) + 1 = (N - n) + 1 /\ N - n \in 1..N
    BY <1>0
  <2>2. t[n + 1] = messages[N - n].size + t[n]
    BY <1>1, <2>1 DEF AreTotals
  <2>3. u[n + 1] = more[(N - n) + 1].size + u[n]
    BY <1>0, <1>2, <2>1 DEF AreTotals
  <2>4. more[(N - n) + 1] = messages[N - n]
    BY <1>0, <2>1
  <2> QED BY <1>4, <2>1, <2>2, <2>3, <2>4
<1>5. N \in good
  <2> HIDE DEF good, N
  <2>1. \A n \in 0..N - 1 : n \in good => n + 1 \in good
    BY <1>4
  <2>2. \A n \in 0..N : n \in good
    BY <1>0, <1>3, <2>1, Induction
  <2> QED BY <1>0, <2>2
<1>6. u[N + 1] = message.size + u[N]
  <2>1. /\ N + 1 \in 0..N + 1 /\ N + 1 # 0 /\ (N + 1) - 1 = N /\ (N + 1) - (N + 1) + 1 = 1
    BY <1>0
  <2>2. \A n \in 0..N + 1 : n # 0 => u[n] = more[(N + 1) - n + 1].size + u[n - 1]
    <3> HIDE DEF N
    <3> QED BY <1>0, <1>2 DEF AreTotals
  <2>3. u[N + 1] = more[(N + 1) - (N + 1) + 1].size + u[(N + 1) - 1]
    <3> HIDE DEF N
    <3> QED BY <2>1, <2>2, Zenon
  <2> QED BY <1>0, <2>1, <2>3, Zenon
<1> QED BY <1>0, <1>1, <1>2, <1>5, <1>6 DEF more

Memories == [kept : Seq(Messages), room : Nat, truncated : BOOLEAN]

Shortened(message, size) == [message EXCEPT !.size = size]

\* A shortened message is a message.
LEMMA ShortenedIsAMessage ==
  ASSUME NEW message \in Messages, NEW size \in Nat
  PROVE  /\ Shortened(message, size) \in Messages
         /\ Shortened(message, size).size = size
         /\ size = message.size => Shortened(message, size) = message
BY DEF Shortened, Messages

\* What one step makes of the messages that are kept and a message.
LEMMA KeepCases ==
  ASSUME NEW m \in Memories, NEW message \in Spoken
  PROVE  \/ /\ Len(m.kept) >= max_messages \/ m.room = 0
            /\ Keep(message, m) = [kept |-> m.kept, room |-> m.room, truncated |-> TRUE]
         \/ \E size \in 1..message.size :
              /\ Len(m.kept) < max_messages /\ size <= m.room
              /\ size < message.size => m.room - size <= 1
              /\ Keep(message, m) = [kept |-> <<Shortened(message, size)>> \o m.kept, room |-> m.room - size,
                                     truncated |-> m.truncated \/ size < message.size]
<1>0. /\ m.kept \in Seq(Messages) /\ m.room \in Nat /\ m.truncated \in BOOLEAN /\ Len(m.kept) \in Nat
      /\ max_messages \in Nat
  BY ContextAssumption DEF Memories
<1>1. message.size \in Nat \ {0} /\ message.space \in Nat \ {1}
  BY DEF Spoken, Messages
<1>2. CASE Len(m.kept) >= max_messages \/ m.room = 0
  <2>1. Keep(message, m) = [m EXCEPT !.truncated = TRUE]
    BY <1>2 DEF Keep
  <2> QED BY <1>2, <2>1 DEF Memories
<1>3. CASE ~(Len(m.kept) >= max_messages \/ m.room = 0)
  <2> DEFINE size == Cut(message, m.room)
  <2>1. size \in 1..message.size /\ size <= m.room
    BY <1>0, <1>1, <1>3 DEF Cut
  <2>2. size < message.size => m.room - size <= 1
    BY <1>0, <1>1, <1>3 DEF Cut
  <2>3. Keep(message, m) = [kept |-> <<Shortened(message, size)>> \o m.kept, room |-> m.room - size,
                            truncated |-> m.truncated \/ size < message.size]
    BY <1>3 DEF Keep, Shortened
  <2> HIDE DEF size
  <2>4. Len(m.kept) < max_messages
    BY <1>0, <1>3
  <2> QED BY <2>1, <2>2, <2>3, <2>4
<1> QED BY <1>2, <1>3

\* The loop stays in its type.
LEMMA KeepType == ASSUME NEW m \in Memories, NEW message \in Spoken PROVE Keep(message, m) \in Memories
<1>0. m.kept \in Seq(Messages) /\ m.room \in Nat /\ m.truncated \in BOOLEAN
  BY DEF Memories
<1>1. message \in Messages /\ message.size \in Nat
  BY DEF Spoken, Messages
<1> DEFINE new == Keep(message, m)
<1> HIDE DEF new
<1>2. ASSUME new = [kept |-> m.kept, room |-> m.room, truncated |-> TRUE] PROVE new \in Memories
  BY <1>0, <1>2 DEF Memories
<1>3. ASSUME NEW size \in 1..message.size, size <= m.room,
             new = [kept |-> <<Shortened(message, size)>> \o m.kept, room |-> m.room - size,
                    truncated |-> m.truncated \/ size < message.size]
      PROVE  new \in Memories
  <2>0. size \in Nat /\ m.room - size \in Nat
    BY <1>0, <1>1, <1>3
  <2>1. Shortened(message, size) \in Messages
    BY <1>1, <2>0, ShortenedIsAMessage
  <2>2. <<Shortened(message, size)>> \o m.kept \in Seq(Messages)
    BY <1>0, <2>1
  <2>3. (m.truncated \/ size < message.size) \in BOOLEAN
    BY <1>0
  <2> QED BY <1>3, <2>0, <2>1, <2>2, <2>3 DEF Memories
<1>4. \/ new = [kept |-> m.kept, room |-> m.room, truncated |-> TRUE]
      \/ \E size \in 1..message.size :
           /\ size <= m.room
           /\ new = [kept |-> <<Shortened(message, size)>> \o m.kept, room |-> m.room - size,
                     truncated |-> m.truncated \/ size < message.size]
  BY KeepCases DEF new
<1>5. new \in Memories
  BY <1>2, <1>3, <1>4
<1> QED BY <1>5 DEF new

FirstMemory(history) ==
    [kept |-> <<>>, room |-> max_characters, truncated |-> Len(Candidates(history)) < Len(history)]

\* What the loop keeps after each of the candidates.
AreMemories(memory, history) ==
    LET candidates == Candidates(history) IN
    memory = [n \in 0..Len(candidates) |->
                IF n = 0 THEN FirstMemory(history)
                ELSE Keep(candidates[Len(candidates) - n + 1], memory[n - 1])]

\* BoundHistory is the last of it.
LEMMA BoundHistoryIsLast ==
  ASSUME NEW history \in Seq(Messages)
  PROVE  \E memory : AreMemories(memory, history) /\ BoundHistory(history) = memory[Len(Candidates(history))]
<1> DEFINE c == Candidates(history)
           N == Len(c)
           newest(n) == c[N - n + 1]
           step == [n \in 1..N |-> [m \in Memories |-> Keep(newest(n), m)]]
           P(f) == f = [n \in 0..N |-> IF n = 0 THEN FirstMemory(history)
                                       ELSE Keep(c[N - n + 1], f[n - 1])]
<1>0. c \in Seq(Spoken) /\ N \in Nat /\ Len(history) \in Nat
  BY CandidatesOfHistory
<1>1. FirstMemory(history) \in Memories
  <2>1. (Len(Candidates(history)) < Len(history)) \in BOOLEAN
    OBVIOUS
  <2> QED BY <2>1, ContextAssumption DEF FirstMemory, Memories
<1>2. \A n \in 1..N : newest(n) \in Spoken
  <2> HIDE DEF c
  <2> TAKE n \in 1..N
  <2>1. N - n + 1 \in 1..N
    BY <1>0
  <2> QED BY <1>0, <2>1
<1>3. step \in [1..N -> [Memories -> Memories]]
  <2>1. \A n \in 1..N, m \in Memories : Keep(newest(n), m) \in Memories
    <3> HIDE DEF newest, N
    <3> QED BY <1>2, KeepType
  <2> HIDE DEF newest, N
  <2> QED BY <2>1
<1>4. PICK f \in [0..N -> Memories] : Follows(f, FirstMemory(history), step, N)
  <2> HIDE DEF step, N
  <2> QED BY <1>0, <1>1, <1>3, Recursion
<1>5. \A n \in 1..N : step[n][f[n - 1]] = Keep(newest(n), f[n - 1])
  <2> HIDE DEF newest, N
  <2>1. \A n \in 1..N : n - 1 \in 0..N
    BY <1>0
  <2> QED BY <2>1
<1>6. P(f)
  <2>1. [n \in 0..N |-> IF n = 0 THEN FirstMemory(history) ELSE step[n][f[n - 1]]]
          = [n \in 0..N |-> IF n = 0 THEN FirstMemory(history) ELSE Keep(newest(n), f[n - 1])]
    <3> HIDE DEF step, newest, N
    <3> QED BY <1>0, <1>5
  <2> HIDE DEF step, N, c
  <2>2. f = [n \in 0..N |-> IF n = 0 THEN FirstMemory(history) ELSE Keep(newest(n), f[n - 1])]
    BY <1>4, <2>1 DEF Follows
  <2> QED BY <2>2
<1> DEFINE memory == CHOOSE g : P(g)
<1>7. BoundHistory(history) = memory[N]
  BY DEF BoundHistory, FirstMemory
<1>8. P(memory)
  <2> HIDE DEF P
  <2> QED BY <1>6
<1>9. AreMemories(memory, history)
  BY <1>8 DEF AreMemories
<1> HIDE DEF memory
<1> QED BY <1>7, <1>9

\* All of the n newest candidates are kept, unshortened.
Whole(m, n, c) == Len(m.kept) = n /\ \A i \in 1..n : m.kept[i] = c[Len(c) - n + i]

\* What is kept of the n newest candidates.
KeepInv(m, n, c, all) ==
    /\ m \in Memories
    /\ Len(m.kept) <= n /\ Len(m.kept) <= max_messages
    /\ Len(m.kept) = n \/ Len(m.kept) >= max_messages \/ m.room = 0
    /\ m.room + TotalSize(m.kept) = max_characters
    /\ \A i \in 1..Len(m.kept) :
         LET candidate == c[Len(c) - Len(m.kept) + i] IN
         m.kept[i].size \in 1..candidate.size /\ m.kept[i] = Shortened(candidate, m.kept[i].size)
    /\ Whole(m, n, c) \/ Len(m.kept) >= max_messages \/ m.room <= 1
    /\ ~m.truncated <=> all /\ Whole(m, n, c)

\* Before the newest candidate.
LEMMA KeepInvFirst ==
  ASSUME NEW history \in Seq(Messages)
  PROVE  KeepInv(FirstMemory(history), 0, Candidates(history), Len(Candidates(history)) = Len(history))
<1> DEFINE c == Candidates(history)
           m == FirstMemory(history)
<1>0. Len(c) \in Nat /\ Len(history) \in Nat /\ Len(c) <= Len(history) /\ max_characters \in Nat /\ max_messages \in Nat
  BY CandidatesOfHistory, ContextAssumption
<1>1. /\ m \in Memories /\ m.kept = <<>> /\ m.room = max_characters
      /\ m.truncated <=> Len(c) < Len(history)
  <2> DEFINE t == Len(Candidates(history)) < Len(history)
  <2>1. t \in BOOLEAN /\ max_characters \in Nat /\ <<>> \in Seq(Messages)
    BY ContextAssumption
  <2>2. m = [kept |-> <<>>, room |-> max_characters, truncated |-> t]
    BY DEF FirstMemory
  <2>3. t <=> Len(c) < Len(history)
    OBVIOUS
  <2> HIDE DEF t, m, c
  <2> QED BY <2>1, <2>2, <2>3 DEF Memories
<1>2. Len(m.kept) = 0 /\ \A i \in 1..Len(m.kept) : FALSE
  BY <1>1
<1>3. TotalSize(m.kept) = 0
  <2>1. <<>> \in Seq(Messages)
    OBVIOUS
  <2>2. PICK t : AreTotals(t, <<>>) /\ TotalSize(<<>>) = t[Len(<<>>)]
    BY <2>1, TotalSizeIsLast
  <2>3. t[0] = 0
    BY <2>2 DEF AreTotals
  <2>4. Len(<<>>) = 0
    OBVIOUS
  <2> QED BY <1>1, <2>2, <2>3, <2>4
<1>4. Whole(m, 0, c)
  <2> HIDE DEF m, c
  <2> QED BY <1>2 DEF Whole
<1>5. ~m.truncated <=> Len(c) = Len(history)
  BY <1>0, <1>1
<1> HIDE DEF m, c
<1>6. KeepInv(m, 0, c, Len(c) = Len(history))
  BY <1>0, <1>1, <1>2, <1>3, <1>4, <1>5 DEF KeepInv
<1> QED BY <1>6 DEF m, c

\* The next candidate.
LEMMA KeepInvNext ==
  ASSUME NEW c \in Seq(Spoken), NEW n \in 0..Len(c) - 1, NEW all \in BOOLEAN,
         NEW m, KeepInv(m, n, c, all)
  PROVE  KeepInv(Keep(c[Len(c) - (n + 1) + 1], m), n + 1, c, all)
<1> DEFINE N == Len(c)
           L == Len(m.kept)
           message == c[N - (n + 1) + 1]
           new == Keep(message, m)
<1>a. m \in Memories
  BY DEF KeepInv
<1>b. m.kept \in Seq(Messages) /\ m.room \in Nat /\ L \in Nat /\ m.truncated \in BOOLEAN
  BY <1>a DEF Memories
<1>c. n \in Nat /\ N \in Nat /\ n < N /\ N - (n + 1) + 1 = N - n /\ N - n \in 1..N
  OBVIOUS
<1>d. message = c[N - n] /\ message \in Spoken /\ message \in Messages /\ message.size \in Nat \ {0}
  BY <1>c DEF Spoken, Messages
<1>e. max_messages \in Nat /\ max_characters \in Nat
  BY ContextAssumption
<1>f. /\ L <= n /\ L <= max_messages
      /\ L = n \/ L >= max_messages \/ m.room = 0
      /\ m.room + TotalSize(m.kept) = max_characters
      /\ Whole(m, n, c) \/ L >= max_messages \/ m.room <= 1
  BY DEF KeepInv
<1>g. \A i \in 1..L : /\ m.kept[i].size \in 1..c[N - L + i].size
                      /\ m.kept[i] = Shortened(c[N - L + i], m.kept[i].size)
  BY DEF KeepInv
<1>h. ~m.truncated <=> all /\ Whole(m, n, c)
  BY DEF KeepInv
<1>1. new \in Memories
  BY <1>a, <1>d, KeepType
<1> HIDE DEF message, new
<1>2. ASSUME L >= max_messages \/ m.room = 0,
             new = [kept |-> m.kept, room |-> m.room, truncated |-> TRUE]
      PROVE  KeepInv(new, n + 1, c, all)
  <2>1. new.kept = m.kept /\ new.room = m.room /\ new.truncated
    BY <1>2
  <2>2. Len(new.kept) # n + 1
    BY <1>b, <1>c, <1>f, <2>1
  <2>3. ~Whole(new, n + 1, c)
    BY <2>2 DEF Whole
  <2>4. \A i \in 1..Len(new.kept) : /\ new.kept[i].size \in 1..c[N - Len(new.kept) + i].size
                                    /\ new.kept[i] = Shortened(c[N - Len(new.kept) + i], new.kept[i].size)
    BY <1>g, <2>1
  <2>5. /\ Len(new.kept) <= n + 1 /\ Len(new.kept) <= max_messages
        /\ new.room + TotalSize(new.kept) = max_characters
        /\ Len(new.kept) >= max_messages \/ new.room = 0
        /\ Len(new.kept) >= max_messages \/ new.room <= 1
    BY <1>2, <1>b, <1>c, <1>f, <2>1
  <2>6. ~new.truncated <=> all /\ Whole(new, n + 1, c)
    BY <2>1, <2>3
  <2> QED BY <1>1, <2>4, <2>5, <2>6 DEF KeepInv
<1>3. ASSUME NEW size \in 1..message.size, L < max_messages, size <= m.room,
             size < message.size => m.room - size <= 1,
             new = [kept |-> <<Shortened(message, size)>> \o m.kept, room |-> m.room - size,
                    truncated |-> m.truncated \/ size < message.size]
      PROVE  KeepInv(new, n + 1, c, all)
  <2> DEFINE first == Shortened(message, size)
  <2>0. size \in Nat /\ L = n /\ m.room # 0
    BY <1>3, <1>b, <1>c, <1>d, <1>e, <1>f
  <2>1. first \in Messages /\ first.size = size /\ (size = message.size => first = message)
    BY <1>d, <2>0, ShortenedIsAMessage
  <2>2. /\ new.kept = <<first>> \o m.kept /\ new.room = m.room - size
        /\ new.truncated <=> m.truncated \/ size < message.size
    <3> DEFINE t == m.truncated \/ size < message.size
    <3>1. new = [kept |-> <<first>> \o m.kept, room |-> m.room - size, truncated |-> t]
      BY <1>3
    <3> HIDE DEF t, first
    <3>2. new.kept = <<first>> \o m.kept /\ new.room = m.room - size /\ new.truncated = t
      BY <3>1
    <3> QED BY <3>2 DEF t
  <2>a. first = message => size = message.size
    BY <2>1
  <2> HIDE DEF first
  <2>3. /\ Len(new.kept) = n + 1 /\ new.kept[1] = first
        /\ \A i \in 1..n : i + 1 \in 1..n + 1 /\ new.kept[i + 1] = m.kept[i]
    <3> DEFINE k == m.kept
    <3>1. k \in Seq(Messages) /\ Len(k) = n /\ n \in Nat /\ new.kept = <<first>> \o k
      BY <1>b, <1>c, <2>0, <2>2
    <3> HIDE DEF k, new
    <3>2. /\ Len(<<first>> \o k) = n + 1 /\ (<<first>> \o k)[1] = first
          /\ \A i \in 1..n : (<<first>> \o k)[i + 1] = k[i]
      BY <2>1, <3>1
    <3>3. \A i \in 1..n : i + 1 \in 1..n + 1
      BY <3>1
    <3> QED BY <3>1, <3>2, <3>3 DEF k
  <2>4. \A i \in 1..n + 1 : i = 1 \/ (i - 1 \in 1..n /\ (i - 1) + 1 = i)
    BY <1>c
  <2>5. \A i \in 1..n : N - (n + 1) + (i + 1) = N - n + i
    BY <1>c
  <2>6. N - (n + 1) + 1 = N - n
    BY <1>c
  <2>7. ASSUME NEW i \in 1..n + 1
        PROVE  /\ new.kept[i].size \in 1..c[N - (n + 1) + i].size
               /\ new.kept[i] = Shortened(c[N - (n + 1) + i], new.kept[i].size)
    <3>1. CASE i = 1
      BY <1>d, <2>1, <2>3, <2>6, <3>1 DEF first
    <3>2. CASE i - 1 \in 1..n /\ (i - 1) + 1 = i
      <4> DEFINE j == i - 1
      <4>1. j \in 1..n /\ i = j + 1
        BY <3>2
      <4> HIDE DEF j
      <4>2. /\ m.kept[j].size \in 1..c[N - n + j].size
            /\ m.kept[j] = Shortened(c[N - n + j], m.kept[j].size)
        BY <1>g, <2>0, <4>1
      <4>3. new.kept[i] = m.kept[j] /\ N - (n + 1) + i = N - n + j
        BY <2>3, <2>5, <4>1
      <4> QED BY <4>2, <4>3
    <3> QED BY <2>4, <3>1, <3>2
  <2>8. new.room + TotalSize(new.kept) = max_characters
    <3>1. TotalSize(new.kept) = size + TotalSize(m.kept)
      BY <1>b, <2>1, <2>2, TotalSizeMore
    <3>2. TotalSize(m.kept) \in Nat
      BY <1>b, TotalSizeIsLast
    <3> QED BY <1>b, <1>e, <1>f, <2>0, <2>2, <3>1, <3>2
  <2>9. Whole(new, n + 1, c) <=> Whole(m, n, c) /\ size = message.size
    <3>1. Whole(m, n, c) <=> \A i \in 1..n : m.kept[i] = c[N - n + i]
      BY <2>0 DEF Whole
    <3>2. Whole(new, n + 1, c) <=> \A i \in 1..n + 1 : new.kept[i] = c[N - (n + 1) + i]
      BY <2>3 DEF Whole
    <3>3. ASSUME \A i \in 1..n + 1 : new.kept[i] = c[N - (n + 1) + i]
          PROVE  (\A i \in 1..n : m.kept[i] = c[N - n + i]) /\ size = message.size
      <4>1. 1 \in 1..n + 1
        BY <1>c
      <4>2. new.kept[1] = c[N - n]
        BY <2>6, <3>3, <4>1
      <4>3. size = message.size
        BY <1>d, <2>3, <2>a, <4>2
      <4>4. ASSUME NEW i \in 1..n PROVE m.kept[i] = c[N - n + i]
        <5>1. new.kept[i + 1] = c[N - (n + 1) + (i + 1)]
          BY <2>3, <3>3
        <5> QED BY <2>3, <2>5, <5>1
      <4> QED BY <4>3, <4>4
    <3>4. ASSUME \A i \in 1..n : m.kept[i] = c[N - n + i], size = message.size
          PROVE  \A i \in 1..n + 1 : new.kept[i] = c[N - (n + 1) + i]
      <4> TAKE i \in 1..n + 1
      <4>1. CASE i = 1
        BY <1>d, <2>1, <2>3, <2>6, <3>4, <4>1
      <4>2. CASE i - 1 \in 1..n /\ (i - 1) + 1 = i
        <5> DEFINE j == i - 1
        <5>1. j \in 1..n /\ i = j + 1
          BY <4>2
        <5> HIDE DEF j
        <5> QED BY <2>3, <2>5, <3>4, <5>1
      <4> QED BY <2>4, <4>1, <4>2
    <3> QED BY <3>1, <3>2, <3>3, <3>4
  <2>10. Whole(new, n + 1, c) \/ Len(new.kept) >= max_messages \/ new.room <= 1
    <3>1. CASE size < message.size
      BY <1>3, <2>2, <3>1
    <3>2. CASE size = message.size
      <4>1. CASE Whole(m, n, c)
        BY <2>9, <3>2, <4>1
      <4>2. CASE m.room <= 1
        BY <1>b, <2>0, <2>2, <4>2
      <4> QED BY <1>3, <1>b, <1>e, <1>f, <4>1, <4>2
    <3> QED BY <1>d, <3>1, <3>2
  <2>11. ~new.truncated <=> all /\ Whole(new, n + 1, c)
    <3>1. size < message.size <=> size # message.size
      BY <1>d
    <3> QED BY <1>h, <2>2, <2>9, <3>1, Zenon
  <2>12. Len(new.kept) <= n + 1 /\ Len(new.kept) <= max_messages
    BY <1>3, <1>b, <1>c, <1>e, <2>0, <2>3
  <2> QED BY <1>1, <2>3, <2>7, <2>8, <2>10, <2>11, <2>12 DEF KeepInv
<1>4. \/ /\ L >= max_messages \/ m.room = 0
         /\ new = [kept |-> m.kept, room |-> m.room, truncated |-> TRUE]
      \/ \E size \in 1..message.size :
           /\ L < max_messages /\ size <= m.room
           /\ size < message.size => m.room - size <= 1
           /\ new = [kept |-> <<Shortened(message, size)>> \o m.kept, room |-> m.room - size,
                     truncated |-> m.truncated \/ size < message.size]
  <2> HIDE DEF L, N
  <2> QED BY <1>a, <1>d, KeepCases DEF new, L
<1>5. KeepInv(new, n + 1, c, all)
  BY <1>2, <1>3, <1>4
<1> QED BY <1>5 DEF new, message

\* The conversation of the prompt is the newest part of any history.
LEMMA BoundedHistoryIsNewest ==
  ASSUME NEW history \in Seq(Messages)
  PROVE  /\ IsNewestOf(BoundHistory(history), history)
         /\ BoundHistory(history) \in Memories
<1> DEFINE c == Candidates(history)
           N == Len(c)
           all == Len(c) = Len(history)
<1>0. /\ c \in Seq(Spoken) /\ c \in Seq(Messages) /\ N \in Nat /\ Len(history) \in Nat /\ N <= Len(history)
      /\ N = Len(history) => c = history
      /\ all \in BOOLEAN
  <2>1. \A s : s \in Seq(Spoken) => s \in Seq(Messages)
    BY DEF Spoken
  <2> QED BY <2>1, CandidatesOfHistory
<1>1. PICK m : AreMemories(m, history) /\ BoundHistory(history) = m[N]
  BY BoundHistoryIsLast
<1> DEFINE good == {n \in Nat : KeepInv(m[n], n, c, all)}
<1>a. \A n \in 0..N : m[n] = IF n = 0 THEN FirstMemory(history) ELSE Keep(c[N - n + 1], m[n - 1])
  BY <1>1 DEF AreMemories
<1>2. 0 \in good
  <2>1. m[0] = FirstMemory(history)
    BY <1>0, <1>a
  <2> QED BY <2>1, KeepInvFirst
<1> HIDE DEF c, all
<1>3. ASSUME NEW n \in 0..N - 1, n \in good PROVE n + 1 \in good
  <2>1. n + 1 \in 0..N /\ n + 1 # 0 /\ (n + 1) - 1 = n /\ n + 1 \in Nat
    BY <1>0
  <2>2. m[n + 1] = Keep(c[N - (n + 1) + 1], m[n])
    BY <1>a, <2>1
  <2>3. KeepInv(m[n], n, c, all)
    BY <1>3
  <2>4. KeepInv(m[n + 1], n + 1, c, all)
    BY <1>0, <2>2, <2>3, KeepInvNext
  <2> QED BY <2>1, <2>4
<1>4. N \in good
  <2> HIDE DEF good, N
  <2>1. \A n \in 0..N - 1 : n \in good => n + 1 \in good
    BY <1>3
  <2>2. \A n \in 0..N : n \in good
    BY <1>0, <1>2, <2>1, Induction
  <2> QED BY <1>0, <2>2
<1> DEFINE b == BoundHistory(history)
           L == Len(b.kept)
<1>5. KeepInv(b, N, c, all)
  BY <1>1, <1>4
<1> HIDE DEF b, good
<1>6. b \in Memories /\ b.kept \in Seq(Messages) /\ L \in Nat /\ b.room \in Nat /\ TotalSize(b.kept) \in Nat
  <2>1. b \in Memories
    BY <1>5 DEF KeepInv
  <2>2. b.kept \in Seq(Messages) /\ b.room \in Nat
    BY <2>1 DEF Memories
  <2> QED BY <2>1, <2>2, TotalSizeIsLast
<1>7. /\ L <= N /\ L <= max_messages /\ b.room + TotalSize(b.kept) = max_characters
      /\ \A i \in 1..L : /\ b.kept[i].size \in 1..c[N - L + i].size
                         /\ b.kept[i] = Shortened(c[N - L + i], b.kept[i].size)
      /\ Whole(b, N, c) \/ L >= max_messages \/ b.room <= 1
      /\ ~b.truncated <=> all /\ Whole(b, N, c)
  BY <1>5 DEF KeepInv
<1>8. Whole(b, N, c) <=> b.kept = c
  <2>1. \A i \in 1..N : N - N + i = i
    BY <1>0
  <2>2. Whole(b, N, c) <=> L = N /\ \A i \in 1..N : b.kept[i] = c[i]
    BY <2>1 DEF Whole
  <2>3. b.kept = c <=> L = N /\ \A i \in 1..N : b.kept[i] = c[i]
    BY <1>0, <1>6, SeqEqual
  <2> QED BY <2>2, <2>3
<1>9. b.truncated <=> b.kept # history
  <2>1. ASSUME all, b.kept = c PROVE b.kept = history
    BY <1>0, <2>1 DEF all, c
  <2>2. ASSUME b.kept = history PROVE all /\ b.kept = c
    <3>1. N = Len(history)
      BY <1>0, <1>7, <2>2
    <3> QED BY <1>0, <2>2, <3>1 DEF all
  <2> QED BY <1>7, <1>8, <2>1, <2>2
<1>10. b.kept # c => L = max_messages \/ TotalSize(b.kept) >= max_characters - 1
  <2>1. max_messages \in Nat /\ max_characters \in Nat
    BY ContextAssumption
  <2> QED BY <1>6, <1>7, <1>8, <2>1
<1>11. TotalSize(b.kept) <= max_characters /\ N - L >= 0
  BY <1>0, <1>6, <1>7, ContextAssumption
<1>12. \A i \in 1..L : /\ b.kept[i].size \in 1..c[N - L + i].size
                       /\ b.kept[i] = [c[N - L + i] EXCEPT !.size = b.kept[i].size]
  BY <1>7 DEF Shortened
<1>13. IsNewestOf(b, history)
  BY <1>7, <1>9, <1>10, <1>11, <1>12 DEF IsNewestOf, c
<1> QED BY <1>6, <1>13 DEF b
=============================================================================
