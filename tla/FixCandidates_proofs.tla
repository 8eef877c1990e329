-------------------------- MODULE FixCandidates_proofs --------------------------
(***************************************************************************)
(* FixCandidates, for any findings, candidates, file and limits: the       *)
(* revisions of a review show the changes that were made, and its findings *)
(* and ranges follow the code they are about.                              *)
(*                                                                         *)
(* ShownDiffsAreTheFixes is inductive once one knows that revisions is a   *)
(* sequence of records; what is in the records does not matter.            *)
(* PositionsFollowTheCode needs what it does not mention: that a candidate *)
(* changes nothing outside its span, that nobody else's text has its lines *)
(* before it is confirmed, that a finding which was decided still knows    *)
(* its lines, and that a revision keeps the ranges of its text.            *)
(***************************************************************************)
EXTENDS FixCandidates, SequenceTheorems, TLAPS

Revision(T) == [of : T, before : T, after : T, ranges : T, undone : BOOLEAN]
Recorded == \E T : revisions \in Seq(Revision(T))
History == Recorded /\ ShownDiffsAreTheFixes

-----------------------------------------------------------------------------
\* The last n elements of a sequence are its elements, at other indices.
LEMMA LatestProperties ==
    ASSUME NEW S, NEW s \in Seq(S), NEW n \in Nat \ {0}
    PROVE  LET d == IF Len(s) > n THEN Len(s) - n ELSE 0 IN
           /\ Latest(s, n) \in Seq(S)
           /\ Len(Latest(s, n)) = Len(s) - d
           /\ \A i \in 1..Len(Latest(s, n)) : Latest(s, n)[i] = s[i + d]
<1> DEFINE m == IF Len(s) > n THEN Len(s) - n + 1 ELSE 1
<1>1. Len(s) \in Nat /\ m \in Int /\ m >= 1
    BY LenProperties
<1>2. \A i \in m..Len(s) : s[i] \in S
    BY <1>1, ElementOfSeq
<1>3. /\ SubSeq(s, m, Len(s)) \in Seq(S)
      /\ Len(SubSeq(s, m, Len(s))) = IF m <= Len(s) THEN Len(s) - m + 1 ELSE 0
      /\ \A i \in 1..(Len(s) - m + 1) : SubSeq(s, m, Len(s))[i] = s[m + i - 1]
    BY <1>1, <1>2, SubSeqProperties
<1>4. Latest(s, n) = SubSeq(s, m, Len(s))
    BY DEF Latest
<1> HIDE DEF m
<1>5. m = 1 + (IF Len(s) > n THEN Len(s) - n ELSE 0)
    BY <1>1 DEF m
<1> DEFINE d == IF Len(s) > n THEN Len(s) - n ELSE 0
<1>6. d \in Nat /\ m = 1 + d /\ d <= Len(s)
    BY <1>1, <1>5
<1> HIDE DEF d
<1>7. Latest(s, n) \in Seq(S)
    BY <1>3, <1>4
<1>8. Len(Latest(s, n)) = Len(s) - d
    BY <1>1, <1>3, <1>4, <1>6
<1>9. ASSUME NEW i \in 1..Len(Latest(s, n)) PROVE Latest(s, n)[i] = s[i + d]
    <2>1. i \in 1..(Len(s) - m + 1) /\ m + i - 1 = i + d
        BY <1>1, <1>6, <1>8
    <2>2. QED
        BY <2>1, <1>3, <1>4
<1>10. QED
    BY <1>7, <1>8, <1>9 DEF d

\* A fix that is confirmed is recorded with the text it found and the text it made.
LEMMA ApplyKeepsHistory ==
    ASSUME History, MaxRevisions \in Nat \ {0}, NEW c, Apply(c)
    PROVE  History'
<1> DEFINE new == [of |-> preview[c].of, before |-> text, after |-> preview[c].text,
                   ranges |-> ranges, undone |-> FALSE]
<1>1. PICK T : revisions \in Seq(Revision(T))
    BY DEF History, Recorded
<1> DEFINE U == T \cup {preview[c].of, text, preview[c].text, ranges}
<1>2. revisions \in Seq(Revision(U))
    <2>1. Revision(T) \subseteq Revision(U)
        BY DEF Revision
    <2>2. QED
        BY <1>1, <2>1, SeqMonotonic
<1>3. new \in Revision(U) /\ new.before = text /\ new.after = preview[c].text
    BY DEF Revision
<1>4. text' = preview[c].text /\ revisions' = Latest(Append(revisions, new), MaxRevisions)
    BY DEF Apply
<1> HIDE DEF new, U
<1> DEFINE all == Append(revisions, new)
<1>5. /\ all \in Seq(Revision(U)) /\ Len(all) = Len(revisions) + 1
      /\ Len(revisions) \in Nat /\ DOMAIN revisions = 1..Len(revisions)
      /\ \A i \in 1..Len(revisions) : all[i] = revisions[i]
      /\ all[Len(all)] = new
    BY <1>2, <1>3
<1> HIDE DEF all
<1>6. \A i \in 1..Len(all) : ~all[i].undone =>
         (IF i = Len(all) THEN text' ELSE all[i + 1].before) = all[i].after
    <2> SUFFICES ASSUME NEW i \in 1..Len(all), ~all[i].undone
                 PROVE  (IF i = Len(all) THEN text' ELSE all[i + 1].before) = all[i].after
        OBVIOUS
    <2> DEFINE n == Len(revisions)
    <2>0. n \in Nat /\ Len(all) = n + 1 /\ i \in 1..(n + 1)
        BY <1>5
    <2> HIDE DEF n
    <2>1. CASE i = Len(all)
        BY <2>1, <1>3, <1>4, <1>5
    <2>2. CASE i = n
        <3>1. LaterBefore(i) = revisions[i].after
            BY <2>2, <1>5 DEF n, History, ShownDiffsAreTheFixes
        <3>2. QED
            BY <3>1, <2>2, <1>3, <1>5 DEF n, LaterBefore
    <2>3. CASE i < n
        <3>1. LaterBefore(i) = revisions[i].after
            BY <2>3, <1>5 DEF n, History, ShownDiffsAreTheFixes
        <3>2. i \in 1..n /\ i + 1 \in 1..n /\ i # n /\ i # Len(all)
            BY <2>0, <2>3
        <3>3. all[i] = revisions[i] /\ all[i + 1] = revisions[i + 1]
            BY <3>2, <1>5 DEF n
        <3>4. QED
            BY <3>1, <3>2, <3>3 DEF n, LaterBefore
    <2>4. i = Len(all) \/ i = n \/ i < n
        BY <2>0
    <2>5. QED
        BY <2>1, <2>2, <2>3, <2>4
<1>7. revisions' = Latest(all, MaxRevisions)
    BY <1>4 DEF all
<1> DEFINE d == IF Len(all) > MaxRevisions THEN Len(all) - MaxRevisions ELSE 0
<1>8. /\ revisions' \in Seq(Revision(U))
      /\ Len(revisions') = Len(all) - d
      /\ \A i \in 1..Len(revisions') : revisions'[i] = all[i + d]
    BY <1>5, <1>7, LatestProperties
<1>9. d \in Nat /\ DOMAIN revisions' = 1..Len(revisions')
    <2>1. MaxRevisions \in Nat /\ Len(all) \in Nat
        BY <1>5
    <2>2. d \in Nat
        BY <2>1
    <2>3. DOMAIN revisions' = 1..Len(revisions')
        BY <1>8
    <2>4. QED
        BY <2>2, <2>3
<1> HIDE DEF d
<1>10. ASSUME NEW i \in DOMAIN revisions', ~revisions'[i].undone
       PROVE  (IF i = Len(revisions') THEN text' ELSE revisions'[i + 1].before) = revisions'[i].after
    <2>1. i + d \in 1..Len(all) /\ revisions'[i] = all[i + d]
        BY <1>5, <1>8, <1>9, <1>10
    <2>2. (IF i + d = Len(all) THEN text' ELSE all[i + d + 1].before) = all[i + d].after
        BY <2>1, <1>6, <1>10
    <2>3. CASE i = Len(revisions')
        BY <2>1, <2>2, <2>3, <1>5, <1>8, <1>9
    <2>4. CASE i # Len(revisions')
        <3>1. i + 1 \in 1..Len(revisions') /\ i + d # Len(all)
            BY <2>4, <1>5, <1>8, <1>9, <1>10
        <3>2. revisions'[i + 1] = all[i + d + 1]
            BY <3>1, <1>5, <1>8, <1>9
        <3>3. QED
            BY <3>1, <3>2, <2>1, <2>2, <2>4
    <2>5. QED
        BY <2>3, <2>4
<1>11. QED
    BY <1>8, <1>10 DEF History, Recorded, ShownDiffsAreTheFixes, LaterBefore

\* Only the last fix can be undone, and only while the file is as it left it.
LEMMA UndoKeepsHistory ==
    ASSUME History, Undo
    PROVE  History'
<1>1. PICK T : revisions \in Seq(Revision(T))
    BY DEF History, Recorded
<1>2. PICK k \in Undoable : (\A j \in Undoable : j <= k) /\ UndoRevision(k)
    BY DEF Undo
<1>3. Len(revisions) \in Nat /\ DOMAIN revisions = 1..Len(revisions) /\ k \in 1..Len(revisions)
    BY <1>1, <1>2 DEF Undoable
<1> DEFINE gone == [revisions[k] EXCEPT !.undone = TRUE]
<1>4. revisions[k] \in Revision(T)
    BY <1>1, <1>3, ElementOfSeq
<1>5. gone \in Revision(T) /\ gone.undone /\ gone.before = revisions[k].before
    BY <1>4 DEF Revision
<1>6. revisions' = [revisions EXCEPT ![k] = gone] /\ text' = revisions[k].before
    BY <1>2 DEF UndoRevision
<1> HIDE DEF gone
<1>7. /\ revisions' \in Seq(Revision(T)) /\ Len(revisions') = Len(revisions)
      /\ \A j \in 1..Len(revisions) : revisions'[j] = IF j = k THEN gone ELSE revisions[j]
      /\ DOMAIN revisions' = 1..Len(revisions)
    BY <1>1, <1>3, <1>5, <1>6, ExceptSeq
<1>8. ASSUME NEW i \in 1..Len(revisions), ~revisions'[i].undone
      PROVE  (IF i = Len(revisions) THEN text' ELSE revisions'[i + 1].before) = revisions'[i].after
    <2>1. i # k /\ revisions'[i] = revisions[i] /\ i \in Undoable
        BY <1>3, <1>5, <1>7, <1>8 DEF Undoable
    <2>2. i < k /\ i # Len(revisions) /\ i + 1 \in 1..Len(revisions)
        <3>1. i <= k
            BY <2>1, <1>2
        <3>2. /\ i \in Int /\ k \in Int /\ Len(revisions) \in Int
              /\ 1 <= i /\ i <= k /\ i # k /\ k <= Len(revisions)
            BY <3>1, <2>1, <1>3
        <3>3. QED
            BY ONLY <3>2
    <2>3. revisions[i + 1].before = revisions[i].after
        BY <2>1, <2>2, <1>3 DEF History, ShownDiffsAreTheFixes, LaterBefore, Undoable
    <2>4. revisions'[i + 1].before = revisions[i + 1].before
        BY <2>2, <1>5, <1>7
    <2>5. QED
        BY <2>1, <2>2, <2>3, <2>4
<1>9. QED
    BY <1>7, <1>8 DEF History, Recorded, ShownDiffsAreTheFixes, LaterBefore

\* Nothing else writes the file or the revisions.
LEMMA RestKeepsHistory ==
    ASSUME History, UNCHANGED <<text, revisions>>
    PROVE  History'
BY DEF History, Recorded, ShownDiffsAreTheFixes, LaterBefore

-----------------------------------------------------------------------------
\* revisions() shows what each fix that is not undone made of the file, however
\* previews, confirmations, decisions, undos and rechecks follow each other.
THEOREM RevisionsShowTheFixes == FixSpec => []ShownDiffsAreTheFixes
<1>1. FixInit => History
    <2> SUFFICES ASSUME FixInit PROVE History
        OBVIOUS
    <2>1. revisions = << >> /\ revisions \in Seq(Revision({})) /\ DOMAIN revisions = {}
        BY DEF FixInit
    <2>2. QED
        BY <2>1 DEF History, Recorded, ShownDiffsAreTheFixes
<1>2. History /\ [FixNext]_fixVars => History'
    <2> SUFFICES ASSUME History, [FixNext]_fixVars PROVE History'
        OBVIOUS
    <2> MaxRevisions \in Nat \ {0}
        BY FixAssumption
    <2>1. ASSUME NEW c \in Candidates, NEW f \in Issues, BeginPreview(c, f) PROVE History'
        BY <2>1, RestKeepsHistory DEF BeginPreview, UNCHANGED_Review
    <2>2. ASSUME NEW c \in Candidates, ProposalFails(c) \/ GiveUpPreview(c) PROVE History'
        BY <2>2, RestKeepsHistory DEF ProposalFails, GiveUpPreview, UNCHANGED_Review
    <2>3. ASSUME NEW c \in Candidates, PreviewReplaces(c) \/ PreviewInserts(c) \/ PreviewRenames(c)
          PROVE  History'
        BY <2>3, RestKeepsHistory
           DEF PreviewReplaces, PreviewInserts, PreviewRenames, UNCHANGED_Review
    <2>4. ASSUME NEW c \in Candidates, ForgetCandidate(c) PROVE History'
        BY <2>4, RestKeepsHistory DEF ForgetCandidate, UNCHANGED_Review
    <2>5. ASSUME NEW c \in Candidates, ConfirmFix(c) PROVE History'
        <3>1. CASE Apply(c)
            BY <3>1, ApplyKeepsHistory
        <3>2. CASE Take(c) /\ UNCHANGED_Review
            BY <3>2, RestKeepsHistory DEF UNCHANGED_Review
        <3>3. QED
            BY <2>5, <3>1, <3>2 DEF ConfirmFix
    <2>6. ASSUME NEW f \in Issues, Reopen(f) \/ \E deferred \in BOOLEAN : Decide(f, deferred)
          PROVE  History'
        BY <2>6, RestKeepsHistory DEF Reopen, Decide
    <2>7. CASE Undo
        BY <2>7, UndoKeepsHistory
    <2>8. CASE ReportAgain
        BY <2>8, RestKeepsHistory DEF ReportAgain
    <2>9. CASE UNCHANGED fixVars
        BY <2>9, RestKeepsHistory DEF fixVars
    <2>10. QED
        BY <2>1, <2>2, <2>3, <2>4, <2>5, <2>6, <2>7, <2>8, <2>9 DEF FixNext
<1>3. History => ShownDiffsAreTheFixes
    BY DEF History
<1>4. QED
    BY <1>1, <1>2, <1>3, PTL DEF FixSpec

-----------------------------------------------------------------------------
(* A text in which the lines of a span were replaced.                       *)

Places == [first : Int, last : Int]
\* A place in a text, and a place or a gap between two of its lines.
Within(s, t) == 1 <= s.first /\ s.first <= s.last /\ s.last <= Len(t)
Fits(s, t) == 1 <= s.first /\ s.first <= s.last + 1 /\ s.last <= Len(t)
Proper(s) == 1 <= s.first /\ s.first <= s.last

LEMMA SubSeqOfSeq ==
    ASSUME NEW S, NEW b \in Seq(S), NEW m \in Int, NEW n \in Int, 1 <= m, n <= Len(b)
    PROVE  /\ SubSeq(b, m, n) \in Seq(S)
           /\ Len(SubSeq(b, m, n)) = IF m <= n THEN n - m + 1 ELSE 0
           /\ \A i \in 1..(n - m + 1) : SubSeq(b, m, n)[i] = b[m + i - 1]
<1>1. Len(b) \in Nat
    BY LenProperties
<1>2. ASSUME NEW i \in m..n PROVE b[i] \in S
    <2>1. i \in 1..Len(b)
        BY <1>1
    <2>2. QED
        BY <2>1, ElementOfSeq
<1>3. QED
    BY <1>2, SubSeqProperties

\* The lines above the span are where they were, the new ones take its place, and the
\* lines below are as many lines further down as there are lines more.
LEMMA SplicedLines ==
    ASSUME NEW S, NEW b \in Seq(S), NEW mid \in Seq(S), NEW s \in Places, Fits(s, b),
           NEW t, t = Spliced(b, s, mid),
           NEW d \in Int, Len(mid) = d + (s.last - s.first + 1)
    PROVE  /\ t \in Seq(S) /\ Len(t) = Len(b) + d /\ Len(mid) \in Nat /\ d \in Int
           /\ \A i \in 1..(s.first - 1) : t[i] = b[i]
           /\ \A i \in s.first..(s.first + Len(mid) - 1) : t[i] = mid[i - s.first + 1]
           /\ \A i \in (s.last + d + 1)..Len(t) : t[i] = b[i - d]
<1> DEFINE F == s.first
           L == s.last
           N == Len(b)
           M == Len(mid)
           p == SubSeq(b, 1, F - 1)
           q == SubSeq(b, L + 1, N)
<1>1. N \in Nat /\ M \in Nat /\ F \in Int /\ L \in Int /\ 1 <= F /\ F <= L + 1 /\ L <= N /\ d \in Int
      /\ d = M - (L - F + 1)
    BY LenProperties DEF Places, Fits
<1>a. t = p \o mid \o q
    BY DEF Spliced
<1>b. N <= Len(b) /\ N = Len(b) /\ Len(mid) = M
    BY <1>1
<1> HIDE DEF F, L, N, M
<1>2. p \in Seq(S) /\ Len(p) = F - 1 /\ \A i \in 1..(F - 1) : p[i] = b[i]
    <2>1. F - 1 \in Int /\ F - 1 <= N /\ 1 <= 1 /\ 1 \in Int
        BY <1>1
    <2>2. /\ p \in Seq(S)
          /\ Len(p) = IF 1 <= F - 1 THEN F - 1 - 1 + 1 ELSE 0
          /\ \A i \in 1..(F - 1 - 1 + 1) : p[i] = b[1 + i - 1]
        BY <2>1, <1>b, SubSeqOfSeq
    <2> HIDE DEF p
    <2>3. Len(p) = F - 1
        BY <2>2, <1>1
    <2>4. ASSUME NEW i \in 1..(F - 1) PROVE p[i] = b[i]
        <3>1. i \in 1..(F - 1 - 1 + 1) /\ 1 + i - 1 = i
            BY <1>1
        <3>2. QED
            BY <3>1, <2>2
    <2>5. QED
        BY <2>2, <2>3, <2>4
<1>3. q \in Seq(S) /\ Len(q) = N - L /\ \A i \in 1..(N - L) : q[i] = b[L + i]
    <2>1. L + 1 \in Int /\ 1 <= L + 1 /\ N <= N /\ N \in Int
        BY <1>1
    <2>2. /\ q \in Seq(S)
          /\ Len(q) = IF L + 1 <= N THEN N - (L + 1) + 1 ELSE 0
          /\ \A i \in 1..(N - (L + 1) + 1) : q[i] = b[L + 1 + i - 1]
        BY <2>1, <1>b, SubSeqOfSeq
    <2> HIDE DEF q
    <2>3. Len(q) = N - L
        <3>1. (IF L + 1 <= N THEN N - (L + 1) + 1 ELSE 0) = N - L
            BY ONLY <1>1
        <3>2. QED
            BY <2>2, <3>1
    <2>4. ASSUME NEW i \in 1..(N - L) PROVE q[i] = b[L + i]
        <3>0. i \in Int /\ 1 <= i /\ i <= N - L
            BY <1>1
        <3>1. i \in 1..(N - (L + 1) + 1) /\ L + 1 + i - 1 = L + i
            BY ONLY <1>1, <3>0
        <3>2. QED
            BY <3>1, <2>2
    <2>5. QED
        BY <2>2, <2>3, <2>4
<1> DEFINE u == p \o mid
<1> HIDE DEF p, q
<1>5. /\ u \in Seq(S) /\ Len(u) = F - 1 + M
      /\ \A i \in 1..(F - 1 + M) : u[i] = IF i <= F - 1 THEN p[i] ELSE mid[i - (F - 1)]
    <2>1. /\ u \in Seq(S) /\ Len(u) = Len(p) + Len(mid)
          /\ \A i \in 1..(Len(p) + Len(mid)) : u[i] = IF i <= Len(p) THEN p[i] ELSE mid[i - Len(p)]
        BY <1>2, ConcatProperties
    <2> HIDE DEF u
    <2>2. QED
        BY <2>1, <1>2, <1>b
<1>6. /\ t \in Seq(S) /\ Len(t) = F - 1 + M + (N - L)
      /\ \A i \in 1..(F - 1 + M + (N - L)) : t[i] = IF i <= F - 1 + M THEN u[i] ELSE q[i - (F - 1 + M)]
    <2>1. t = u \o q
        BY <1>a
    <2> HIDE DEF u
    <2>2. /\ u \o q \in Seq(S) /\ Len(u \o q) = Len(u) + Len(q)
          /\ \A i \in 1..(Len(u) + Len(q)) : (u \o q)[i] = IF i <= Len(u) THEN u[i] ELSE q[i - Len(u)]
        BY <1>3, <1>5, ConcatProperties
    <2>3. QED
        BY <2>1, <2>2, <1>3, <1>5
<1> HIDE DEF u
<1>7. Len(t) = N + d
    <2>1. F - 1 + M + (N - L) = N + d
        BY ONLY <1>1
    <2>2. QED
        BY <1>6, <2>1
<1>8. ASSUME NEW i \in 1..(F - 1) PROVE t[i] = b[i]
    <2>1. i \in Int /\ 1 <= i /\ i <= F - 1
        BY <1>1
    <2>2. i \in 1..(F - 1 + M) /\ i \in 1..(F - 1 + M + (N - L)) /\ i <= F - 1 + M
        BY <1>1, <2>1
    <2>3. t[i] = u[i]
        BY <2>2, <1>6
    <2>4. u[i] = p[i]
        BY <2>1, <2>2, <1>5
    <2>5. QED
        BY <2>3, <2>4, <1>2
<1>9. ASSUME NEW i \in F..(F + M - 1) PROVE t[i] = mid[i - F + 1]
    <2>1. i \in Int /\ F <= i /\ i <= F + M - 1
        BY <1>1
    <2>2. i \in 1..(F - 1 + M) /\ i \in 1..(F - 1 + M + (N - L)) /\ i <= F - 1 + M /\ ~(i <= F - 1)
          /\ i - (F - 1) = i - F + 1
        BY ONLY <1>1, <2>1
    <2>3. t[i] = u[i]
        BY <2>2, <1>6
    <2>4. u[i] = mid[i - (F - 1)]
        BY <2>2, <1>5
    <2>5. QED
        BY <2>2, <2>3, <2>4
<1>10. ASSUME NEW i \in (L + d + 1)..Len(t) PROVE t[i] = b[i - d]
    <2>1. i \in Int /\ L + d + 1 <= i /\ i <= N + d
        BY <1>1, <1>7
    <2>2. i \in 1..(F - 1 + M + (N - L)) /\ ~(i <= F - 1 + M) /\ i - (F - 1 + M) \in 1..(N - L)
          /\ L + (i - (F - 1 + M)) = i - d
        BY ONLY <1>1, <2>1
    <2>3. t[i] = q[i - (F - 1 + M)]
        BY <2>2, <1>6
    <2>4. QED
        BY <2>2, <2>3, <1>3
<1>11. QED
    BY <1>1, <1>6, <1>7, <1>8, <1>9, <1>10 DEF F, L, N, M

\* Two places hold the same lines when the lines agree one by one.
LEMMA SameLines ==
    ASSUME NEW S, NEW b \in Seq(S), NEW t \in Seq(S), NEW s \in Places, NEW r \in Places,
           Within(s, b), Within(r, t), r.last - r.first = s.last - s.first,
           \A i \in s.first..s.last : t[i + (r.first - s.first)] = b[i]
    PROVE  LinesAt(t, r) = LinesAt(b, s)
<1> DEFINE n == s.last - s.first + 1
<1>1. /\ s.first \in Int /\ s.last \in Int /\ r.first \in Int /\ r.last \in Int
      /\ Len(b) \in Nat /\ Len(t) \in Nat /\ n \in Int /\ n >= 1 /\ r.last - r.first + 1 = n
      /\ 1 <= s.first /\ s.first <= s.last /\ s.last <= Len(b)
      /\ 1 <= r.first /\ r.first <= r.last /\ r.last <= Len(t)
    BY LenProperties DEF Places, Within
<1>2. /\ LinesAt(b, s) \in Seq(S) /\ Len(LinesAt(b, s)) = n
      /\ \A i \in 1..n : LinesAt(b, s)[i] = b[s.first + i - 1]
    <2>0. s.first \in Int /\ s.last \in Int /\ 1 <= s.first /\ s.last <= Len(b)
        BY <1>1
    <2>1. /\ SubSeq(b, s.first, s.last) \in Seq(S)
          /\ Len(SubSeq(b, s.first, s.last)) = IF s.first <= s.last THEN s.last - s.first + 1 ELSE 0
          /\ \A i \in 1..(s.last - s.first + 1) : SubSeq(b, s.first, s.last)[i] = b[s.first + i - 1]
        BY <2>0, SubSeqOfSeq
    <2>2. QED
        BY <2>1, <1>1 DEF LinesAt
<1>3. /\ LinesAt(t, r) \in Seq(S) /\ Len(LinesAt(t, r)) = n
      /\ \A i \in 1..n : LinesAt(t, r)[i] = t[r.first + i - 1]
    <2>0. r.first \in Int /\ r.last \in Int /\ 1 <= r.first /\ r.last <= Len(t)
        BY <1>1
    <2>1. /\ SubSeq(t, r.first, r.last) \in Seq(S)
          /\ Len(SubSeq(t, r.first, r.last)) = IF r.first <= r.last THEN r.last - r.first + 1 ELSE 0
          /\ \A i \in 1..(r.last - r.first + 1) : SubSeq(t, r.first, r.last)[i] = t[r.first + i - 1]
        BY <2>0, SubSeqOfSeq
    <2>2. QED
        BY <2>1, <1>1 DEF LinesAt
<1>4. ASSUME NEW i \in 1..n PROVE LinesAt(t, r)[i] = LinesAt(b, s)[i]
    <2>1. s.first + i - 1 \in s.first..s.last
          /\ s.first + i - 1 + (r.first - s.first) = r.first + i - 1
        BY <1>1
    <2>2. t[r.first + i - 1] = b[s.first + i - 1]
        BY <2>1
    <2>3. QED
        BY <2>2, <1>2, <1>3
<1>5. QED
    BY <1>2, <1>3, <1>4, SeqEqual

-----------------------------------------------------------------------------
(* The inductive invariant.                                                 *)

Preview == [at : {"none", "asking", "ready", "gone"}, of : Issues \cup {Nowhere}, base : Seq(Line),
            span : Places, phase : Nat, text : Seq(Line), added : Nat, structured : BOOLEAN]
Fix == [of : Issues \cup {Nowhere}, before : Seq(Line), after : Seq(Line), ranges : SUBSET Places,
        undone : BOOLEAN]

FixTypes ==
    /\ text \in Seq(Line) /\ over \in BOOLEAN /\ active \subseteq Issues
    /\ place \in [Issues -> Places] /\ kept \in [Issues -> Places] /\ ranges \subseteq Places
    /\ revisions \in Seq(Fix) /\ preview \in [Candidates -> Preview]
    /\ about \in [Issues -> Seq(Line)] /\ changed \subseteq Line

NoneShownWhileReviewed == ~over => active = {}

\* A finding that is shown is at the lines it is about, one that was decided was.
Located(f, s) == about[f] = <<>> \/ (Within(s, text) /\ LinesAt(text, s) = about[f])
ShownAreLocated == \A f \in active : Located(f, place[f])
DecidedAreLocated == \A f \in Issues \ active : kept[f] # Nowhere => Located(f, kept[f])

\* Every place that is known has lines, if not in the text as it is now.
PlacesAreProper ==
    /\ \A f \in active : Proper(place[f])
    /\ \A f \in Issues : kept[f] # Nowhere => Proper(kept[f])
    /\ \A c \in Candidates : preview[c].at = "asking" => Proper(preview[c].span)

\* A candidate that is not a structured repair replaces its span by its new lines; a
\* structured one takes no line away.
Replaces(c) ==
    /\ Proper(preview[c].span)
    /\ ~preview[c].structured =>
          preview[c].text = Spliced(preview[c].base, Clipped(preview[c].base, preview[c].span),
                                    NewLines(c, preview[c].added))
    /\ preview[c].structured =>
          /\ Within(preview[c].span, preview[c].base)
          /\ preview[c].added = preview[c].span.last - preview[c].span.first + 1
          /\ Len(preview[c].base) <= Len(preview[c].text)
CandidatesReplace == \A c \in Candidates : preview[c].at = "ready" => Replaces(c)

\* The lines of a candidate that was not confirmed are nowhere but in its own text.
Without(c, t) == \A i \in DOMAIN t : t[i][1] # c
NowhereElse(c) ==
    /\ Without(c, text)
    /\ \A l \in changed : l[1] # c
    /\ \A i \in DOMAIN revisions : Without(c, revisions[i].before)
    /\ \A d \in Candidates : Without(c, preview[d].base) /\ (d # c => Without(c, preview[d].text))
LinesAreNew == \A c \in Candidates : preview[c].at # "gone" => NowhereElse(c)

\* The ranges held the lines of the change in every text an undo can bring back.
Holds(R, t) ==
    /\ \A i \in DOMAIN t : t[i] \in changed => \E r \in R : r.first <= i /\ i <= r.last
    /\ \A r \in R : r.first <= r.last /\ r.first <= Len(t) + 1
RangesHold == Holds(ranges, text) /\ \A i \in DOMAIN revisions : Holds(revisions[i].ranges, revisions[i].before)

Positions ==
    /\ FixTypes /\ NoneShownWhileReviewed /\ ShownAreLocated /\ DecidedAreLocated
    /\ PlacesAreProper /\ CandidatesReplace /\ LinesAreNew /\ RangesHold

LEMMA SeqFacts ==
    ASSUME NEW S, NEW s \in Seq(S)
    PROVE  /\ Len(s) \in Nat /\ DOMAIN s = 1..Len(s)
           /\ \A i \in DOMAIN s : s[i] \in S
BY LenProperties, ElementOfSeq

LEMMA LineFacts ==
    /\ \A l \in Line : l[1] \in Candidates \/ l[1] = Reported
    /\ \A c \in Candidates, k \in Nat : <<c, k>> \in Line /\ <<c, k>>[1] = c
BY DEF Line

LEMMA NewLinesFacts ==
    ASSUME NEW c \in Candidates, NEW n \in Nat
    PROVE  /\ NewLines(c, n) \in Seq(Line) /\ Len(NewLines(c, n)) = n
           /\ \A i \in 1..n : NewLines(c, n)[i] = <<c, i>>
           /\ \A l \in Members(NewLines(c, n)) : l[1] = c /\ l \in Line
           /\ \A i \in 1..n : NewLines(c, n)[i] \in Members(NewLines(c, n))
           /\ \A e : e # c => Without(e, NewLines(c, n))
<1>1. \A i \in 1..n : <<c, i>> \in Line
    BY DEF Line
<1>2. NewLines(c, n) \in [1..n -> Line] /\ DOMAIN NewLines(c, n) = 1..n
      /\ \A i \in 1..n : NewLines(c, n)[i] = <<c, i>>
    BY <1>1 DEF NewLines
<1>3. NewLines(c, n) \in Seq(Line) /\ Len(NewLines(c, n)) = n
    BY <1>2
<1>4. \A i \in 1..n : <<c, i>>[1] = c
    OBVIOUS
<1>5. QED
    BY <1>1, <1>2, <1>3, <1>4 DEF Members, Without

LEMMA SplicedWithout ==
    ASSUME NEW b \in Seq(Line), NEW mid \in Seq(Line), NEW s \in Places, Fits(s, b), NEW e,
           Without(e, b), Without(e, mid), NEW t, t = Spliced(b, s, mid)
    PROVE  Without(e, t) /\ t \in Seq(Line)
<1>0. PICK d \in Int : Len(mid) = d + (s.last - s.first + 1)
    <2>1. Len(mid) \in Int /\ s.last \in Int /\ s.first \in Int
        BY SeqFacts DEF Places
    <2> DEFINE k == Len(mid) - (s.last - s.first + 1)
    <2>2. k \in Int /\ Len(mid) = k + (s.last - s.first + 1)
        BY <2>1
    <2> HIDE DEF k
    <2>3. QED
        BY <2>2
<1>1. /\ t \in Seq(Line) /\ Len(t) = Len(b) + d /\ Len(mid) \in Nat /\ d \in Int
      /\ \A i \in 1..(s.first - 1) : t[i] = b[i]
      /\ \A i \in s.first..(s.first + Len(mid) - 1) : t[i] = mid[i - s.first + 1]
      /\ \A i \in (s.last + d + 1)..Len(t) : t[i] = b[i - d]
    BY <1>0, SplicedLines
<1> DEFINE F == s.first
           L == s.last
           M == Len(mid)
           N == Len(b)
<1>2. /\ N \in Nat /\ DOMAIN b = 1..N /\ DOMAIN mid = 1..M /\ DOMAIN t = 1..Len(t) /\ Len(t) \in Nat
      /\ F \in Int /\ L \in Int /\ 1 <= F /\ F <= L + 1 /\ L <= N /\ M \in Nat /\ d \in Int
      /\ d = M - (L - F + 1) /\ Len(t) = N + d
    BY <1>0, <1>1, SeqFacts DEF Places, Fits
<1> HIDE DEF F, L, M, N
<1>3. ASSUME NEW i \in DOMAIN t PROVE t[i][1] # e
    <2>1. i \in Int /\ 1 <= i /\ i <= N + d
        BY <1>2
    <2>2. CASE i <= F - 1
        <3>1. i \in 1..(F - 1) /\ i \in 1..N
            BY <1>2, <2>1, <2>2
        <3>2. QED
            BY <3>1, <1>1, <1>2 DEF Without, F
    <2>3. CASE F <= i /\ i <= F + M - 1
        <3>1. i \in F..(F + M - 1) /\ i - F + 1 \in 1..M
            BY <1>2, <2>1, <2>3
        <3>2. t[i] = mid[i - F + 1]
            BY <3>1, <1>1 DEF F, M
        <3>3. QED
            BY <3>1, <3>2, <1>2 DEF Without
    <2>4. CASE F + M - 1 < i
        <3>1. i \in (L + d + 1)..(N + d) /\ i - d \in 1..N
            BY <1>2, <2>1, <2>4
        <3>2. t[i] = b[i - d]
            BY <3>1, <1>1, <1>2 DEF L
        <3>3. QED
            BY <3>1, <3>2, <1>2 DEF Without
    <2>5. QED
        BY <1>2, <2>1, <2>2, <2>3, <2>4
<1>4. QED
    BY <1>1, <1>3 DEF Without

-----------------------------------------------------------------------------
(* Candidates are prepared, given up and forgotten.                         *)

\* What is left of the invariant to show when only the candidates change.
LEMMA OnlyCandidatesChange ==
    ASSUME Positions, UNCHANGED_Review, preview' \in [Candidates -> Preview],
           \A c \in Candidates : preview'[c].at # "gone" => preview[c].at # "gone",
           \A c \in Candidates : preview'[c].at = "ready" => Replaces(c)',
           \A c, d \in Candidates : preview[c].at # "gone" =>
              Without(c, preview'[d].base) /\ (d # c => Without(c, preview'[d].text)),
           \A c \in Candidates : preview'[c].at = "asking" => Proper(preview'[c].span)
    PROVE  Positions'
<1>1. FixTypes' /\ NoneShownWhileReviewed'
    BY DEF Positions, FixTypes, NoneShownWhileReviewed, UNCHANGED_Review
<1>2. ShownAreLocated' /\ DecidedAreLocated'
    BY DEF Positions, ShownAreLocated, DecidedAreLocated, Located, UNCHANGED_Review
<1>3. CandidatesReplace'
    BY DEF CandidatesReplace
<1>4. LinesAreNew'
    <2> SUFFICES ASSUME NEW c \in Candidates, preview'[c].at # "gone" PROVE NowhereElse(c)'
        BY DEF LinesAreNew
    <2>1. preview[c].at # "gone" /\ NowhereElse(c)
        BY DEF Positions, LinesAreNew
    <2>2. QED
        BY <2>1 DEF NowhereElse, Without, UNCHANGED_Review
<1>5. RangesHold'
    BY DEF Positions, RangesHold, Holds, UNCHANGED_Review
<1>6. PlacesAreProper'
    BY DEF Positions, PlacesAreProper, UNCHANGED_Review
<1>7. QED
    BY <1>1, <1>2, <1>3, <1>4, <1>5, <1>6 DEF Positions

LEMMA UnusedFacts ==
    /\ Unused \in Preview /\ Unused.at = "none" /\ Unused.base = <<>> /\ Unused.text = <<>>
    /\ [Unused EXCEPT !.at = "gone"] \in Preview
    /\ [Unused EXCEPT !.at = "gone"].at = "gone"
    /\ [Unused EXCEPT !.at = "gone"].base = <<>>
    /\ [Unused EXCEPT !.at = "gone"].text = <<>>
    /\ \A c : Without(c, <<>>)
<1>1. Nowhere \in Places /\ <<>> \in Seq(Line)
    BY DEF Nowhere, Places
<1>2. Unused \in Preview
    BY <1>1 DEF Unused, Preview
<1>3. [Unused EXCEPT !.at = "gone"] \in Preview
    BY <1>2 DEF Preview
<1>4. Unused.at = "none" /\ Unused.base = <<>> /\ Unused.text = <<>>
    BY DEF Unused
<1>5. /\ [Unused EXCEPT !.at = "gone"].at = "gone"
      /\ [Unused EXCEPT !.at = "gone"].base = <<>>
      /\ [Unused EXCEPT !.at = "gone"].text = <<>>
    BY DEF Unused
<1>6. \A c : Without(c, <<>>)
    BY DEF Without
<1>7. QED
    BY <1>2, <1>3, <1>4, <1>5, <1>6

LEMMA PreviewFacts ==
    ASSUME Positions, NEW c \in Candidates
    PROVE  /\ preview[c] \in Preview /\ DOMAIN preview = Candidates
           /\ preview[c].base \in Seq(Line) /\ preview[c].text \in Seq(Line) /\ preview[c].added \in Nat
           /\ preview[c].span \in Places /\ preview[c].structured \in BOOLEAN
           /\ preview[c].of \in Issues \cup {Nowhere}
           /\ preview[c].at = "asking" => Proper(preview[c].span)
           /\ preview[c].at = "ready" => Replaces(c)
           /\ preview[c].at # "gone" => NowhereElse(c)
BY DEF Positions, FixTypes, Preview, PlacesAreProper, CandidatesReplace, LinesAreNew

\* One candidate is given up, forgotten or evicted.
LEMMA CandidateGone ==
    ASSUME Positions, NEW c \in Candidates, UNCHANGED_Review,
           preview' = [preview EXCEPT ![c] = [Unused EXCEPT !.at = "gone"]]
    PROVE  Positions'
<1>1. preview \in [Candidates -> Preview]
    BY DEF Positions, FixTypes
<1>2. /\ preview' \in [Candidates -> Preview] /\ preview'[c] = [Unused EXCEPT !.at = "gone"]
      /\ \A d \in Candidates \ {c} : preview'[d] = preview[d]
    BY <1>1, UnusedFacts
<1>3. ASSUME NEW d \in Candidates, preview'[d].at # "gone"
      PROVE  preview[d].at # "gone" /\ preview'[d] = preview[d] /\ (Replaces(d)' <=> Replaces(d))
    BY <1>2, <1>3, UnusedFacts DEF Replaces
<1>4. ASSUME NEW d \in Candidates, preview'[d].at = "ready" PROVE Replaces(d)'
    BY <1>3, <1>4, PreviewFacts
<1>5. ASSUME NEW d \in Candidates, NEW e \in Candidates, preview[d].at # "gone"
      PROVE  Without(d, preview'[e].base) /\ (e # d => Without(d, preview'[e].text))
    <2>1. NowhereElse(d)
        BY <1>5, PreviewFacts
    <2>2. QED
        BY <2>1, <1>2, UnusedFacts DEF NowhereElse
<1>6. ASSUME NEW d \in Candidates, preview'[d].at = "asking" PROVE Proper(preview'[d].span)
    BY <1>3, <1>6, PreviewFacts
<1>7. QED
    BY <1>2, <1>3, <1>4, <1>5, <1>6, OnlyCandidatesChange

LEMMA BeginPreviewKeeps ==
    ASSUME Positions, NEW c \in Candidates, NEW f \in Issues, BeginPreview(c, f)
    PROVE  Positions'
<1> DEFINE new == [Unused EXCEPT !.at = "asking", !.of = f, !.base = text, !.span = PlaceOf(f)]
<1>1. /\ preview \in [Candidates -> Preview] /\ text \in Seq(Line) /\ PlaceOf(f) \in Places
      /\ preview[c] = Unused /\ preview' = [preview EXCEPT ![c] = new] /\ UNCHANGED_Review
    BY DEF Positions, FixTypes, PlaceOf, BeginPreview
<1>0. Proper(PlaceOf(f))
    BY DEF Positions, PlacesAreProper, PlaceOf, Known, BeginPreview
<1>2. /\ new \in Preview /\ new.at = "asking" /\ new.base = text /\ new.text = <<>>
      /\ new.span = PlaceOf(f)
    <2>1. Unused \in Preview /\ Unused.text = <<>>
        BY UnusedFacts
    <2>2. QED
        BY <1>1, <2>1 DEF Preview, Unused
<1> HIDE DEF new
<1>3. /\ preview' \in [Candidates -> Preview] /\ preview'[c] = new
      /\ \A d \in Candidates \ {c} : preview'[d] = preview[d]
    BY <1>1, <1>2
<1>4. ASSUME NEW d \in Candidates, preview'[d].at # "gone" PROVE preview[d].at # "gone"
    BY <1>1, <1>3, <1>4, UnusedFacts
<1>5. ASSUME NEW d \in Candidates, preview'[d].at = "ready" PROVE Replaces(d)'
    <2>1. d # c
        BY <1>2, <1>3, <1>5
    <2>2. preview'[d] = preview[d] /\ Replaces(d)
        BY <2>1, <1>3, <1>5, PreviewFacts
    <2>3. QED
        BY <2>2 DEF Replaces
<1>6. ASSUME NEW d \in Candidates, NEW e \in Candidates, preview[d].at # "gone"
      PROVE  Without(d, preview'[e].base) /\ (e # d => Without(d, preview'[e].text))
    <2>1. NowhereElse(d)
        BY <1>6, PreviewFacts
    <2>2. QED
        BY <2>1, <1>2, <1>3, UnusedFacts DEF NowhereElse
<1>7. ASSUME NEW d \in Candidates, preview'[d].at = "asking" PROVE Proper(preview'[d].span)
    BY <1>0, <1>2, <1>3, <1>7, PreviewFacts
<1>8. QED
    BY <1>1, <1>3, <1>4, <1>5, <1>6, <1>7, OnlyCandidatesChange

LEMMA ProposalFailsKeeps ==
    ASSUME Positions, NEW c \in Candidates, ProposalFails(c)
    PROVE  Positions'
<1> DEFINE n == preview[c].phase + 1
           new == [preview[c] EXCEPT !.phase = n]
<1>1. /\ preview \in [Candidates -> Preview] /\ preview[c] \in Preview /\ preview[c].at = "asking"
      /\ UNCHANGED_Review
    BY PreviewFacts DEF Positions, FixTypes, ProposalFails
<1>2. preview' = [preview EXCEPT ![c] = new]
    BY DEF ProposalFails
<1>3. /\ new \in Preview /\ new.at = "asking" /\ new.base = preview[c].base
      /\ new.text = preview[c].text /\ new.span = preview[c].span
    <2>1. preview[c].phase \in Nat
        BY <1>1 DEF Preview
    <2>2. n \in Nat
        BY <2>1
    <2> HIDE DEF n
    <2>3. QED
        BY <1>1, <2>2 DEF Preview
<1> HIDE DEF new
<1>4. /\ preview' \in [Candidates -> Preview] /\ preview'[c] = new
      /\ \A d \in Candidates \ {c} : preview'[d] = preview[d]
    BY <1>1, <1>2, <1>3
<1>5. ASSUME NEW d \in Candidates, preview'[d].at # "gone" PROVE preview[d].at # "gone"
    BY <1>1, <1>4, <1>5
<1>6. ASSUME NEW d \in Candidates, preview'[d].at = "ready" PROVE Replaces(d)'
    <2>1. d # c
        BY <1>3, <1>4, <1>6
    <2>2. preview'[d] = preview[d] /\ Replaces(d)
        BY <2>1, <1>4, <1>6, PreviewFacts
    <2>3. QED
        BY <2>2 DEF Replaces
<1>7. ASSUME NEW d \in Candidates, NEW e \in Candidates, preview[d].at # "gone"
      PROVE  Without(d, preview'[e].base) /\ (e # d => Without(d, preview'[e].text))
    <2>1. NowhereElse(d)
        BY <1>7, PreviewFacts
    <2>2. QED
        BY <2>1, <1>3, <1>4 DEF NowhereElse
<1>8. ASSUME NEW d \in Candidates, preview'[d].at = "asking" PROVE Proper(preview'[d].span)
    BY <1>1, <1>3, <1>4, <1>8, PreviewFacts
<1>9. QED
    BY <1>1, <1>4, <1>5, <1>6, <1>7, <1>8, OnlyCandidatesChange

\* A candidate is stored: it is ready, and the oldest ones may go.
LEMMA StoreKeeps ==
    ASSUME Positions, NEW c \in Candidates, preview[c].at = "asking", UNCHANGED_Review,
           NEW s \in Places, Proper(s),
           NEW revised \in Seq(Line), NEW added \in Nat, NEW structured \in BOOLEAN,
           StoreFixCandidate(c, s, revised, added, structured),
           ~structured => revised = Spliced(preview[c].base, Clipped(preview[c].base, s), NewLines(c, added)),
           structured => /\ Within(s, preview[c].base) /\ added = s.last - s.first + 1
                         /\ Len(preview[c].base) <= Len(revised),
           \A e \in Candidates \ {c} : preview[e].at # "gone" => Without(e, revised)
    PROVE  Positions'
<1> DEFINE new == [preview[c] EXCEPT !.at = "ready", !.phase = 0, !.span = s, !.text = revised,
                                     !.added = added, !.structured = structured]
           gone == [Unused EXCEPT !.at = "gone"]
<1>1. preview \in [Candidates -> Preview] /\ preview[c] \in Preview
    BY PreviewFacts DEF Positions, FixTypes
<1>2. /\ new \in Preview /\ new.at = "ready" /\ new.base = preview[c].base /\ new.text = revised
      /\ new.span = s /\ new.added = added /\ new.structured = structured
    BY <1>1 DEF Preview
<1>3. gone \in Preview /\ gone.at = "gone" /\ gone.base = <<>> /\ gone.text = <<>>
    BY UnusedFacts
<1>4. preview' = [d \in Candidates |-> IF d = c THEN new ELSE IF d \in Evicted THEN gone ELSE preview[d]]
    BY DEF StoreFixCandidate
<1> HIDE DEF new, gone
<1>5. /\ preview' \in [Candidates -> Preview] /\ preview'[c] = new
      /\ \A d \in Candidates \ {c} : preview'[d] = gone \/ preview'[d] = preview[d]
    BY <1>1, <1>2, <1>3, <1>4
<1>6. ASSUME NEW d \in Candidates, preview'[d].at # "gone" PROVE preview[d].at # "gone"
    BY <1>3, <1>5, <1>6
<1>7. ASSUME NEW d \in Candidates, preview'[d].at = "ready" PROVE Replaces(d)'
    <2>1. CASE d = c
        BY <2>1, <1>2, <1>5 DEF Replaces
    <2>2. CASE d # c
        <3>1. preview'[d] = preview[d] /\ Replaces(d)
            BY <2>2, <1>3, <1>5, <1>7, PreviewFacts
        <3>2. QED
            BY <3>1 DEF Replaces
    <2>3. QED
        BY <2>1, <2>2
<1>8. ASSUME NEW d \in Candidates, NEW e \in Candidates, preview[d].at # "gone"
      PROVE  Without(d, preview'[e].base) /\ (e # d => Without(d, preview'[e].text))
    <2>1. NowhereElse(d)
        BY <1>8, PreviewFacts
    <2>2. CASE e = c
        BY <2>1, <2>2, <1>2, <1>5, <1>8 DEF NowhereElse
    <2>3. CASE e # c
        BY <2>1, <2>3, <1>3, <1>5, UnusedFacts DEF NowhereElse
    <2>4. QED
        BY <2>2, <2>3
<1>9. ASSUME NEW d \in Candidates, preview'[d].at = "asking" PROVE Proper(preview'[d].span)
    BY <1>2, <1>3, <1>5, <1>9, PreviewFacts
<1>10. QED
    BY <1>5, <1>6, <1>7, <1>8, <1>9, OnlyCandidatesChange

LEMMA SpanFacts ==
    ASSUME NEW t \in Seq(Line), NEW s \in ProperSpans(t)
    PROVE  /\ s \in Places /\ Within(s, t) /\ Fits(s, t) /\ Proper(s)
           /\ s.last - s.first + 1 \in Nat /\ s.first \in 1..Len(t) /\ s.last \in 1..Len(t)
<1>1. Len(t) \in Nat /\ DOMAIN t = 1..Len(t)
    BY SeqFacts
<1>2. PICK i \in 1..Len(t), j \in 1..Len(t) : s = [first |-> i, last |-> j]
    BY <1>1 DEF ProperSpans, Spans
<1>3. s.first = i /\ s.last = j /\ s.first <= s.last
    BY <1>2 DEF ProperSpans
<1>4. s \in Places
    BY <1>1, <1>2 DEF Places
<1>5. i \in Int /\ j \in Int /\ 1 <= i /\ i <= j /\ j <= Len(t)
    BY <1>1, <1>3
<1>6. QED
    BY <1>3, <1>4, <1>5 DEF Within, Fits, Proper

\* What a slice takes away: the lines of the span that are in the text.
LEMMA ClippedFacts ==
    ASSUME NEW b \in Seq(Line), NEW s \in Places, Proper(s)
    PROVE  LET e == Clipped(b, s) IN
           /\ e \in Places /\ Fits(e, b)
           /\ e.first = IF s.first <= Len(b) THEN s.first ELSE Len(b) + 1
           /\ e.last = IF s.last <= Len(b) THEN s.last ELSE Len(b)
<1> DEFINE E == IF s.first <= Len(b) THEN s.first ELSE Len(b) + 1
           G == IF s.last <= Len(b) THEN s.last ELSE Len(b)
           e == Clipped(b, s)
<1>1. /\ s.first \in Int /\ s.last \in Int /\ 1 <= s.first /\ s.first <= s.last
      /\ Len(b) \in Nat
    BY SeqFacts DEF Places, Proper
<1>2. E \in Int /\ G \in Int /\ 1 <= E /\ E <= G + 1 /\ G <= Len(b)
    BY <1>1
<1>3. e = [first |-> E, last |-> G]
    BY DEF Clipped, Clamped
<1> HIDE DEF e, E, G
<1>4. e.first = E /\ e.last = G /\ e \in Places
    BY <1>2, <1>3 DEF Places
<1>5. Fits(e, b)
    BY <1>2, <1>4 DEF Fits
<1>6. QED
    BY <1>4, <1>5 DEF e, E, G

LEMMA PreviewReplacesKeeps ==
    ASSUME Positions, NEW c \in Candidates, PreviewReplaces(c)
    PROVE  Positions'
<1> DEFINE b == preview[c].base
<1>1. PICK n \in Added, s \in SpansAround(c) \cup {preview[c].span} :
         StoreFixCandidate(c, s, Spliced(b, Clipped(b, s), NewLines(c, n)), n, FALSE)
    BY DEF PreviewReplaces
<1>2. /\ preview[c].at = "asking" /\ UNCHANGED_Review /\ b \in Seq(Line) /\ n \in Nat
      /\ s \in ProperSpans(b) \/ s = preview[c].span
    BY PreviewFacts, FixAssumption DEF PreviewReplaces, SpansAround
<1>3. s \in Places /\ Proper(s)
    <2>1. preview[c].span \in Places /\ Proper(preview[c].span)
        BY <1>2, PreviewFacts
    <2>2. QED
        BY <2>1, <1>2, SpanFacts
<1> DEFINE e == Clipped(b, s)
           t == Spliced(b, e, NewLines(c, n))
<1>4. StoreFixCandidate(c, s, t, n, FALSE)
    BY <1>1
<1>5. NewLines(c, n) \in Seq(Line) /\ \A d : d # c => Without(d, NewLines(c, n))
    BY <1>2, NewLinesFacts
<1>6. e \in Places /\ Fits(e, b)
    BY <1>2, <1>3, ClippedFacts
<1>7. t = Spliced(preview[c].base, Clipped(preview[c].base, s), NewLines(c, n))
    OBVIOUS
<1>a. t = Spliced(b, e, NewLines(c, n))
    OBVIOUS
<1>b. \A d \in Candidates \ {c} : preview[d].at # "gone" => Without(d, b)
    BY PreviewFacts DEF NowhereElse
<1> HIDE DEF t, e, b
<1>8. t \in Seq(Line)
    <2>1. Len(NewLines(c, n)) \in Nat /\ e.first \in Int /\ e.last \in Int
        BY <1>5, <1>6, SeqFacts DEF Places
    <2> DEFINE d == Len(NewLines(c, n)) - (e.last - e.first + 1)
    <2>2. d \in Int /\ Len(NewLines(c, n)) = d + (e.last - e.first + 1)
        BY <2>1
    <2> HIDE DEF d
    <2>3. QED
        BY <2>2, <1>a, <1>2, <1>5, <1>6, SplicedLines
<1>9. ASSUME NEW d \in Candidates \ {c}, preview[d].at # "gone" PROVE Without(d, t)
    <2>1. Without(d, b) /\ Without(d, NewLines(c, n))
        BY <1>5, <1>9, <1>b
    <2>2. QED
        BY <2>1, <1>a, <1>2, <1>5, <1>6, SplicedWithout
<1>10. QED
    BY <1>2, <1>3, <1>4, <1>7, <1>8, <1>9, StoreKeeps

LEMMA PreviewInsertsKeeps ==
    ASSUME Positions, NEW c \in Candidates, PreviewInserts(c)
    PROVE  Positions'
<1> DEFINE b == preview[c].base
<1>0. PICK s \in SpansAround(c) : \E i \in 1..s.last :
         StoreFixCandidate(c, s, Spliced(b, [first |-> i, last |-> i - 1], NewLines(c, 1)),
                           s.last - s.first + 1, TRUE)
    BY DEF PreviewInserts
<1>1. PICK i \in 1..s.last :
         StoreFixCandidate(c, s, Spliced(b, [first |-> i, last |-> i - 1], NewLines(c, 1)),
                           s.last - s.first + 1, TRUE)
    BY <1>0
<1>2. preview[c].at = "asking" /\ UNCHANGED_Review /\ b \in Seq(Line) /\ s \in ProperSpans(b)
    BY PreviewFacts DEF PreviewInserts, SpansAround
<1>3. /\ s \in Places /\ Within(s, b) /\ Proper(s) /\ s.last - s.first + 1 \in Nat
      /\ s.last \in 1..Len(b) /\ Len(b) \in Nat
    BY <1>2, SpanFacts, SeqFacts
<1>4. i \in Int /\ 1 <= i /\ i <= Len(b)
    BY <1>3
<1> DEFINE gap == [first |-> i, last |-> i - 1]
           t == Spliced(b, gap, NewLines(c, 1))
<1>5. gap \in Places /\ Fits(gap, b) /\ gap.first = i /\ gap.last = i - 1
    <2>1. i - 1 \in Int /\ i <= i - 1 + 1 /\ i - 1 <= Len(b)
        BY <1>3, <1>4
    <2>2. gap.first = i /\ gap.last = i - 1
        OBVIOUS
    <2>3. gap \in Places
        BY <1>4, <2>1 DEF Places
    <2> HIDE DEF gap
    <2>4. QED
        BY <1>4, <2>1, <2>2, <2>3 DEF Fits
<1>7. StoreFixCandidate(c, s, t, s.last - s.first + 1, TRUE)
    BY <1>1
<1>8. /\ NewLines(c, 1) \in Seq(Line) /\ \A e : e # c => Without(e, NewLines(c, 1))
      /\ Len(NewLines(c, 1)) = 1
    BY NewLinesFacts
<1>9. t \in Seq(Line) /\ Len(b) <= Len(t)
    <2> DEFINE d == 1
    <2>1. d \in Int /\ Len(NewLines(c, 1)) = d + (gap.last - gap.first + 1) /\ t = Spliced(b, gap, NewLines(c, 1))
        <3>1. 1 = 1 + (i - 1 - i + 1)
            BY <1>4
        <3> HIDE DEF gap
        <3>2. QED
            BY <3>1, <1>5, <1>8
    <2> DEFINE mid == NewLines(c, 1)
    <2>a. b \in Seq(Line) /\ mid \in Seq(Line) /\ gap \in Places /\ Fits(gap, b)
        BY <1>2, <1>5, <1>8
    <2>b. d \in Int /\ Len(mid) = d + (gap.last - gap.first + 1) /\ t = Spliced(b, gap, mid)
        BY <2>1
    <2> HIDE DEF t, b, gap, d, mid
    <2>2. t \in Seq(Line) /\ Len(t) = Len(b) + d
        BY <2>a, <2>b, SplicedLines
    <2>3. QED
        BY <2>2, <1>3 DEF d
<1>10. ASSUME NEW e \in Candidates \ {c}, preview[e].at # "gone" PROVE Without(e, t)
    <2>1. Without(e, b) /\ Without(e, NewLines(c, 1)) /\ t = Spliced(b, gap, NewLines(c, 1))
        BY <1>8, <1>10, PreviewFacts DEF NowhereElse
    <2> HIDE DEF t, b, gap
    <2>2. QED
        BY <2>1, <1>2, <1>5, <1>8, SplicedWithout
<1> HIDE DEF t
<1> DEFINE n == s.last - s.first + 1
<1>11. /\ n \in Nat /\ StoreFixCandidate(c, s, t, n, TRUE) /\ Within(s, preview[c].base)
       /\ n = s.last - s.first + 1 /\ Len(preview[c].base) <= Len(t)
    BY <1>3, <1>7, <1>9
<1> HIDE DEF n
<1>12. QED
    BY <1>2, <1>3, <1>9, <1>10, <1>11, StoreKeeps

LEMMA PreviewRenamesKeeps ==
    ASSUME Positions, NEW c \in Candidates, PreviewRenames(c)
    PROVE  Positions'
<1> DEFINE b == preview[c].base
           Renamed(uses) == [i \in DOMAIN b |-> IF i \in uses THEN <<c, i>> ELSE b[i]]
<1>1. PICK s \in SpansAround(c), uses \in SUBSET DOMAIN b \ {{}} :
         StoreFixCandidate(c, s, Renamed(uses), s.last - s.first + 1, TRUE)
    BY DEF PreviewRenames
<1>2. preview[c].at = "asking" /\ UNCHANGED_Review /\ b \in Seq(Line) /\ s \in ProperSpans(b)
    BY PreviewFacts DEF PreviewRenames, SpansAround
<1>3. s \in Places /\ Within(s, preview[c].base) /\ Proper(s) /\ s.last - s.first + 1 \in Nat
    BY <1>2, SpanFacts
<1>4. Len(b) \in Nat /\ DOMAIN b = 1..Len(b) /\ \A i \in DOMAIN b : b[i] \in Line
    BY <1>2, SeqFacts
<1>5. \A i \in DOMAIN b : <<c, i>> \in Line /\ <<c, i>>[1] = c
    BY <1>4, LineFacts
<1> DEFINE t == Renamed(uses)
<1>6. \A i \in DOMAIN b : t[i] \in Line
    BY <1>4, <1>5
<1>7. t \in [1..Len(b) -> Line] /\ DOMAIN t = DOMAIN b
    BY <1>4, <1>6
<1>8. t \in Seq(Line)
    <2> HIDE DEF t
    <2>1. QED
        BY <1>4, <1>7
<1>9. ASSUME NEW e \in Candidates \ {c}, preview[e].at # "gone" PROVE Without(e, t)
    <2>1. Without(e, b)
        BY <1>9, PreviewFacts DEF NowhereElse
    <2>2. \A i \in DOMAIN t : t[i] = <<c, i>> \/ t[i] = b[i]
        BY <1>7
    <2>3. QED
        BY <2>1, <2>2, <1>5, <1>7, <1>9 DEF Without
<1> HIDE DEF t
<1>a. Len(b) <= Len(t)
    <2>1. DOMAIN t = 1..Len(t) /\ Len(t) \in Nat
        BY <1>8, SeqFacts
    <2>2. Len(t) = Len(b)
        BY <2>1, <1>4, <1>7
    <2>3. QED
        BY <2>2, <1>4
<1> DEFINE n == s.last - s.first + 1
<1>10. n \in Nat /\ StoreFixCandidate(c, s, t, n, TRUE)
    BY <1>1, <1>3 DEF t
<1>11. Within(s, preview[c].base) /\ n = s.last - s.first + 1 /\ Len(preview[c].base) <= Len(t)
    BY <1>3, <1>a
<1> HIDE DEF n
<1>12. QED
    BY <1>2, <1>3, <1>8, <1>9, <1>10, <1>11, StoreKeeps

-----------------------------------------------------------------------------
(* Decisions, a new report, and undo.                                       *)

LEMMA FileStays ==
    ASSUME Positions, UNCHANGED <<text, ranges, revisions, preview, changed>>
    PROVE  CandidatesReplace' /\ LinesAreNew' /\ RangesHold'
<1>1. CandidatesReplace'
    BY DEF Positions, CandidatesReplace, Replaces
<1>2. LinesAreNew'
    BY DEF Positions, LinesAreNew, NowhereElse, Without
<1>3. RangesHold'
    BY DEF Positions, RangesHold, Holds
<1>4. QED
    BY <1>1, <1>2, <1>3

LEMMA KnownIsLocated ==
    ASSUME Positions, NEW f \in Issues, Known(f)
    PROVE  PlaceOf(f) \in Places /\ Located(f, PlaceOf(f)) /\ Proper(PlaceOf(f))
BY DEF Positions, FixTypes, Known, PlaceOf, ShownAreLocated, DecidedAreLocated, PlacesAreProper

LEMMA DecideKeeps ==
    ASSUME Positions, NEW f \in Issues, NEW deferred \in BOOLEAN, Decide(f, deferred)
    PROVE  Positions'
<1> DEFINE listed == IF deferred THEN active \cup {f} ELSE active \ {f}
<1>1. /\ over /\ Known(f)
      /\ kept' = [kept EXCEPT ![f] = PlaceOf(f)]
      /\ place' = [place EXCEPT ![f] = IF deferred THEN PlaceOf(f) ELSE Nowhere]
      /\ UNCHANGED <<text, ranges, revisions, preview, changed>>
    BY DEF Decide
<1>2. \/ /\ over' = FALSE /\ active' = {}
         /\ about' = [g \in Issues |-> IF Stale(g) /\ g # f THEN <<>> ELSE about[g]]
      \/ active' = listed /\ over' = over /\ about' = about
    BY DEF Decide, RestartReview
<1>3. PlaceOf(f) \in Places /\ Located(f, PlaceOf(f)) /\ Proper(PlaceOf(f))
    BY <1>1, KnownIsLocated
<1>4. /\ active \subseteq Issues /\ place \in [Issues -> Places] /\ kept \in [Issues -> Places]
      /\ about \in [Issues -> Seq(Line)] /\ over \in BOOLEAN /\ Nowhere \in Places
    BY DEF Positions, FixTypes, Nowhere, Places
<1>5. /\ kept' \in [Issues -> Places] /\ place' \in [Issues -> Places]
      /\ kept'[f] = PlaceOf(f) /\ (deferred => place'[f] = PlaceOf(f))
      /\ \A g \in Issues \ {f} : kept'[g] = kept[g] /\ place'[g] = place[g]
    BY <1>1, <1>3, <1>4
<1>6. about' \in [Issues -> Seq(Line)] /\ \A g \in Issues : about'[g] = <<>> \/ about'[g] = about[g]
    <2>1. <<>> \in Seq(Line)
        OBVIOUS
    <2>2. QED
        BY <2>1, <1>2, <1>4
<1>7. active' \subseteq Issues /\ over' \in BOOLEAN
    BY <1>2, <1>4
<1>8. FixTypes' /\ NoneShownWhileReviewed'
    <2>1. FixTypes'
        BY <1>1, <1>5, <1>6, <1>7 DEF Positions, FixTypes
    <2>2. NoneShownWhileReviewed'
        BY <1>1, <1>2 DEF NoneShownWhileReviewed
    <2>3. QED
        BY <2>1, <2>2
<1>9. ASSUME NEW g \in Issues, NEW s, Located(g, s)
      PROVE  about'[g] = <<>> \/ (Within(s, text') /\ LinesAt(text', s) = about'[g])
    BY <1>1, <1>6, <1>9 DEF Located
<1>10. ShownAreLocated'
    <2> SUFFICES ASSUME NEW g \in active'
                 PROVE  Located(g, place[g])'
        BY DEF ShownAreLocated
    <2>1. active' = listed /\ g \in Issues
        BY <1>2, <1>7
    <2>2. CASE g = f
        BY <2>1, <2>2, <1>3, <1>5, <1>9 DEF Located
    <2>3. CASE g # f
        <3>1. g \in active /\ Located(g, place[g]) /\ place'[g] = place[g]
            BY <2>1, <2>3, <1>5 DEF Positions, ShownAreLocated
        <3>2. QED
            BY <3>1, <2>1, <1>9 DEF Located
    <2>4. QED
        BY <2>2, <2>3
<1>11. DecidedAreLocated'
    <2> SUFFICES ASSUME NEW g \in Issues \ active', kept'[g] # Nowhere
                 PROVE  Located(g, kept[g])'
        BY DEF DecidedAreLocated
    <2>1. CASE g = f
        BY <2>1, <1>3, <1>5, <1>9 DEF Located
    <2>2. CASE g # f /\ g \notin active
        <3>1. kept'[g] = kept[g] /\ Located(g, kept[g])
            BY <2>2, <1>5 DEF Positions, DecidedAreLocated
        <3>2. QED
            BY <3>1, <1>9 DEF Located
    <2>3. CASE g # f /\ g \in active
        <3>1. about' = [h \in Issues |-> IF Stale(h) /\ h # f THEN <<>> ELSE about[h]]
            BY <2>3, <1>2
        <3>2. CASE Stale(g)
            BY <3>1, <3>2, <2>3 DEF Located
        <3>3. CASE ~Stale(g)
            <4>1. kept'[g] = place[g] /\ Located(g, place[g])
                BY <3>3, <2>3, <1>5 DEF Stale, Positions, ShownAreLocated
            <4>2. QED
                BY <4>1, <1>9 DEF Located
        <3>4. QED
            BY <3>2, <3>3
    <2>4. QED
        BY <2>1, <2>2, <2>3
<1>12. PlacesAreProper'
    <2>1. ASSUME NEW g \in active' PROVE Proper(place'[g])
        <3>1. active' = listed /\ g \in Issues
            BY <1>2, <1>7, <2>1
        <3>2. g = f => deferred
            BY <3>1
        <3>3. QED
            BY <3>1, <3>2, <1>3, <1>5 DEF Positions, PlacesAreProper
    <2>2. ASSUME NEW g \in Issues, kept'[g] # Nowhere PROVE Proper(kept'[g])
        BY <2>2, <1>3, <1>5 DEF Positions, PlacesAreProper
    <2>3. QED
        BY <2>1, <2>2, <1>1 DEF Positions, PlacesAreProper
<1>13. QED
    BY <1>1, <1>8, <1>10, <1>11, <1>12, FileStays DEF Positions

LEMMA ReopenKeeps ==
    ASSUME Positions, NEW f \in Issues, Reopen(f)
    PROVE  Positions'
<1>1. /\ Known(f) /\ over /\ active' = active \cup {f}
      /\ place' = [place EXCEPT ![f] = PlaceOf(f)]
      /\ UNCHANGED <<text, over, kept, ranges, revisions, preview, about, changed>>
    BY DEF Reopen, Known
<1>2. PlaceOf(f) \in Places /\ Located(f, PlaceOf(f)) /\ Proper(PlaceOf(f))
    BY <1>1, KnownIsLocated
<1>3. active \subseteq Issues /\ place \in [Issues -> Places]
    BY DEF Positions, FixTypes
<1>4. /\ place' \in [Issues -> Places] /\ place'[f] = PlaceOf(f)
      /\ \A g \in Issues \ {f} : place'[g] = place[g]
    BY <1>1, <1>2, <1>3
<1>5. FixTypes' /\ NoneShownWhileReviewed'
    BY <1>1, <1>4 DEF Positions, FixTypes, NoneShownWhileReviewed
<1>6. ShownAreLocated'
    <2> SUFFICES ASSUME NEW g \in active'
                 PROVE  Located(g, place[g])'
        BY DEF ShownAreLocated
    <2>1. Located(g, place'[g])
        <3>1. CASE g = f
            BY <3>1, <1>2, <1>4
        <3>2. CASE g # f
            BY <3>2, <1>1, <1>3, <1>4 DEF Positions, ShownAreLocated
        <3>3. QED
            BY <3>1, <3>2
    <2>2. QED
        BY <2>1, <1>1 DEF Located
<1>7. DecidedAreLocated'
    BY <1>1 DEF Positions, DecidedAreLocated, Located
<1>8. PlacesAreProper'
    <2>1. ASSUME NEW g \in active' PROVE Proper(place'[g])
        BY <2>1, <1>1, <1>2, <1>3, <1>4 DEF Positions, PlacesAreProper
    <2>2. QED
        BY <2>1, <1>1 DEF Positions, PlacesAreProper
<1>9. QED
    BY <1>1, <1>5, <1>6, <1>7, <1>8, FileStays DEF Positions

LEMMA ReportAgainKeeps ==
    ASSUME Positions, ReportAgain
    PROVE  Positions'
<1>0. PICK fs \in SUBSET (Issues \ (decided \cup pending)) : \E p \in [fs -> ProperSpans(text)] :
         /\ active' = fs
         /\ place' = [f \in Issues |-> IF f \in fs THEN p[f] ELSE Nowhere]
         /\ about' = [f \in Issues |-> IF f \in fs THEN LinesAt(text, p[f]) ELSE about[f]]
         /\ kept' = [f \in Issues |-> IF f \in fs THEN Nowhere ELSE kept[f]]
    BY DEF ReportAgain
<1>1. PICK p \in [fs -> ProperSpans(text)] :
         /\ active' = fs
         /\ place' = [f \in Issues |-> IF f \in fs THEN p[f] ELSE Nowhere]
         /\ about' = [f \in Issues |-> IF f \in fs THEN LinesAt(text, p[f]) ELSE about[f]]
         /\ kept' = [f \in Issues |-> IF f \in fs THEN Nowhere ELSE kept[f]]
    BY <1>0
<1>2. /\ ~over /\ over' = TRUE /\ UNCHANGED <<text, ranges, revisions, preview, changed>>
      /\ active = {} /\ text \in Seq(Line)
    BY DEF ReportAgain, Positions, FixTypes, NoneShownWhileReviewed
<1>3. ASSUME NEW f \in fs
      PROVE  /\ p[f] \in Places /\ Within(p[f], text) /\ LinesAt(text, p[f]) \in Seq(Line)
             /\ Proper(p[f])
    <2>1. p[f] \in ProperSpans(text)
        BY <1>1
    <2>2. p[f] \in Places /\ Within(p[f], text) /\ Proper(p[f])
        BY <2>1, <1>2, SpanFacts
    <2>3. p[f].first \in Int /\ p[f].last \in Int /\ 1 <= p[f].first /\ p[f].last <= Len(text)
        BY <2>2 DEF Places, Within
    <2>4. QED
        BY <2>2, <2>3, <1>2, SubSeqOfSeq DEF LinesAt
<1>4. Nowhere \in Places
    BY DEF Nowhere, Places
<1>5. /\ active' \subseteq Issues /\ place' \in [Issues -> Places] /\ kept' \in [Issues -> Places]
      /\ about' \in [Issues -> Seq(Line)]
    <2>1. kept \in [Issues -> Places] /\ about \in [Issues -> Seq(Line)]
        BY DEF Positions, FixTypes
    <2>2. kept' \in [Issues -> Places]
        BY <2>1, <1>1, <1>4
    <2>3. place' \in [Issues -> Places]
        BY <1>1, <1>3, <1>4
    <2>4. about' \in [Issues -> Seq(Line)]
        BY <2>1, <1>1, <1>3
    <2>5. QED
        BY <2>2, <2>3, <2>4, <1>1
<1>6. FixTypes' /\ NoneShownWhileReviewed'
    BY <1>2, <1>5 DEF Positions, FixTypes, NoneShownWhileReviewed
<1>7. ShownAreLocated'
    <2> SUFFICES ASSUME NEW f \in active' PROVE Located(f, place[f])'
        BY DEF ShownAreLocated
    <2>1. f \in fs /\ f \in Issues
        BY <1>1
    <2>2. place'[f] = p[f] /\ about'[f] = LinesAt(text, p[f]) /\ text' = text
        BY <2>1, <1>1, <1>2
    <2>3. QED
        BY <2>1, <2>2, <1>3 DEF Located
<1>8. DecidedAreLocated'
    <2> SUFFICES ASSUME NEW f \in Issues \ active', kept'[f] # Nowhere PROVE Located(f, kept[f])'
        BY DEF DecidedAreLocated
    <2>1. kept'[f] = kept[f] /\ about'[f] = about[f] /\ text' = text
        BY <1>1, <1>2
    <2>2. Located(f, kept[f])
        BY <2>1, <1>2 DEF Positions, DecidedAreLocated
    <2>3. QED
        BY <2>1, <2>2 DEF Located
<1>9. PlacesAreProper'
    <2>1. ASSUME NEW f \in active' PROVE Proper(place'[f])
        <3>1. f \in fs /\ f \in Issues
            BY <2>1, <1>1
        <3>2. QED
            BY <3>1, <1>1, <1>3
    <2>2. ASSUME NEW f \in Issues, kept'[f] # Nowhere PROVE Proper(kept'[f])
        BY <2>2, <1>1 DEF Positions, PlacesAreProper
    <2>3. QED
        BY <2>1, <2>2, <1>2 DEF Positions, PlacesAreProper
<1>10. QED
    BY <1>2, <1>6, <1>7, <1>8, <1>9, FileStays DEF Positions

LEMMA UndoKeepsPositions ==
    ASSUME Positions, Undo
    PROVE  Positions'
<1>1. PICK k \in Undoable : UndoRevision(k)
    BY DEF Undo
<1>2. /\ over' = FALSE /\ active' = {} /\ about' = [f \in Issues |-> <<>>]
      /\ UNCHANGED <<place, kept, preview, changed>>
    BY DEF Undo, RestartReview
<1>3. /\ revisions \in Seq(Fix) /\ DOMAIN revisions = 1..Len(revisions) /\ k \in DOMAIN revisions
      /\ k \in 1..Len(revisions) /\ revisions[k] \in Fix
    BY <1>1, SeqFacts DEF Undoable, Positions, FixTypes
<1> DEFINE gone == [revisions[k] EXCEPT !.undone = TRUE]
<1>4. gone \in Fix /\ gone.before = revisions[k].before /\ gone.ranges = revisions[k].ranges
    BY <1>3 DEF Fix
<1>5. /\ revisions' = [revisions EXCEPT ![k] = gone]
      /\ text' = revisions[k].before /\ ranges' = revisions[k].ranges
    BY <1>1 DEF UndoRevision
<1> HIDE DEF gone
<1>6. /\ revisions' \in Seq(Fix) /\ Len(revisions') = Len(revisions)
      /\ \A j \in 1..Len(revisions) : revisions'[j] = IF j = k THEN gone ELSE revisions[j]
    BY <1>3, <1>4, <1>5, ExceptSeq
<1>7. /\ DOMAIN revisions' = DOMAIN revisions
      /\ \A j \in DOMAIN revisions :
            revisions'[j].before = revisions[j].before /\ revisions'[j].ranges = revisions[j].ranges
    BY <1>3, <1>4, <1>6, SeqFacts
<1>8. text' \in Seq(Line) /\ ranges' \subseteq Places
    BY <1>3, <1>5 DEF Fix
<1>9. FixTypes'
    <2>1. \A f \in Issues : <<>> \in Seq(Line)
        OBVIOUS
    <2>2. about' \in [Issues -> Seq(Line)]
        BY <2>1, <1>2
    <2>3. active' \subseteq Issues /\ over' \in BOOLEAN
        BY <1>2
    <2>4. QED
        BY <2>2, <2>3, <1>2, <1>6, <1>8 DEF Positions, FixTypes
<1>10. NoneShownWhileReviewed' /\ ShownAreLocated' /\ DecidedAreLocated'
    BY <1>2 DEF NoneShownWhileReviewed, ShownAreLocated, DecidedAreLocated, Located
<1>11. CandidatesReplace'
    BY <1>2 DEF Positions, CandidatesReplace, Replaces
<1>12. LinesAreNew'
    <2> SUFFICES ASSUME NEW c \in Candidates, preview'[c].at # "gone" PROVE NowhereElse(c)'
        BY DEF LinesAreNew
    <2>1. NowhereElse(c)
        BY <1>2 DEF Positions, LinesAreNew
    <2>2. Without(c, text')
        BY <2>1, <1>3, <1>5 DEF NowhereElse
    <2>3. \A i \in DOMAIN revisions' : Without(c, revisions'[i].before)
        BY <2>1, <1>7 DEF NowhereElse
    <2>4. QED
        BY <2>1, <2>2, <2>3, <1>2 DEF NowhereElse, Without
<1>13. RangesHold'
    <2>1. Holds(ranges', text')
        BY <1>3, <1>5 DEF Positions, RangesHold
    <2>2. \A i \in DOMAIN revisions' : Holds(revisions'[i].ranges, revisions'[i].before)
        BY <1>7 DEF Positions, RangesHold
    <2>3. QED
        BY <2>1, <2>2, <1>2 DEF RangesHold, Holds
<1>14. PlacesAreProper'
    BY <1>2 DEF Positions, PlacesAreProper
<1>15. QED
    BY <1>9, <1>10, <1>11, <1>12, <1>13, <1>14 DEF Positions

-----------------------------------------------------------------------------
(* A fix is confirmed.                                                      *)

Ready(c) == Positions /\ preview[c].at = "ready" /\ text = preview[c].base

\* The new text, line by line: E is where its new lines begin.
LEMMA ReadyFacts ==
    ASSUME NEW c \in Candidates, Ready(c)
    PROVE  LET s == preview[c].span
               t == preview[c].text
               n == preview[c].added
               d == Delta(c)
               E == Clipped(text, s).first
           IN /\ t \in Seq(Line) /\ text \in Seq(Line) /\ s \in Places
              /\ d \in Int /\ n \in Nat /\ d = n - (s.last - s.first + 1)
              /\ s.first \in Int /\ s.last \in Int /\ 1 <= s.first /\ s.first <= s.last
              /\ E = IF s.first <= Len(text) THEN s.first ELSE Len(text) + 1
              /\ preview[c].structured => s.last <= Len(text) /\ d = 0 /\ Len(text) <= Len(t)
              /\ ~preview[c].structured =>
                    /\ Len(t) = IF s.last <= Len(text) THEN Len(text) + d ELSE E - 1 + n
                    /\ \A i \in 1..(E - 1) : t[i] = text[i]
                    /\ \A i \in E..(E + n - 1) : t[i] = <<c, i - E + 1>>
                    /\ s.last <= Len(text) =>
                          \A i \in (s.last + d + 1)..Len(t) : t[i] = text[i - d]
<1> DEFINE s == preview[c].span
           t == preview[c].text
           n == preview[c].added
           d == Delta(c)
           e == Clipped(text, s)
           mid == NewLines(c, n)
<1>1. /\ t \in Seq(Line) /\ text \in Seq(Line) /\ s \in Places /\ Proper(s) /\ n \in Nat
      /\ ~preview[c].structured => t = Spliced(text, e, mid)
      /\ preview[c].structured =>
            Within(s, text) /\ n = s.last - s.first + 1 /\ Len(text) <= Len(t)
    BY PreviewFacts DEF Ready, Replaces
<1>2. /\ s.first \in Int /\ s.last \in Int /\ 1 <= s.first /\ s.first <= s.last
      /\ Len(text) \in Nat
    BY <1>1, SeqFacts DEF Places, Proper
<1>3. d = n - (s.last - s.first + 1) /\ d \in Int
    BY <1>1, <1>2 DEF Delta
<1>4. /\ mid \in Seq(Line) /\ Len(mid) = n /\ \A i \in 1..n : mid[i] = <<c, i>>
    BY <1>1, NewLinesFacts
<1>5. /\ e \in Places /\ Fits(e, text)
      /\ e.first = IF s.first <= Len(text) THEN s.first ELSE Len(text) + 1
      /\ e.last = IF s.last <= Len(text) THEN s.last ELSE Len(text)
    BY <1>1, ClippedFacts
<1>6. e.first \in Int /\ e.last \in Int
    BY <1>5 DEF Places
<1>7. preview[c].structured => s.last <= Len(text) /\ d = 0 /\ Len(text) <= Len(t)
    <2>1. preview[c].structured => Within(s, text) /\ n = s.last - s.first + 1 /\ Len(text) <= Len(t)
        BY <1>1
    <2> HIDE DEF s, t, n, d, e, mid
    <2>2. preview[c].structured => s.last <= Len(text)
        BY <2>1 DEF Within
    <2>3. QED
        BY <2>1, <2>2, <1>2, <1>3
<1> DEFINE D == n - (e.last - e.first + 1)
<1> HIDE DEF s, t, n, d, e, mid
<1>8. D \in Int /\ Len(mid) = D + (e.last - e.first + 1)
    BY <1>1, <1>4, <1>6
<1>9. s.last <= Len(text) => D = d
    BY <1>2, <1>3, <1>5
<1>10. s.last > Len(text) => Len(text) + D = e.first - 1 + n
    BY <1>1, <1>2, <1>5, <1>6
<1>11. s.last <= Len(text) => e.last = s.last
    BY <1>5
<1> HIDE DEF D
<1>12. ASSUME ~preview[c].structured
       PROVE  /\ Len(t) = Len(text) + D
              /\ \A i \in 1..(e.first - 1) : t[i] = text[i]
              /\ \A i \in e.first..(e.first + Len(mid) - 1) : t[i] = mid[i - e.first + 1]
              /\ \A i \in (e.last + D + 1)..Len(t) : t[i] = text[i - D]
    <2>1. t = Spliced(text, e, mid)
        BY <1>1, <1>12
    <2>2. text \in Seq(Line) /\ mid \in Seq(Line) /\ e \in Places /\ Fits(e, text)
        BY <1>1, <1>4, <1>5
    <2>3. QED
        BY <2>1, <2>2, <1>8, SplicedLines
<1>13. ASSUME NEW i \in e.first..(e.first + n - 1) PROVE mid[i - e.first + 1] = <<c, i - e.first + 1>>
    <2>1. i - e.first + 1 \in 1..n
        BY <1>1, <1>6
    <2>2. QED
        BY <2>1, <1>4
<1>14. ASSUME ~preview[c].structured
       PROVE  /\ Len(t) = IF s.last <= Len(text) THEN Len(text) + d ELSE e.first - 1 + n
              /\ \A i \in 1..(e.first - 1) : t[i] = text[i]
              /\ \A i \in e.first..(e.first + n - 1) : t[i] = <<c, i - e.first + 1>>
              /\ s.last <= Len(text) =>
                    \A i \in (s.last + d + 1)..Len(t) : t[i] = text[i - d]
    <2>1. Len(t) = IF s.last <= Len(text) THEN Len(text) + d ELSE e.first - 1 + n
        <3>1. Len(t) = Len(text) + D
            BY <1>12, <1>14
        <3>2. s.last <= Len(text) \/ s.last > Len(text)
            BY <1>2
        <3>3. QED
            BY <3>1, <3>2, <1>9, <1>10
    <2>2. \A i \in 1..(e.first - 1) : t[i] = text[i]
        BY <1>12, <1>14
    <2>3. \A i \in e.first..(e.first + n - 1) : t[i] = <<c, i - e.first + 1>>
        BY <1>12, <1>13, <1>14, <1>4
    <2>4. ASSUME s.last <= Len(text) PROVE \A i \in (s.last + d + 1)..Len(t) : t[i] = text[i - d]
        <3>1. e.last = s.last /\ D = d
            BY <2>4, <1>9, <1>11
        <3>2. QED
            BY <3>1, <1>12, <1>14
    <2>5. QED
        BY <2>1, <2>2, <2>3, <2>4
<1>15. QED
    BY <1>1, <1>2, <1>3, <1>5, <1>7, <1>14 DEF s, t, n, d, e

\* A place P..Q below a span F..L that grows by d, in a text of N lines, then M.
LEMMA PlaceBelow ==
    ASSUME NEW F \in Int, NEW L \in Int, NEW P \in Int, NEW Q \in Int, NEW N \in Int, NEW M \in Int,
           NEW d \in Int, 1 <= F, F - 1 <= L + d, L < P, P <= Q, Q <= N, M = N + d
    PROVE  /\ 1 <= P + d /\ P + d <= Q + d /\ Q + d <= M
           /\ (Q + d) - (P + d) = Q - P /\ (P + d) - P = d
           /\ \A i \in P..Q : i + d \in (L + d + 1)..M /\ (i + d) - d = i
<1>1. 1 <= P + d
    OBVIOUS
<1>2. P + d <= Q + d /\ Q + d <= M
    OBVIOUS
<1>3. (Q + d) - (P + d) = Q - P /\ (P + d) - P = d
    OBVIOUS
<1>4. \A i \in P..Q : i + d \in (L + d + 1)..M /\ (i + d) - d = i
    OBVIOUS
<1>5. QED
    BY <1>1, <1>2, <1>3, <1>4

\* A place that does not overlap the span holds the same lines where it is moved.
LEMMA MovedLines ==
    ASSUME NEW c \in Candidates, Ready(c), ~preview[c].structured,
           NEW f \in Issues, Within(place[f], text), ~Overlap(place[f], preview[c].span)
    PROVE  /\ Within(Moved(c, f), preview[c].text)
           /\ LinesAt(preview[c].text, Moved(c, f)) = LinesAt(text, place[f])
<1> DEFINE s == preview[c].span
           t == preview[c].text
           n == preview[c].added
           d == Delta(c)
           E == Clipped(text, s).first
           p == place[f]
           q == Moved(c, f)
<1>1. /\ t \in Seq(Line) /\ text \in Seq(Line)
      /\ d \in Int /\ n \in Nat /\ d = n - (s.last - s.first + 1)
      /\ s.first \in Int /\ s.last \in Int /\ 1 <= s.first /\ s.first <= s.last
      /\ E = IF s.first <= Len(text) THEN s.first ELSE Len(text) + 1
      /\ Len(t) = IF s.last <= Len(text) THEN Len(text) + d ELSE E - 1 + n
      /\ \A i \in 1..(E - 1) : t[i] = text[i]
      /\ s.last <= Len(text) => \A i \in (s.last + d + 1)..Len(t) : t[i] = text[i - d]
    BY ReadyFacts
<1>2. /\ p \in Places /\ p.first \in Int /\ p.last \in Int
      /\ 1 <= p.first /\ p.first <= p.last /\ p.last <= Len(text) /\ Len(text) \in Nat
    BY <1>1, SeqFacts DEF Ready, Positions, FixTypes, Places, Within
<1>3. \/ p.first > s.last /\ q = Shift(p, d)
      \/ p.last < s.first /\ q = p
    <2>1. CASE p.first > s.last
        BY <2>1 DEF Moved
    <2>2. CASE ~(p.first > s.last)
        <3>1. p.last < s.first
            BY <2>2, <1>1, <1>2 DEF Overlap
        <3>2. QED
            BY <2>2, <3>1 DEF Moved
    <2>3. QED
        BY <2>1, <2>2
<1> HIDE DEF s, t, n, d, E, p, q
<1>4. CASE p.first > s.last /\ q = Shift(p, d)
    <2>a. s.last <= Len(text)
        BY ONLY <1>1, <1>2, <1>4
    <2>b. /\ Len(t) = Len(text) + d
          /\ \A i \in (s.last + d + 1)..Len(t) : t[i] = text[i - d]
        BY <2>a, <1>1
    <2>0. /\ d \in Int /\ n \in Nat /\ d = n - (s.last - s.first + 1)
          /\ s.first \in Int /\ s.last \in Int /\ 1 <= s.first /\ s.first <= s.last
          /\ p.first \in Int /\ p.last \in Int /\ p.first > s.last /\ p.first <= p.last /\ p.last <= Len(text)
          /\ Len(text) \in Int /\ Len(t) = Len(text) + d
        <3>1. /\ d \in Int /\ n \in Nat /\ d = n - (s.last - s.first + 1)
              /\ s.first \in Int /\ s.last \in Int /\ 1 <= s.first /\ s.first <= s.last
            BY <1>1
        <3>2. Len(t) = Len(text) + d
            BY <2>b
        <3>3. /\ p.first \in Int /\ p.last \in Int /\ p.first > s.last /\ p.first <= p.last
              /\ p.last <= Len(text) /\ Len(text) \in Int
            BY <1>2, <1>4
        <3>4. QED
            BY <3>1, <3>2, <3>3
    <2>1. q \in Places /\ q.first = p.first + d /\ q.last = p.last + d
        <3>1. p.first + d \in Int /\ p.last + d \in Int
            BY ONLY <2>0
        <3>2. q = [first |-> p.first + d, last |-> p.last + d]
            BY <1>4 DEF Shift
        <3>3. QED
            BY <3>1, <3>2 DEF Places
    <2>2. /\ 1 <= p.first + d /\ p.first + d <= p.last + d /\ p.last + d <= Len(t)
          /\ (p.last + d) - (p.first + d) = p.last - p.first /\ (p.first + d) - p.first = d
          /\ \A i \in p.first..p.last : i + d \in (s.last + d + 1)..Len(t) /\ (i + d) - d = i
        <3>1. s.last < p.first /\ Len(t) \in Int
            BY <2>0
        <3>2. s.first - 1 <= s.last + d
            BY ONLY <2>0
        <3> DEFINE F == s.first
                   L == s.last
                   P == p.first
                   Q == p.last
                   N == Len(text)
                   M == Len(t)
        <3>3. /\ F \in Int /\ L \in Int /\ P \in Int /\ Q \in Int /\ N \in Int /\ M \in Int /\ d \in Int
              /\ 1 <= F /\ F - 1 <= L + d /\ L < P /\ P <= Q /\ Q <= N /\ M = N + d
            BY <2>0, <3>1, <3>2
        <3> HIDE DEF F, L, P, Q, N, M
        <3>4. /\ 1 <= P + d /\ P + d <= Q + d /\ Q + d <= M
              /\ (Q + d) - (P + d) = Q - P /\ (P + d) - P = d
              /\ \A i \in P..Q : i + d \in (L + d + 1)..M /\ (i + d) - d = i
            BY <3>3, PlaceBelow
        <3>5. QED
            BY <3>4 DEF F, L, P, Q, N, M
    <2>3. Within(q, t) /\ Within(p, text) /\ q.last - q.first = p.last - p.first /\ q.first - p.first = d
        BY <2>1, <2>2, <1>2 DEF Within
    <2>4. ASSUME NEW i \in p.first..p.last PROVE t[i + d] = text[i]
        <3>1. i + d \in (s.last + d + 1)..Len(t) /\ (i + d) - d = i
            BY <2>2
        <3>2. QED
            BY <3>1, <2>b
    <2>5. \A i \in p.first..p.last : t[i + (q.first - p.first)] = text[i]
        BY <2>3, <2>4
    <2>6. LinesAt(t, q) = LinesAt(text, p)
        BY <2>1, <2>3, <2>5, <1>1, <1>2, SameLines
    <2>7. QED
        BY <2>3, <2>6 DEF t, q, p
<1>5. CASE p.last < s.first /\ q = p
    <2>0. p.last <= E - 1 /\ E \in Int
        BY ONLY <1>1, <1>2, <1>5
    <2>1. Len(t) >= E - 1
        BY ONLY <1>1, <1>2, <2>0
    <2>2. p.last <= Len(t)
        BY <2>0, <2>1, <1>1, <1>2, SeqFacts
    <2>3. Within(q, t) /\ Within(p, text) /\ q.last - q.first = p.last - p.first /\ q.first - p.first = 0
        BY <2>2, <1>2, <1>5 DEF Within
    <2>4. ASSUME NEW i \in p.first..p.last PROVE t[i + 0] = text[i]
        <3>1. i \in 1..(E - 1) /\ i + 0 = i
            BY <2>0, <1>2
        <3>2. QED
            BY <3>1, <1>1
    <2>5. \A i \in p.first..p.last : t[i + (q.first - p.first)] = text[i]
        BY <2>3, <2>4
    <2>6. LinesAt(t, q) = LinesAt(text, p)
        BY <2>3, <2>5, <1>1, <1>2, <1>5, SameLines
    <2>7. QED
        BY <2>3, <2>6 DEF t, q, p
<1>6. QED
    BY <1>3, <1>4, <1>5

\* Where a range goes.
LEMMA RangeMovedCases ==
    ASSUME NEW c \in Candidates, Ready(c), NEW r \in ranges
    PROVE  LET s == preview[c].span
               m == RangeMoved(c, r)
               d == Delta(c)
           IN /\ m \in Places /\ r \in Places
              /\ \/ r.last < s.first /\ m = r
                 \/ r.first > s.last /\ m.first = r.first + d /\ m.last = r.last + d
                 \/ /\ Overlap(r, s)
                    /\ m.first <= r.first /\ m.first <= s.first
                    /\ m.last >= r.last + d /\ m.last >= s.first + preview[c].added - 1 /\ m.last >= s.first
<1> DEFINE s == preview[c].span
           d == Delta(c)
           n == preview[c].added
           end == s.first + (IF n = 0 THEN 1 ELSE n) - 1
           lo == IF r.first < s.first THEN r.first ELSE s.first
           hi == IF end > r.last + d THEN end ELSE r.last + d
<1>1. /\ r \in Places /\ r.first \in Int /\ r.last \in Int
      /\ s.first \in Int /\ s.last \in Int /\ d \in Int /\ n \in Nat
    BY ReadyFacts DEF Ready, Positions, FixTypes, Places
<1>2. /\ end \in Int /\ lo \in Int /\ hi \in Int /\ end >= s.first /\ end >= s.first + n - 1
      /\ lo <= r.first /\ lo <= s.first /\ hi >= end /\ hi >= r.last + d
    BY <1>1
<1>3. RangeMoved(c, r) = CASE r.last < s.first -> r
                           [] r.first > s.last -> Shift(r, d)
                           [] OTHER -> [first |-> lo, last |-> hi]
    BY DEF RangeMoved
<1> HIDE DEF s, d, n, end, lo, hi
<1>4. \/ r.last < s.first /\ RangeMoved(c, r) = r
      \/ r.first > s.last /\ RangeMoved(c, r) = Shift(r, d)
      \/ ~(r.last < s.first) /\ ~(r.first > s.last) /\ RangeMoved(c, r) = [first |-> lo, last |-> hi]
    BY <1>3
<1>5. CASE r.last < s.first /\ RangeMoved(c, r) = r
    BY <1>1, <1>5 DEF s
<1>6. CASE r.first > s.last /\ RangeMoved(c, r) = Shift(r, d)
    <2>1. RangeMoved(c, r) \in Places /\ RangeMoved(c, r).first = r.first + d /\ RangeMoved(c, r).last = r.last + d
        BY <1>1, <1>6 DEF Shift, Places
    <2>2. QED
        BY <2>1, <1>1, <1>6 DEF s, d
<1>7. CASE ~(r.last < s.first) /\ ~(r.first > s.last) /\ RangeMoved(c, r) = [first |-> lo, last |-> hi]
    <2>1. RangeMoved(c, r) \in Places /\ RangeMoved(c, r).first = lo /\ RangeMoved(c, r).last = hi
        BY <1>2, <1>7 DEF Places
    <2>2. Overlap(r, s)
        BY <1>1, <1>7 DEF Overlap
    <2>3. hi >= s.first + n - 1 /\ hi >= s.first
        BY ONLY <1>1, <1>2
    <2>4. QED
        BY <2>1, <2>2, <2>3, <1>1, <1>2 DEF s, d, n
<1>8. QED
    BY <1>4, <1>5, <1>6, <1>7

LEMMA ApplyRevisions ==
    ASSUME NEW c \in Candidates, Ready(c), Apply(c)
    PROVE  /\ revisions' \in Seq(Fix)
           /\ \A i \in DOMAIN revisions' :
                 \/ revisions'[i].before = text /\ revisions'[i].ranges = ranges
                 \/ \E j \in DOMAIN revisions : revisions'[i] = revisions[j]
<1> DEFINE new == [of |-> preview[c].of, before |-> text, after |-> preview[c].text,
                   ranges |-> ranges, undone |-> FALSE]
<1>1. new \in Fix /\ new.before = text /\ new.ranges = ranges
    BY ReadyFacts, PreviewFacts DEF Ready, Positions, FixTypes, Fix
<1>2. revisions' = Latest(Append(revisions, new), MaxRevisions)
    BY DEF Apply
<1> HIDE DEF new
<1> DEFINE all == Append(revisions, new)
<1>3. /\ revisions \in Seq(Fix) /\ Len(revisions) \in Nat /\ DOMAIN revisions = 1..Len(revisions)
      /\ all \in Seq(Fix) /\ Len(all) = Len(revisions) + 1
      /\ \A i \in 1..Len(revisions) : all[i] = revisions[i]
      /\ all[Len(revisions) + 1] = new
    <2>1. revisions \in Seq(Fix)
        BY DEF Ready, Positions, FixTypes
    <2>2. QED
        BY <2>1, <1>1, AppendProperties, SeqFacts
<1> HIDE DEF all
<1> DEFINE d == IF Len(all) > MaxRevisions THEN Len(all) - MaxRevisions ELSE 0
<1>4. /\ revisions' \in Seq(Fix) /\ Len(revisions') = Len(all) - d
      /\ \A i \in 1..Len(revisions') : revisions'[i] = all[i + d]
    <2>1. MaxRevisions \in Nat \ {0} /\ revisions' = Latest(all, MaxRevisions)
        BY <1>2, FixAssumption DEF all
    <2>2. QED
        BY <2>1, <1>3, LatestProperties
<1>5. d \in Nat /\ d <= Len(all) /\ DOMAIN revisions' = 1..Len(revisions')
    <2>1. MaxRevisions \in Nat /\ Len(all) \in Nat
        BY <1>3, FixAssumption
    <2>2. d \in Nat /\ d <= Len(all)
        BY <2>1
    <2>3. QED
        BY <2>2, <1>4, SeqFacts
<1> HIDE DEF d
<1>6. ASSUME NEW i \in DOMAIN revisions'
      PROVE  \/ revisions'[i].before = text /\ revisions'[i].ranges = ranges
             \/ \E j \in DOMAIN revisions : revisions'[i] = revisions[j]
    <2>1. i \in Int /\ 1 <= i /\ i <= Len(all) - d
        BY <1>3, <1>4, <1>5
    <2>2. revisions'[i] = all[i + d]
        BY <1>4, <1>5
    <2>3. i + d \in 1..Len(revisions) \/ i + d = Len(revisions) + 1
        BY <2>1, <1>3, <1>5
    <2>4. CASE i + d \in 1..Len(revisions)
        BY <2>2, <2>4, <1>3
    <2>5. CASE i + d = Len(revisions) + 1
        BY <2>2, <2>5, <1>1, <1>3
    <2>6. QED
        BY <2>3, <2>4, <2>5
<1>7. QED
    BY <1>4, <1>6

LEMMA ApplyChanged ==
    ASSUME NEW c \in Candidates, Ready(c), Apply(c)
    PROVE  /\ changed' \subseteq Line
           /\ \A l \in changed' : l \in changed \/ l[1] = c
           /\ preview[c].structured => changed' = {}
           /\ \A l \in changed' \ changed : \E r \in ranges : Overlap(r, preview[c].span)
<1> DEFINE new == Members(NewLines(c, preview[c].added))
<1>1. changed \subseteq Line /\ \A l \in new : l[1] = c /\ l \in Line
    BY ReadyFacts, NewLinesFacts DEF Ready, Positions, FixTypes
<1>2. changed' = IF preview[c].structured THEN {}
                 ELSE IF \E r \in ranges : Overlap(r, preview[c].span) THEN changed \cup new ELSE changed
    BY DEF Apply
<1> HIDE DEF new
<1>3. QED
    BY <1>1, <1>2

\* A range begins no further than behind the last line, and not behind its end.
LEMMA RangeFits ==
    ASSUME NEW c \in Candidates, Ready(c), NEW r \in ranges
    PROVE  /\ RangeMoved(c, r).first <= RangeMoved(c, r).last
           /\ RangeMoved(c, r).first <= Len(preview[c].text) + 1
<1> DEFINE s == preview[c].span
           t == preview[c].text
           n == preview[c].added
           d == Delta(c)
           m == RangeMoved(c, r)
           E == Clipped(text, s).first
           N == Len(text)
           T == Len(t)
           F == s.first
           L == s.last
           rf == r.first
           rl == r.last
           mf == m.first
           ml == m.last
<1>1. /\ N \in Nat /\ T \in Nat /\ n \in Nat /\ d \in Int /\ d = n - (L - F + 1)
      /\ F \in Int /\ L \in Int /\ 1 <= F /\ F <= L
      /\ E = IF F <= N THEN F ELSE N + 1
      /\ preview[c].structured => L <= N /\ d = 0 /\ N <= T
      /\ ~preview[c].structured => T = IF L <= N THEN N + d ELSE E - 1 + n
    BY ReadyFacts, SeqFacts
<1>2. /\ rf \in Int /\ rl \in Int /\ mf \in Int /\ ml \in Int
      /\ \/ rl < F /\ mf = rf /\ ml = rl
         \/ rf > L /\ mf = rf + d /\ ml = rl + d
         \/ rf <= L /\ F <= rl /\ mf <= rf /\ mf <= F /\ ml >= rl + d /\ ml >= F + n - 1 /\ ml >= F
    BY RangeMovedCases DEF Places, Overlap
<1>3. rf <= rl /\ rf <= N + 1
    BY DEF Ready, Positions, RangesHold, Holds
<1>4. preview[c].structured \/ ~preview[c].structured
    OBVIOUS
<1> HIDE DEF s, t, n, d, m, E, N, T, F, L, rf, rl, mf, ml
<1>5. mf <= ml
    BY ONLY <1>1, <1>2, <1>3
<1>6. mf <= T + 1
    <2>1. CASE preview[c].structured
        <3>1. L <= N /\ d = 0 /\ N <= T
            BY <2>1, <1>1
        <3>2. QED
            BY ONLY <3>1, <1>1, <1>2, <1>3
    <2>2. CASE ~preview[c].structured
        <3>1. T = IF L <= N THEN N + d ELSE E - 1 + n
            BY <2>2, <1>1
        <3>2. T >= E - 1
            BY ONLY <3>1, <1>1
        <3>3. CASE rl < F /\ mf = rf
            BY ONLY <3>2, <3>3, <1>1, <1>2, <1>3
        <3>4. CASE rf > L /\ mf = rf + d
            BY ONLY <3>1, <3>4, <1>1, <1>2, <1>3
        <3>5. CASE mf <= rf /\ mf <= F
            BY ONLY <3>2, <3>5, <1>1, <1>2, <1>3
        <3>6. QED
            BY <3>3, <3>4, <3>5, <1>2
    <2>3. QED
        BY <2>1, <2>2
<1>7. QED
    BY <1>5, <1>6 DEF mf, ml, m, T, t

\* A line of the change is either one of the candidate, in the span and in a range that
\* overlaps it, or one that a range held before and holds where it is moved.
LEMMA ApplyRange ==
    ASSUME NEW c \in Candidates, Ready(c), Apply(c)
    PROVE  Holds(ranges, text)'
<1> DEFINE s == preview[c].span
           t == preview[c].text
           n == preview[c].added
           d == Delta(c)
           E == Clipped(text, s).first
<1>0. ranges' = {RangeMoved(c, r) : r \in ranges} /\ text' = t
    BY DEF Apply
<1>a. \A m \in ranges' : m.first <= m.last /\ m.first <= Len(text') + 1
    BY <1>0, RangeFits
<1> SUFFICES ASSUME NEW i \in DOMAIN t, t[i] \in changed'
             PROVE  \E m \in ranges' : m.first <= i /\ i <= m.last
    BY <1>0, <1>a DEF Holds
<1>1. ~preview[c].structured
    BY ApplyChanged
<1>2. /\ t \in Seq(Line) /\ text \in Seq(Line)
      /\ d \in Int /\ n \in Nat /\ d = n - (s.last - s.first + 1)
      /\ s.first \in Int /\ s.last \in Int /\ 1 <= s.first /\ s.first <= s.last
      /\ E = IF s.first <= Len(text) THEN s.first ELSE Len(text) + 1
      /\ Len(t) = IF s.last <= Len(text) THEN Len(text) + d ELSE E - 1 + n
      /\ \A j \in 1..(E - 1) : t[j] = text[j]
      /\ \A j \in E..(E + n - 1) : t[j] = <<c, j - E + 1>>
      /\ s.last <= Len(text) => \A j \in (s.last + d + 1)..Len(t) : t[j] = text[j - d]
    BY <1>1, ReadyFacts
<1>3. /\ NowhereElse(c) /\ Holds(ranges, text)
      /\ \A l \in changed' : l \in changed \/ l[1] = c
      /\ t[i] \notin changed => \E r \in ranges : Overlap(r, s)
    <2>1. NowhereElse(c) /\ Holds(ranges, text)
        BY PreviewFacts DEF Ready, Positions, RangesHold
    <2>2. QED
        BY <2>1, ApplyChanged
<1>4. /\ Len(text) \in Nat /\ DOMAIN text = 1..Len(text) /\ Len(t) \in Nat /\ DOMAIN t = 1..Len(t)
      /\ i \in Int /\ 1 <= i /\ i <= Len(t)
    BY <1>2, SeqFacts
<1> DEFINE F == s.first
           L == s.last
           N == Len(text)
           T == Len(t)
           Goal == \E m \in ranges' : m.first <= i /\ i <= m.last
<1>5. ASSUME NEW r \in ranges, RangeMoved(c, r).first <= i, i <= RangeMoved(c, r).last
      PROVE  Goal
    BY <1>0, <1>5
<1>6. ASSUME NEW r \in ranges
      PROVE  /\ r.first \in Int /\ r.last \in Int /\ r.first <= N + 1
             /\ RangeMoved(c, r).first \in Int /\ RangeMoved(c, r).last \in Int
             /\ \/ r.last < F /\ RangeMoved(c, r).first = r.first /\ RangeMoved(c, r).last = r.last
                \/ /\ r.first > L /\ RangeMoved(c, r).first = r.first + d
                   /\ RangeMoved(c, r).last = r.last + d
                \/ /\ r.first <= L /\ F <= r.last
                   /\ RangeMoved(c, r).first <= r.first /\ RangeMoved(c, r).first <= F
                   /\ RangeMoved(c, r).last >= r.last + d
                   /\ RangeMoved(c, r).last >= F + n - 1 /\ RangeMoved(c, r).last >= F
    <2>1. r.first <= N + 1
        BY <1>3 DEF Holds
    <2>2. QED
        BY <2>1, RangeMovedCases DEF Places, Overlap
<1>7. ASSUME NEW j \in DOMAIN text, t[i] = text[j]
      PROVE  \E r \in ranges : r.first <= j /\ j <= r.last
    <2>1. text[j][1] # c
        BY <1>3 DEF NowhereElse, Without
    <2>2. text[j] \in changed
        BY <2>1, <1>3, <1>7
    <2>3. QED
        BY <2>2, <1>3 DEF Holds
<1>8. /\ F \in Int /\ L \in Int /\ N \in Int /\ T \in Int /\ d \in Int /\ n \in Int /\ i \in Int
      /\ E \in Int /\ 0 <= n /\ 0 <= N /\ d = n - (L - F + 1) /\ 1 <= F /\ F <= L
      /\ E = (IF F <= N THEN F ELSE N + 1) /\ T = (IF L <= N THEN N + d ELSE E - 1 + n)
      /\ 1 <= i /\ i <= T
    BY <1>2, <1>4
<1>9. /\ \A j \in 1..(E - 1) : t[j] = text[j]
      /\ \A j \in E..(E + n - 1) : t[j] = <<c, j - E + 1>>
      /\ L <= N => \A j \in (L + d + 1)..T : t[j] = text[j - d]
      /\ DOMAIN text = 1..N
    BY <1>2, <1>4
<1>10. t[i] \notin changed => \E r \in ranges : r.first <= L /\ F <= r.last
    BY <1>3 DEF Overlap
<1> HIDE DEF s, t, n, d, E, F, L, N, T, Goal
<1>11. ASSUME i <= E - 1 PROVE Goal
    <2>1. i \in 1..(E - 1) /\ i \in 1..N
        BY ONLY <1>11, <1>8
    <2>2. PICK r \in ranges : r.first <= i /\ i <= r.last
        BY <2>1, <1>7, <1>9
    <2> DEFINE rf == r.first
               rl == r.last
               mf == RangeMoved(c, r).first
               ml == RangeMoved(c, r).last
    <2>3. /\ rf <= i /\ i <= rl /\ rf \in Int /\ rl \in Int /\ mf \in Int /\ ml \in Int
          /\ \/ rl < F /\ mf = rf /\ ml = rl
             \/ rf > L /\ mf = rf + d /\ ml = rl + d
             \/ /\ rf <= L /\ F <= rl /\ mf <= rf /\ mf <= F
                /\ ml >= rl + d /\ ml >= F + n - 1 /\ ml >= F
        BY <2>2, <1>6
    <2> HIDE DEF rf, rl, mf, ml
    <2>4. mf <= i /\ i <= ml
        BY ONLY <2>3, <1>11, <1>8
    <2>5. QED
        BY <2>4, <1>5 DEF mf, ml
<1>12. ASSUME E <= i /\ i <= E + n - 1 PROVE Goal
    <2>0. i \in E..(E + n - 1)
        BY ONLY <1>8, <1>12
    <2>1. t[i] = <<c, i - E + 1>>
        BY <2>0, <1>9
    <2>2. t[i][1] = c
        BY <2>1
    <2>3. t[i] \notin changed
        BY <2>2, <1>3 DEF NowhereElse
    <2>4. PICK r \in ranges : r.first <= L /\ F <= r.last
        BY <2>3, <1>10
    <2> DEFINE rf == r.first
               rl == r.last
               mf == RangeMoved(c, r).first
               ml == RangeMoved(c, r).last
    <2>5. /\ rf <= L /\ F <= rl /\ rf <= N + 1
          /\ rf \in Int /\ rl \in Int /\ mf \in Int /\ ml \in Int
          /\ \/ rl < F /\ mf = rf /\ ml = rl
             \/ rf > L /\ mf = rf + d /\ ml = rl + d
             \/ /\ rf <= L /\ F <= rl /\ mf <= rf /\ mf <= F
                /\ ml >= rl + d /\ ml >= F + n - 1 /\ ml >= F
        BY <2>4, <1>6
    <2> HIDE DEF rf, rl, mf, ml
    <2>6. mf <= i /\ i <= ml
        BY ONLY <2>5, <1>12, <1>8
    <2>7. QED
        BY <2>6, <1>5 DEF mf, ml
<1>13. ASSUME E + n - 1 < i PROVE Goal
    <2>0. L <= N
        BY ONLY <1>13, <1>8
    <2> DEFINE j == i - d
    <2>1. i \in (L + d + 1)..T /\ j \in 1..N /\ L < j /\ i = j + d /\ j \in Int
        BY ONLY <2>0, <1>8, <1>13
    <2>2. t[i] = text[j] /\ j \in DOMAIN text
        BY <2>0, <2>1, <1>9
    <2> HIDE DEF j
    <2>3. PICK r \in ranges : r.first <= j /\ j <= r.last
        BY <2>2, <1>7
    <2> DEFINE rf == r.first
               rl == r.last
               mf == RangeMoved(c, r).first
               ml == RangeMoved(c, r).last
    <2>4. /\ rf <= j /\ j <= rl /\ rf \in Int /\ rl \in Int /\ mf \in Int /\ ml \in Int
          /\ \/ rl < F /\ mf = rf /\ ml = rl
             \/ rf > L /\ mf = rf + d /\ ml = rl + d
             \/ /\ rf <= L /\ F <= rl /\ mf <= rf /\ mf <= F
                /\ ml >= rl + d /\ ml >= F + n - 1 /\ ml >= F
        BY <2>3, <1>6
    <2> HIDE DEF rf, rl, mf, ml
    <2>5. mf <= i /\ i <= ml
        BY ONLY <2>0, <2>1, <2>4, <1>8, <1>13
    <2>6. QED
        BY <2>5, <1>5 DEF mf, ml
<1>14. i <= E - 1 \/ (E <= i /\ i <= E + n - 1) \/ E + n - 1 < i
    BY ONLY <1>8
<1>15. QED
    BY <1>11, <1>12, <1>13, <1>14 DEF Goal

LEMMA ApplyKeepsPositions ==
    ASSUME NEW c \in Candidates, Ready(c), Known(preview[c].of), Apply(c)
    PROVE  Positions'
<1>1. /\ text' = preview[c].text /\ ranges' = {RangeMoved(c, r) : r \in ranges}
      /\ place' = [f \in Issues |-> IF f \in Remaining(c) THEN Moved(c, f) ELSE Nowhere]
      /\ kept' = [kept EXCEPT ![preview[c].of] = PlaceOf(preview[c].of)]
      /\ preview' = [preview EXCEPT ![c] = [Unused EXCEPT !.at = "gone"]]
      /\ about' = [f \in Issues |-> IF f \in Remaining(c) /\ ~preview[c].structured THEN about[f] ELSE <<>>]
    BY DEF Apply, Take
<1>2. \/ over' = FALSE /\ active' = {} /\ Remaining(c) = {}
      \/ over' = over /\ active' = Remaining(c) /\ Remaining(c) # {}
    BY DEF Apply, RestartReview
<1>3. /\ FixTypes /\ Remaining(c) \subseteq active /\ active \subseteq Issues
      /\ place \in [Issues -> Places] /\ kept \in [Issues -> Places] /\ about \in [Issues -> Seq(Line)]
      /\ preview \in [Candidates -> Preview] /\ over \in BOOLEAN
      /\ Nowhere \in Places
    BY DEF Ready, Positions, FixTypes, Remaining, Nowhere, Places
<1>4. /\ preview' \in [Candidates -> Preview] /\ preview'[c].at = "gone"
      /\ preview'[c].base = <<>> /\ preview'[c].text = <<>>
      /\ \A d \in Candidates \ {c} : preview'[d] = preview[d]
    BY <1>1, <1>3, UnusedFacts
<1>5. /\ revisions' \in Seq(Fix)
      /\ \A i \in DOMAIN revisions' :
            \/ revisions'[i].before = text /\ revisions'[i].ranges = ranges
            \/ \E j \in DOMAIN revisions : revisions'[i] = revisions[j]
    BY ApplyRevisions
<1>6. /\ changed' \subseteq Line /\ \A l \in changed' : l \in changed \/ l[1] = c
    BY ApplyChanged
<1>7. FixTypes'
    <2>1. kept' \in [Issues -> Places]
        <3>1. preview[c].of \in Issues => PlaceOf(preview[c].of) \in Places
            BY <1>3 DEF PlaceOf
        <3>2. QED
            BY <3>1, <1>1, <1>3
    <2>2. place' \in [Issues -> Places]
        <3>1. ASSUME NEW f \in Remaining(c) PROVE Moved(c, f) \in Places
            <4>1. place[f] \in Places /\ place[f].first \in Int /\ place[f].last \in Int /\ Delta(c) \in Int
                BY <1>3, ReadyFacts DEF Places
            <4>2. place[f].first + Delta(c) \in Int /\ place[f].last + Delta(c) \in Int
                BY <4>1
            <4>3. Shift(place[f], Delta(c)) \in Places
                BY <4>2 DEF Shift, Places
            <4>4. QED
                BY <4>1, <4>3 DEF Moved
        <3>2. QED
            BY <3>1, <1>1, <1>3
    <2>3. about' \in [Issues -> Seq(Line)]
        <3>1. <<>> \in Seq(Line)
            OBVIOUS
        <3>2. QED
            BY <3>1, <1>1, <1>3
    <2>4. text' \in Seq(Line) /\ ranges' \subseteq Places
        <3>1. ASSUME NEW r \in ranges PROVE RangeMoved(c, r) \in Places
            BY RangeMovedCases
        <3>2. QED
            BY <3>1, <1>1, ReadyFacts
    <2>5. active' \subseteq Issues /\ over' \in BOOLEAN
        BY <1>2, <1>3
    <2>6. QED
        BY <2>1, <2>2, <2>3, <2>4, <2>5, <1>4, <1>5, <1>6 DEF FixTypes
<1>8. NoneShownWhileReviewed'
    <2>1. over' => over \/ active' = {}
        BY <1>2
    <2>2. over \/ Remaining(c) = {}
        BY <1>3 DEF Ready, Positions, NoneShownWhileReviewed
    <2>3. QED
        BY <2>2, <1>2 DEF NoneShownWhileReviewed
<1>9. ShownAreLocated'
    <2> SUFFICES ASSUME NEW f \in active' PROVE Located(f, place[f])'
        BY DEF ShownAreLocated
    <2>1. f \in Remaining(c) /\ f \in active /\ f \in Issues /\ place'[f] = Moved(c, f)
        BY <1>1, <1>2, <1>3
    <2>2. CASE about'[f] = <<>>
        BY <2>2 DEF Located
    <2>3. CASE about'[f] # <<>>
        <3>1. ~preview[c].structured /\ about'[f] = about[f]
            BY <2>1, <2>3, <1>1
        <3>2. Within(place[f], text) /\ LinesAt(text, place[f]) = about[f]
            BY <2>1, <2>3, <3>1 DEF Ready, Positions, ShownAreLocated, Located
        <3>3. ~Overlap(place[f], preview[c].span)
            BY <2>1 DEF Remaining
        <3>4. /\ Within(Moved(c, f), preview[c].text)
              /\ LinesAt(preview[c].text, Moved(c, f)) = LinesAt(text, place[f])
            BY <2>1, <3>1, <3>2, <3>3, MovedLines
        <3>5. QED
            BY <2>1, <3>1, <3>2, <3>4, <1>1 DEF Located
    <2>4. QED
        BY <2>2, <2>3
<1>10. DecidedAreLocated'
    <2> SUFFICES ASSUME NEW f \in Issues \ active' PROVE about'[f] = <<>>
        BY DEF DecidedAreLocated, Located
    <2>1. f \notin Remaining(c)
        BY <1>2
    <2>2. QED
        BY <2>1, <1>1
<1>11. CandidatesReplace'
    <2> SUFFICES ASSUME NEW d \in Candidates, preview'[d].at = "ready" PROVE Replaces(d)'
        BY DEF CandidatesReplace
    <2>1. preview'[d] = preview[d]
        BY <1>4
    <2>2. Replaces(d)
        BY <2>1, PreviewFacts DEF Ready
    <2>3. QED
        BY <2>1, <2>2 DEF Replaces
<1>12. LinesAreNew'
    <2> SUFFICES ASSUME NEW e \in Candidates, preview'[e].at # "gone" PROVE NowhereElse(e)'
        BY DEF LinesAreNew
    <2>1. e # c /\ NowhereElse(e)
        BY <1>4, PreviewFacts DEF Ready
    <2>2. Without(e, text')
        BY <2>1, <1>1 DEF NowhereElse
    <2>3. \A l \in changed' : l[1] # e
        BY <2>1, <1>6 DEF NowhereElse
    <2>4. ASSUME NEW i \in DOMAIN revisions' PROVE Without(e, revisions'[i].before)
        BY <2>1, <1>5 DEF NowhereElse
    <2>5. ASSUME NEW d \in Candidates
          PROVE  Without(e, preview'[d].base) /\ (d # e => Without(e, preview'[d].text))
        <3>1. CASE d = c
            BY <3>1, <1>4, UnusedFacts
        <3>2. CASE d # c
            BY <3>2, <2>1, <1>4 DEF NowhereElse
        <3>3. QED
            BY <3>1, <3>2
    <2>6. QED
        BY <2>2, <2>3, <2>4, <2>5 DEF NowhereElse, Without
<1>13. RangesHold'
    <2>1. Holds(ranges, text)'
        BY ApplyRange
    <2>2. ASSUME NEW i \in DOMAIN revisions'
          PROVE  Holds(revisions[i].ranges, revisions[i].before)'
        <3>1. NowhereElse(c) /\ RangesHold
            BY PreviewFacts DEF Ready, Positions
        <3>2. PICK b, R : /\ revisions'[i].before = b /\ revisions'[i].ranges = R
                          /\ Without(c, b) /\ Holds(R, b)
            <4>1. CASE revisions'[i].before = text /\ revisions'[i].ranges = ranges
                BY <4>1, <3>1 DEF NowhereElse, RangesHold
            <4>2. CASE \E j \in DOMAIN revisions : revisions'[i] = revisions[j]
                BY <4>2, <3>1 DEF NowhereElse, RangesHold
            <4>3. QED
                BY <4>1, <4>2, <1>5
        <3>3. ASSUME NEW k \in DOMAIN b, b[k] \in changed'
              PROVE  \E r \in R : r.first <= k /\ k <= r.last
            <4>1. b[k] \in changed
                BY <3>2, <3>3, <1>6 DEF Without
            <4>2. QED
                BY <4>1, <3>2 DEF Holds
        <3>4. QED
            BY <3>2, <3>3 DEF Holds
    <2>3. QED
        BY <2>1, <2>2 DEF RangesHold, Holds
<1>14. PlacesAreProper'
    <2>1. ASSUME NEW f \in active' PROVE Proper(place'[f])
        <3>1. f \in Remaining(c) /\ f \in active /\ f \in Issues /\ place'[f] = Moved(c, f)
            BY <2>1, <1>1, <1>2, <1>3
        <3>2. Proper(place[f]) /\ place[f] \in Places
            BY <3>1, <1>3 DEF Ready, Positions, PlacesAreProper
        <3> DEFINE s == preview[c].span
                   p == place[f]
                   d == Delta(c)
                   n == preview[c].added
        <3>3. /\ p.first \in Int /\ p.last \in Int /\ 1 <= p.first /\ p.first <= p.last
              /\ s.first \in Int /\ s.last \in Int /\ 1 <= s.first
              /\ n \in Nat /\ d = n - (s.last - s.first + 1)
            BY <3>2, ReadyFacts DEF Proper, Places
        <3>4. Moved(c, f) = IF p.first > s.last THEN Shift(p, d) ELSE p
            BY DEF Moved
        <3> HIDE DEF s, p, d, n
        <3>5. Shift(p, d).first = p.first + d /\ Shift(p, d).last = p.last + d
            BY DEF Shift
        <3>6. p.first > s.last => 1 <= p.first + d /\ p.first + d <= p.last + d
            BY ONLY <3>3
        <3>7. QED
            BY <3>1, <3>3, <3>4, <3>5, <3>6 DEF Proper
    <2>2. ASSUME NEW f \in Issues, kept'[f] # Nowhere PROVE Proper(kept'[f])
        <3>1. CASE f = preview[c].of
            <4>1. kept'[f] = PlaceOf(f) /\ Known(f)
                BY <3>1, <1>1, <1>3
            <4>2. QED
                BY <4>1, KnownIsLocated DEF Ready
        <3>2. CASE f # preview[c].of
            <4>1. kept'[f] = kept[f]
                BY <3>2, <1>1, <1>3
            <4>2. QED
                BY <4>1, <2>2 DEF Ready, Positions, PlacesAreProper
        <3>3. QED
            BY <3>1, <3>2
    <2>3. ASSUME NEW d \in Candidates, preview'[d].at = "asking" PROVE Proper(preview'[d].span)
        <3>1. preview'[d] = preview[d]
            BY <2>3, <1>4
        <3>2. QED
            BY <3>1, <2>3, PreviewFacts DEF Ready
    <2>4. QED
        BY <2>1, <2>2, <2>3 DEF PlacesAreProper
<1>15. QED
    BY <1>7, <1>8, <1>9, <1>10, <1>11, <1>12, <1>13, <1>14 DEF Positions

LEMMA PositionsInit == FixInit => Positions
<1> SUFFICES ASSUME FixInit PROVE Positions
    OBVIOUS
<1>1. FileLines \in Nat \ {0} /\ Reported \notin Candidates
    BY FixAssumption
<1>2. \A i \in 1..FileLines : <<Reported, i>> \in Line /\ <<Reported, i>>[1] = Reported
    BY DEF Line
<1>3. /\ text = [i \in 1..FileLines |-> <<Reported, i>>] /\ over = TRUE /\ active = Issues
      /\ place \in [Issues -> ProperSpans(text)]
      /\ kept = [f \in Issues |-> Nowhere]
      /\ ranges \in Hunks
      /\ revisions = <<>> /\ preview = [c \in Candidates |-> Unused]
      /\ about = [f \in Issues |-> LinesAt(text, place[f])]
      /\ changed = UNION {Members(LinesAt(text, r)) : r \in ranges}
    BY DEF FixInit
<1>4. text \in [1..FileLines -> Line] /\ \A i \in DOMAIN text : text[i] = <<Reported, i>>
    BY <1>2, <1>3
<1>5. text \in Seq(Line) /\ Len(text) = FileLines /\ DOMAIN text = 1..FileLines
    BY <1>1, <1>4
<1>6. ASSUME NEW s \in Places, Within(s, text)
      PROVE  /\ s.first \in Int /\ s.last \in Int
             /\ LinesAt(text, s) \in Seq(Line) /\ Len(LinesAt(text, s)) = s.last - s.first + 1
             /\ \A i \in 1..(s.last - s.first + 1) : LinesAt(text, s)[i] = text[s.first + i - 1]
    <2>1. s.first \in Int /\ s.last \in Int /\ 1 <= s.first /\ s.first <= s.last /\ s.last <= Len(text)
        BY <1>6 DEF Places, Within
    <2>2. /\ SubSeq(text, s.first, s.last) \in Seq(Line)
          /\ Len(SubSeq(text, s.first, s.last)) = IF s.first <= s.last THEN s.last - s.first + 1 ELSE 0
          /\ \A i \in 1..(s.last - s.first + 1) : SubSeq(text, s.first, s.last)[i] = text[s.first + i - 1]
        BY <2>1, <1>5, SubSeqOfSeq
    <2>3. QED
        BY <2>1, <2>2 DEF LinesAt
<1>7. ASSUME NEW f \in Issues
      PROVE  place[f] \in Places /\ Within(place[f], text) /\ Proper(place[f])
    <2>1. place[f] \in ProperSpans(text)
        BY <1>3
    <2>2. QED
        BY <2>1, <1>5, SpanFacts
<1>8. ASSUME NEW r \in ranges
      PROVE  r \in Places /\ Within(r, text) /\ r.first <= r.last /\ r.first <= Len(text) + 1
    <2>1. r \in [first : 1..FileLines, last : 1..FileLines] /\ r.first <= r.last
        BY <1>3, FixAssumption
    <2>2. r \in Places
        BY <2>1 DEF Places
    <2>3. r.first \in 1..FileLines /\ r.last \in 1..FileLines
        BY <2>1
    <2>4. QED
        BY <2>1, <2>2, <2>3, <1>1, <1>5 DEF Within
\* The lines of the change are those of the ranges: a line is in the text once.
<1>9. ASSUME NEW l \in changed
      PROVE  \E r \in ranges : \E j \in 1..FileLines : r.first <= j /\ j <= r.last /\ l = text[j]
    <2>1. PICK r \in ranges : l \in Members(LinesAt(text, r))
        BY <1>3
    <2>2. /\ r.first \in Int /\ r.last \in Int /\ 1 <= r.first /\ r.last <= FileLines
          /\ LinesAt(text, r) \in Seq(Line) /\ Len(LinesAt(text, r)) = r.last - r.first + 1
          /\ \A i \in 1..(r.last - r.first + 1) : LinesAt(text, r)[i] = text[r.first + i - 1]
        BY <1>5, <1>6, <1>8 DEF Within
    <2>3. PICK i \in DOMAIN LinesAt(text, r) : l = LinesAt(text, r)[i]
        BY <2>1 DEF Members
    <2>4. i \in 1..(r.last - r.first + 1)
        BY <2>2, SeqFacts
    <2>5. l = text[r.first + i - 1]
        BY <2>2, <2>3, <2>4
    <2>6. /\ r.first + i - 1 \in 1..FileLines
          /\ r.first <= r.first + i - 1 /\ r.first + i - 1 <= r.last
        BY <2>2, <2>4, <1>1
    <2>7. QED
        BY <2>5, <2>6
<1>10. FixTypes
    <2>1. changed \subseteq Line
        BY <1>4, <1>5, <1>9
    <2>2. Nowhere \in Places /\ revisions \in Seq(Fix)
        BY <1>3 DEF Nowhere, Places
    <2>3. preview \in [Candidates -> Preview]
        BY <1>3, UnusedFacts
    <2>4. about \in [Issues -> Seq(Line)]
        BY <1>3, <1>6, <1>7
    <2>5. place \in [Issues -> Places]
        BY <1>3, <1>7
    <2>6. kept \in [Issues -> Places] /\ ranges \subseteq Places /\ active \subseteq Issues /\ over \in BOOLEAN
        BY <2>2, <1>3, <1>8
    <2>7. QED
        BY <2>1, <2>2, <2>3, <2>4, <2>5, <2>6, <1>5 DEF FixTypes
<1>11. NoneShownWhileReviewed
    BY <1>3 DEF NoneShownWhileReviewed
<1>12. ShownAreLocated
    BY <1>3, <1>7 DEF ShownAreLocated, Located
<1>13. DecidedAreLocated
    BY <1>3 DEF DecidedAreLocated
<1>14. CandidatesReplace
    BY <1>3, UnusedFacts DEF CandidatesReplace
<1>a. PlacesAreProper
    BY <1>3, <1>7, UnusedFacts DEF PlacesAreProper
<1>15. LinesAreNew
    <2> SUFFICES ASSUME NEW c \in Candidates PROVE NowhereElse(c)
        BY DEF LinesAreNew
    <2>1. c # Reported
        BY <1>1
    <2>2. Without(c, text)
        BY <2>1, <1>2, <1>4, <1>5 DEF Without
    <2>3. \A l \in changed : l[1] # c
        BY <2>2, <1>5, <1>9 DEF Without
    <2>4. DOMAIN revisions = {}
        BY <1>3
    <2>5. \A d \in Candidates : Without(c, preview[d].base) /\ Without(c, preview[d].text)
        BY <1>3, UnusedFacts
    <2>6. QED
        BY <2>2, <2>3, <2>4, <2>5 DEF NowhereElse
<1>16. RangesHold
    <2>1. ASSUME NEW i \in DOMAIN text, text[i] \in changed
          PROVE  \E r \in ranges : r.first <= i /\ i <= r.last
        <3>1. PICK r \in ranges : \E j \in 1..FileLines : r.first <= j /\ j <= r.last /\ text[i] = text[j]
            BY <2>1, <1>9
        <3>2. PICK j \in 1..FileLines : r.first <= j /\ j <= r.last /\ text[i] = text[j]
            BY <3>1
        <3>3. text[i] = <<Reported, i>> /\ text[j] = <<Reported, j>>
            BY <1>4, <1>5
        <3>4. i = j
            <4>1. <<Reported, i>>[2] = i /\ <<Reported, j>>[2] = j
                OBVIOUS
            <4>2. <<Reported, i>> = <<Reported, j>>
                BY <3>2, <3>3
            <4>3. QED
                BY <4>1, <4>2
        <3>5. QED
            BY <3>2, <3>4
    <2>2. DOMAIN revisions = {}
        BY <1>3
    <2>3. QED
        BY <2>1, <2>2, <1>8 DEF RangesHold, Holds
<1>17. QED
    BY <1>10, <1>11, <1>12, <1>13, <1>14, <1>a, <1>15, <1>16 DEF Positions

\* After any sequence of fixes, decisions, undos and rechecks a finding that is shown
\* points at the lines it was reported for, and the ranges hold the change under review.
THEOREM FindingsFollowTheCode == FixSpec => []PositionsFollowTheCode
<1>1. FixInit => Positions
    BY PositionsInit
<1>2. Positions /\ [FixNext]_fixVars => Positions'
    <2> SUFFICES ASSUME Positions, [FixNext]_fixVars PROVE Positions'
        OBVIOUS
    <2>1. ASSUME NEW c \in Candidates, NEW f \in Issues, BeginPreview(c, f) PROVE Positions'
        BY <2>1, BeginPreviewKeeps
    <2>2. ASSUME NEW c \in Candidates, ProposalFails(c) PROVE Positions'
        BY <2>2, ProposalFailsKeeps
    <2>3. ASSUME NEW c \in Candidates, GiveUpPreview(c) \/ ForgetCandidate(c) PROVE Positions'
        <3>1. preview' = [preview EXCEPT ![c] = [Unused EXCEPT !.at = "gone"]] /\ UNCHANGED_Review
            BY <2>3 DEF GiveUpPreview, ForgetCandidate
        <3>2. QED
            BY <3>1, CandidateGone
    <2>4. ASSUME NEW c \in Candidates, PreviewReplaces(c) \/ PreviewInserts(c) \/ PreviewRenames(c)
          PROVE  Positions'
        BY <2>4, PreviewReplacesKeeps, PreviewInsertsKeeps, PreviewRenamesKeeps
    <2>5. ASSUME NEW c \in Candidates, ConfirmFix(c) PROVE Positions'
        <3>1. CASE text = preview[c].base /\ Known(preview[c].of) /\ Apply(c)
            <4>1. Ready(c)
                BY <2>5, <3>1 DEF Ready, ConfirmFix
            <4>2. QED
                BY <3>1, <4>1, ApplyKeepsPositions
        <3>2. CASE Take(c) /\ UNCHANGED_Review
            <4>1. preview' = [preview EXCEPT ![c] = [Unused EXCEPT !.at = "gone"]]
                BY <3>2 DEF Take
            <4>2. QED
                BY <3>2, <4>1, CandidateGone
        <3>3. QED
            BY <2>5, <3>1, <3>2 DEF ConfirmFix
    <2>6. ASSUME NEW f \in Issues, Reopen(f) PROVE Positions'
        BY <2>6, ReopenKeeps
    <2>7. ASSUME NEW f \in Issues, NEW deferred \in BOOLEAN, Decide(f, deferred) PROVE Positions'
        BY <2>7, DecideKeeps
    <2>8. CASE Undo
        BY <2>8, UndoKeepsPositions
    <2>9. CASE ReportAgain
        BY <2>9, ReportAgainKeeps
    <2>10. CASE UNCHANGED fixVars
        <3>1. UNCHANGED <<text, ranges, revisions, preview, changed>> /\ UNCHANGED <<over, active, place, kept, about>>
            BY <2>10 DEF fixVars
        <3>2. FixTypes' /\ NoneShownWhileReviewed' /\ ShownAreLocated' /\ DecidedAreLocated' /\ PlacesAreProper'
            BY <3>1 DEF Positions, FixTypes, NoneShownWhileReviewed, ShownAreLocated, DecidedAreLocated, Located,
                        PlacesAreProper
        <3>3. QED
            BY <3>1, <3>2, FileStays DEF Positions
    <2>11. QED
        BY <2>1, <2>2, <2>3, <2>4, <2>5, <2>6, <2>7, <2>8, <2>9, <2>10 DEF FixNext
<1>3. Positions => PositionsFollowTheCode
    <2> SUFFICES ASSUME Positions PROVE PositionsFollowTheCode
        OBVIOUS
    <2>1. \A f \in active : about[f] = <<>> \/ PointsAt(f, about[f])
        BY DEF Positions, ShownAreLocated, Located, Within, PointsAt
    <2>2. Holds(ranges, text)
        BY DEF Positions, RangesHold
    <2>3. QED
        BY <2>1, <2>2 DEF PositionsFollowTheCode, Holds
<1>4. QED
    BY <1>1, <1>2, <1>3, PTL DEF FixSpec

===============================================================================
