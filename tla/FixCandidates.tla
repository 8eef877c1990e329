----------------------------- MODULE FixCandidates -----------------------------
(***************************************************************************)
(* Fix candidates, revisions and the places findings point at, in a file   *)
(* of a review that is over: preview_fix, cancel_fix, confirm_fix,         *)
(* undo_revision, the decisions about findings and _fix_candidates.        *)
(*                                                                         *)
(* A line of the file is a value of its own, so that one can say which     *)
(* lines a place means after the text has changed.  A handler that writes  *)
(* is one action here; how they race is the subject of ReviewLifecycle.    *)
(***************************************************************************)
EXTENDS Integers, FiniteSets, Sequences

CONSTANTS
    Issues,         \* findings of the review, all in one file
    Candidates,     \* candidate ids; an id is used once (uuid4)
    Reported,       \* where the lines of the first review come from
    FileLines,      \* how many there are
    Hunks,          \* what the change under review may have touched: sets of spans
    Added,          \* bound: how many lines a replacement may have
    MaxCandidates,  \* _MAX_FIX_CANDIDATES_PER_REVIEW
    MaxRevisions,   \* _MAX_REVISIONS
    MaxAgain        \* bound: rechecks

ASSUME FixAssumption ==
    /\ Reported \notin Candidates
    /\ FileLines \in Nat \ {0} /\ Added \subseteq Nat /\ MaxAgain \in Nat
    /\ MaxCandidates \in Nat \ {0} /\ MaxRevisions \in Nat \ {0}
    /\ \A hunks \in Hunks : \A r \in hunks :
          r \in [first : 1..FileLines, last : 1..FileLines] /\ r.first <= r.last

VARIABLES
    text,       \* the file's content
    over,       \* the review is completed or failed
    active,     \* session.findings
    place,      \* their lines
    kept,       \* decided_findings, with their lines
    decided,    \* findings that have a decision, of whatever kind
    pending,    \* findings whose state is fixed_pending_revalidation
    ranges,     \* origin.changed_ranges of the file
    revisions,
    preview,    \* candidates being prepared, and prepared
    cache,      \* _fix_candidates, oldest first
    about,      \* ghost: the lines a finding was reported for, as long as it was
                \* moved along with the text
    changed,    \* ghost: the lines the change under review touches; none after a
                \* structured repair
    again       \* rechecks so far

fixVars == <<text, over, active, place, kept, decided, pending, ranges, revisions,
             preview, cache, about, changed, again>>

Line == (Candidates \X Nat) \cup ({Reported} \X (1..FileLines))
Span == [first : Nat, last : Int]
Nowhere == [first |-> 0, last |-> 0]
Spans(t) == {[first |-> i, last |-> j] : i \in DOMAIN t, j \in DOMAIN t} \ {Nowhere}
ProperSpans(t) == {s \in Spans(t) : s.first <= s.last}
LinesAt(t, s) == SubSeq(t, s.first, s.last)
Members(t) == {t[i] : i \in DOMAIN t}
Overlap(s, r) == s.first <= r.last /\ r.first <= s.last

Unused == [at |-> "none", of |-> Nowhere, base |-> <<>>, span |-> Nowhere, phase |-> 0,
           text |-> <<>>, added |-> 0, structured |-> FALSE]

FixInit ==
    /\ text = [i \in 1..FileLines |-> <<Reported, i>>]
    /\ over = TRUE /\ again = 0
    /\ active = Issues
    /\ place \in [Issues -> ProperSpans(text)]
    /\ kept = [f \in Issues |-> Nowhere]
    /\ decided = {}
    /\ pending = {}
    /\ ranges \in Hunks
    /\ revisions = <<>>
    /\ preview = [c \in Candidates |-> Unused]
    /\ cache = <<>>
    /\ about = [f \in Issues |-> LinesAt(text, place[f])]
    /\ changed = UNION {Members(LinesAt(text, r)) : r \in ranges}

-----------------------------------------------------------------------------
(* preview_fix                                                              *)

UNCHANGED_Review ==
    UNCHANGED <<text, over, active, place, kept, decided, pending, ranges, revisions,
                about, changed, again>>

\* The finding as it is shown, or as it was when it was decided.
Known(f) == f \in active \/ kept[f] # Nowhere
PlaceOf(f) == IF f \in active THEN place[f] ELSE kept[f]

\* The session is read; the model is asked for a replacement.
BeginPreview(c, f) ==
    /\ over /\ Known(f)
    /\ preview[c] = Unused
    /\ preview' = [preview EXCEPT ![c] = [Unused EXCEPT !.at = "asking", !.of = f, !.base = text,
                                                        !.span = PlaceOf(f)]]
    /\ UNCHANGED cache /\ UNCHANGED_Review

\* The finding does not hold any more, the last proposal fails, the model does not
\* answer, or the static analysis objects: a diagnostic more, or the old one still.
GiveUpPreview(c) ==
    /\ preview[c].at = "asking"
    /\ preview' = [preview EXCEPT ![c] = [Unused EXCEPT !.at = "gone"]]
    /\ UNCHANGED cache /\ UNCHANGED_Review

\* _store_fix_candidate evicts the oldest candidates of the review.
Evicted ==
    IF Len(cache) < MaxCandidates THEN {}
    ELSE {cache[i] : i \in 1..(Len(cache) - MaxCandidates + 1)}
StoreFixCandidate(c, s, revised, added, structured) ==
    /\ cache' = Append(SelectSeq(cache, LAMBDA d : d \notin Evicted), c)
    /\ preview' = [d \in Candidates |->
                     IF d = c
                     THEN [preview[c] EXCEPT !.at = "ready", !.phase = 0, !.span = s,
                                             !.text = revised, !.added = added,
                                             !.structured = structured]
                     ELSE IF d \in Evicted THEN [Unused EXCEPT !.at = "gone"] ELSE preview[d]]

NewLines(c, n) == [i \in 1..n |-> <<c, i>>]

\* In a file that parses the span to replace is the expression, statement, definition
\* or file around the finding; what lies below the last line counts as the last line.
\* In another language it is the finding's own lines, wherever they are.
Clamped(t, i) == IF i <= Len(t) THEN i ELSE Len(t)
SpansAround(c) ==
    LET b == preview[c].base IN
    {s \in ProperSpans(b) : /\ s.first <= Clamped(b, preview[c].span.first)
                            /\ Clamped(b, preview[c].span.last) <= s.last}

\* The text with other lines in place of those of the span: a Python slice, which
\* ends where the text does.
Clipped(t, s) ==
    [first |-> IF s.first <= Len(t) THEN s.first ELSE Len(t) + 1, last |-> Clamped(t, s.last)]
Spliced(t, s, lines) == SubSeq(t, 1, s.first - 1) \o lines \o SubSeq(t, s.last + 1, Len(t))

\* A proposal does not parse, or is not what was asked for: the model is asked once to
\* correct it, and once more for the whole definition around the place, if any.
ProposalFails(c) ==
    /\ preview[c].at = "asking" /\ preview[c].phase < 2
    /\ preview' = [preview EXCEPT ![c].phase = @ + 1]
    /\ UNCHANGED cache /\ UNCHANGED_Review

\* A proposal of whichever phase is accepted: its lines take the place of the span.
\* One that changes nothing is refused.
PreviewReplaces(c) ==
    /\ preview[c].at = "asking"
    /\ \E n \in Added, s \in SpansAround(c) \cup {preview[c].span} :
          LET b == preview[c].base
              revised == Spliced(b, Clipped(b, s), NewLines(c, n))
          IN /\ revised # b
             /\ StoreFixCandidate(c, s, revised, n, FALSE)
    /\ UNCHANGED_Review

\* _apply_symbol_repair inserts an import or a declaration above or in the span; the
\* replacement is then read off the new text at the lines of the old span, and has
\* as many lines as those.  The model is not asked.
PreviewInserts(c) ==
    /\ preview[c].at = "asking" /\ preview[c].phase = 0
    /\ \E s \in SpansAround(c) : \E i \in 1..s.last :
          StoreFixCandidate(c, s, Spliced(preview[c].base, [first |-> i, last |-> i - 1],
                                          NewLines(c, 1)),
                            s.last - s.first + 1, TRUE)
    /\ UNCHANGED_Review

\* A name is replaced wherever it is used (rename, declare_parameter, a rename plan).
PreviewRenames(c) ==
    /\ preview[c].at = "asking" /\ preview[c].phase = 0
    /\ \E s \in SpansAround(c) : \E uses \in SUBSET DOMAIN preview[c].base \ {{}} :
          StoreFixCandidate(c, s, [i \in DOMAIN preview[c].base |->
                                     IF i \in uses THEN <<c, i>> ELSE preview[c].base[i]],
                            s.last - s.first + 1, TRUE)
    /\ UNCHANGED_Review

\* cancel_fix, or fifteen minutes pass.
ForgetCandidate(c) ==
    /\ preview[c].at = "ready"
    /\ cache' = SelectSeq(cache, LAMBDA d : d # c)
    /\ preview' = [preview EXCEPT ![c] = [Unused EXCEPT !.at = "gone"]]
    /\ UNCHANGED_Review

-----------------------------------------------------------------------------
(* The review is run again: its findings are forgotten, and reported anew   *)
(* under new ids, while a fix that waits for revalidation keeps its own.    *)

RestartReview == over' = FALSE /\ active' = {}

\* A review that completes verifies or reopens the findings that are decided to be
\* fixed; one that fails, or is blocked by a syntax error, leaves their states alone.
ReportAgain ==
    /\ ~over /\ again < MaxAgain
    /\ over' = TRUE /\ again' = again + 1
    /\ pending' \in {pending, pending \ decided}
    /\ \E fs \in SUBSET (Issues \ (decided \cup pending)) :
       \E p \in [fs -> ProperSpans(text)] :
          /\ active' = fs
          /\ place' = [f \in Issues |-> IF f \in fs THEN p[f] ELSE Nowhere]
          /\ about' = [f \in Issues |-> IF f \in fs THEN LinesAt(text, p[f]) ELSE about[f]]
          /\ kept' = [f \in Issues |-> IF f \in fs THEN Nowhere ELSE kept[f]]
    /\ UNCHANGED <<text, decided, ranges, revisions, preview, cache, changed>>

-----------------------------------------------------------------------------
(* confirm_fix                                                              *)

Shift(s, d) == [first |-> s.first + d, last |-> s.last + d]

\* Findings above the span stay, those below are moved, those that overlap it go.
Remaining(c) == {f \in active \ {preview[c].of} : ~Overlap(place[f], preview[c].span)}
Delta(c) == preview[c].added - (preview[c].span.last - preview[c].span.first + 1)
Moved(c, f) == IF place[f].first > preview[c].span.last THEN Shift(place[f], Delta(c)) ELSE place[f]

RangeMoved(c, range) ==
    LET s == preview[c].span
        end == s.first + (IF preview[c].added = 0 THEN 1 ELSE preview[c].added) - 1
    IN CASE range.last < s.first -> range
         [] range.first > s.last -> Shift(range, Delta(c))
         [] OTHER -> [first |-> IF range.first < s.first THEN range.first ELSE s.first,
                      last |-> IF end > range.last + Delta(c) THEN end ELSE range.last + Delta(c)]

Latest(s, n) == SubSeq(s, IF Len(s) > n THEN Len(s) - n + 1 ELSE 1, Len(s))

Take(c) ==
    /\ cache' = SelectSeq(cache, LAMBDA d : d # c)
    /\ preview' = [preview EXCEPT ![c] = [Unused EXCEPT !.at = "gone"]]

Apply(c) ==
    /\ text' = preview[c].text
    /\ revisions' = Latest(Append(revisions, [of |-> preview[c].of, before |-> text,
                                              after |-> preview[c].text, ranges |-> ranges,
                                              undone |-> FALSE]), MaxRevisions)
    /\ place' = [f \in Issues |-> IF f \in Remaining(c) THEN Moved(c, f) ELSE Nowhere]
    /\ kept' = [kept EXCEPT ![preview[c].of] = PlaceOf(preview[c].of)]
    /\ decided' = decided \cup {preview[c].of}
    /\ pending' = pending \cup {preview[c].of}
    /\ ranges' = {RangeMoved(c, r) : r \in ranges}
    /\ IF Remaining(c) = {} THEN RestartReview ELSE active' = Remaining(c) /\ UNCHANGED over
    /\ changed' = IF preview[c].structured THEN {}
                  ELSE IF \E r \in ranges : Overlap(r, preview[c].span)
                  THEN changed \cup Members(NewLines(c, preview[c].added)) ELSE changed
    /\ about' = [f \in Issues |-> IF f \in Remaining(c) /\ ~preview[c].structured
                                 THEN about[f] ELSE <<>>]
    /\ Take(c)
    /\ UNCHANGED again

\* Seeded mistake: the file's hash is not compared with that of the preview.
ConfirmUnchecked(c) ==
    /\ preview[c].at = "ready"
    /\ IF Known(preview[c].of) THEN Apply(c) ELSE Take(c) /\ UNCHANGED_Review

\* The candidate is taken out of the cache first: it can be confirmed once.
ConfirmFix(c) ==
    /\ preview[c].at = "ready"
    /\ IF text = preview[c].base /\ Known(preview[c].of)
       THEN Apply(c)
       ELSE Take(c) /\ UNCHANGED_Review

-----------------------------------------------------------------------------
(* Decisions and undo.                                                      *)

\* A finding on the list was decided where it is no more: once it is off the list,
\* reopen_finding can only bring it back to its old lines.
Stale(f) == f \in active /\ kept[f] # place[f]

\* accepted_risk and dismissed take the finding off the list; deferred puts it
\* there.  When every active finding is decided, the fixes are rechecked.
Decide(f, deferred) ==
    /\ over /\ Known(f)
    /\ LET listed == IF deferred THEN active \cup {f} ELSE active \ {f}
       IN /\ kept' = [kept EXCEPT ![f] = PlaceOf(f)]
          /\ place' = [place EXCEPT ![f] = IF deferred THEN PlaceOf(f) ELSE Nowhere]
          /\ decided' = decided \cup {f}
          /\ pending' = pending \ {f}
          /\ IF pending' # {} /\ listed \subseteq decided'
             THEN /\ RestartReview
                  /\ about' = [g \in Issues |-> IF Stale(g) /\ g # f THEN <<>> ELSE about[g]]
             ELSE active' = listed /\ UNCHANGED <<over, about>>
    /\ UNCHANGED <<text, ranges, revisions, preview, cache, changed, again>>

\* reopen_finding: the finding comes back as it was when it was decided.
Reopen(f) ==
    /\ over /\ kept[f] # Nowhere /\ f \in decided
    /\ decided' = decided \ {f}
    /\ active' = active \cup {f}
    /\ place' = [place EXCEPT ![f] = PlaceOf(f)]
    /\ pending' = pending \ {f}
    /\ UNCHANGED <<text, over, kept, ranges, revisions, preview, cache, about, changed, again>>

Undoable == {i \in DOMAIN revisions : ~revisions[i].undone}

UndoRevision(i) ==
    /\ text' = revisions[i].before
    /\ ranges' = revisions[i].ranges
    /\ decided' = decided \ {revisions[i].of}
    /\ revisions' = [revisions EXCEPT ![i].undone = TRUE]

\* Seeded mistake: any revision may be undone, also one that later fixes build on.
UndoAny ==
    /\ over
    /\ \E i \in Undoable : UndoRevision(i)
    /\ about' = [f \in Issues |-> <<>>]
    /\ RestartReview
    /\ UNCHANGED <<place, kept, pending, preview, cache, changed, again>>

\* undo_revision: the last fix, if the file is as that fix left it.
Undo ==
    /\ over
    /\ \E i \in Undoable :
          /\ \A j \in Undoable : j <= i
          /\ text = revisions[i].after
          /\ UndoRevision(i)
    /\ about' = [f \in Issues |-> <<>>]
    /\ RestartReview
    /\ UNCHANGED <<place, kept, pending, preview, cache, changed, again>>

FixNext ==
    \/ \E c \in Candidates :
          \/ \E f \in Issues : BeginPreview(c, f)
          \/ ProposalFails(c) \/ GiveUpPreview(c) \/ PreviewReplaces(c) \/ PreviewInserts(c)
          \/ PreviewRenames(c) \/ ForgetCandidate(c) \/ ConfirmFix(c)
    \/ \E f \in Issues : Reopen(f) \/ \E deferred \in BOOLEAN : Decide(f, deferred)
    \/ Undo \/ ReportAgain

FixSpec == FixInit /\ [][FixNext]_fixVars

-----------------------------------------------------------------------------
FixTypeOK ==
    /\ text \in Seq(Line) /\ over \in BOOLEAN /\ again \in Nat
    /\ active \subseteq Issues /\ pending \subseteq Issues
    /\ place \in [Issues -> Span] /\ kept \in [Issues -> Span] /\ ranges \subseteq Span
    /\ decided \subseteq Issues
    /\ \A c \in Candidates : preview[c].at \in {"none", "asking", "ready", "gone"}
    /\ changed \subseteq Line

PointsAt(f, lines) ==
    place[f].first >= 1 /\ place[f].last <= Len(text) /\ LinesAt(text, place[f]) = lines

\* After any sequence of fixes, decisions and undos a finding that is shown points at
\* the very lines it was reported for, and the ranges sent to a recheck hold every
\* line the change under review touches: unless a structured repair inserted lines,
\* or the finding was decided and came back after the text had changed.
PositionsFollowTheCode ==
    /\ over => \A f \in active : about[f] = <<>> \/ PointsAt(f, about[f])
    /\ over =>
          \A i \in DOMAIN text :
             text[i] \in changed => \E r \in ranges : r.first <= i /\ i <= r.last

\* revisions(): what a revision is shown to have made of the file is what it made,
\* although candidates are prepared on texts that change before they are confirmed,
\* revisions are undone and the oldest ones forgotten.
LaterBefore(i) ==
    IF i = Len(revisions) THEN text ELSE revisions[i + 1].before
ShownDiffsAreTheFixes ==
    \A i \in DOMAIN revisions : ~revisions[i].undone => LaterBefore(i) = revisions[i].after

===============================================================================
