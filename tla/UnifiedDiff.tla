---------------------------- MODULE UnifiedDiff ----------------------------
(***************************************************************************)
(* A runner's diff on the host: it is parsed, held against the uploaded    *)
(* numstat, judged by the policy, and the hunk is applied, line by line, to *)
(* the file at the base commit.  A file is its lines, which may end in a   *)
(* carriage return, and whether the last ends in a newline; a diff is one  *)
(* hunk of one edit, as git writes it or doctored.                         *)
(***************************************************************************)
EXTENDS Integers, FiniteSets, Sequences

CONSTANTS Texts,       \* contents of a line, but for a carriage return at its end
          BaseLines,   \* longest base file
          Inserted,    \* most lines an edit inserts
          MaxAdded     \* DEFAULT_MAX_ADDED_LINES, or the repository's override

ASSUME DiffAssumption == BaseLines \in Nat /\ Inserted \in Nat /\ MaxAdded \in Nat

VARIABLES
  edit,      \* the base, the edit made to it and the file that is its result
  upload,    \* what the runner posts: hunk and numstat; and the gate's approval
  stageOf,   \* "posted", "malformed", "refused", "denied", "gated", "allowed",
             \* "applying", "applied", "mismatch"
  progress,  \* of applyHunks: what it has put out, its place in the base, the line it is at
  committed  \* the file the branch gets

diffs == <<edit, upload, stageOf, progress, committed>>

FileLines == [content : Texts, cr : BOOLEAN]
SeqsUpTo(n) == UNION {[1..k -> FileLines] : k \in 0..n}
Line(tag, text) == [tag |-> tag, text |-> text]
Tagged(tag, texts) == [k \in DOMAIN texts |-> Line(tag, texts[k])]
NoNewline == <<Line("\\", [content |-> "unterminated", cr |-> FALSE])>>
WithMarker(body, bare) == IF bare /\ body # <<>> THEN body \o NoNewline ELSE body

\* The hunk git writes for replacing lines from..to, with one line of context.
HunkOf(base, from, to, ins, bare) ==
  LET last == to = Len(base.lines)
      pre  == IF from > 1 THEN SubSeq(base.lines, from - 1, from - 1) ELSE <<>>
      post == IF last THEN <<>> ELSE SubSeq(base.lines, to + 1, to + 1)
      cut  == SubSeq(base.lines, from, to)
  IN [start |-> IF base.lines = <<>> THEN 0 ELSE from - Len(pre),
      old   |-> Len(pre) + Len(cut) + Len(post), new |-> Len(pre) + Len(ins) + Len(post),
      body  |-> Tagged(" ", pre) \o WithMarker(Tagged("-", cut), last /\ base.bare)
                  \o WithMarker(Tagged("+", ins), last /\ bare)
                  \o WithMarker(Tagged(" ", post), to + 1 = Len(base.lines) /\ base.bare)]

\* What the edit makes of the file: the reference git itself would give.
EditedFile(base, from, to, ins, bare) ==
  LET lines == SubSeq(base.lines, 1, from - 1) \o ins \o SubSeq(base.lines, to + 1, Len(base.lines))
  IN [lines |-> lines,
      bare  |-> lines # <<>> /\ (IF to = Len(base.lines) THEN ins # <<>> /\ bare ELSE base.bare)]

\* git rewrites an unterminated last line when lines follow it, so no edit starts after it.
Edits ==
  {e \in [base : [lines : SeqsUpTo(BaseLines), bare : BOOLEAN], from : 1..BaseLines + 1,
          to : 0..BaseLines, ins : SeqsUpTo(Inserted), bare : BOOLEAN] :
     /\ e.to + 1 >= e.from /\ e.to <= Len(e.base.lines)
     /\ e.base.lines = <<>> => ~e.base.bare
     /\ e.from > Len(e.base.lines) => ~e.base.bare
     /\ e.ins # <<>> \/ e.to >= e.from
     /\ e.bare => e.to = Len(e.base.lines) /\ e.ins # <<>>}

Count(body, tag) == Cardinality({n \in DOMAIN body : body[n].tag = tag})

\* What the diff touches that a check is about: a job token or other secret in an added
\* line, a path under .git or out of the repository, a link that leads there, a CI path
\* or manifest.
Touches == {"nothing", "secret", "git path", "git link", "protected path"}

\* The numstat the runner counted is that of the diff, or one insertion short.
Posted(hunk, skew, lie, touch, approved) ==
  [hunk |-> [hunk EXCEPT !.new = @ + skew],
   numstat |-> [added |-> Count(hunk.body, "+") - lie, deleted |-> Count(hunk.body, "-")],
   touch |-> touch, approved |-> approved]

DiffInit ==
  \E e \in Edits, skew \in {-1, 0, 1}, lie \in {0, 1}, touch \in Touches, approved \in BOOLEAN :
    /\ edit = [base |-> e.base, head |-> EditedFile(e.base, e.from, e.to, e.ins, e.bare)]
    /\ upload = Posted(HunkOf(e.base, e.from, e.to, e.ins, e.bare), skew, lie, touch, approved)
    /\ stageOf = "posted" /\ committed = e.base
    /\ progress = [out |-> <<>>, cursor |-> 0, bare |-> FALSE, kind |-> "none", line |-> 1]

\* The parse cuts a carriage return off the end of every line of the diff.
Parsed(body) == [n \in DOMAIN body |-> Line(body[n].tag, [body[n].text EXCEPT !.cr = FALSE])]

\* consumeHunk reads until both counts of the header are used up: neither may go below
\* zero, and no counted line may be left, so the body has just what the header declares.
WellFormed(hunk) ==
  /\ Count(hunk.body, "-") + Count(hunk.body, " ") = hunk.old
  /\ Count(hunk.body, "+") + Count(hunk.body, " ") = hunk.new

\* The totals of the parse, which the numstat and the limits are held against.
ParsedStats(hunk) == [added |-> Count(hunk.body, "+"), deleted |-> Count(hunk.body, "-")]

\* apply: what fails before the policy is asked, and no approval lifts.
RefusedOutright(up) == ParsedStats(up.hunk) # up.numstat \/ up.touch = "git path"

\* evaluateDiffPolicy: a finding that denies rules, then one that gates unless a person
\* has approved the gate.  Its own look at numstat and path finds nothing any more.
DiffVerdict(up) ==
  LET stats == ParsedStats(up.hunk)
      denies == up.touch = "git path" \/ (up.touch \in {"secret", "git link"} /\ stats.added > 0)
      gates  == up.touch = "protected path" \/ stats.added > MaxAdded \/ stats # up.numstat
  IN IF denies THEN "denied"
     ELSE IF gates /\ ~up.approved THEN "gated" ELSE "allowed"

Judge ==
  /\ stageOf = "posted"
  /\ stageOf' = IF ~WellFormed(upload.hunk) THEN "malformed"
                ELSE IF RefusedOutright(upload) THEN "refused" ELSE DiffVerdict(upload)
  /\ UNCHANGED <<edit, upload, progress, committed>>

\* A person approves the gate: the same diff is judged again.
GateApproved ==
  /\ stageOf = "gated" /\ stageOf' = "posted"
  /\ upload' = [upload EXCEPT !.approved = TRUE]
  /\ UNCHANGED <<edit, progress, committed>>

\* Mutant of LineMatches: a context line is taken over unchecked.
DeletionsMatch(src, s, l) == s.cursor < Len(src) /\ (l.tag = "-" => src[s.cursor + 1] = l.text)

\* A deletion or context line, as it was parsed, must be the next line of the base, which
\* splitLines leaves its carriage return.
LineMatches(src, s, l) == s.cursor < Len(src) /\ src[s.cursor + 1] = l.text

Body == Parsed(upload.hunk.body)
Skipped == IF upload.hunk.start <= 0 THEN 0 ELSE upload.hunk.start - 1

\* applyHunks takes over what precedes the hunk.  The file at the base commit is the one
\* the diff was made of, or another.
ApplyStarts ==
  /\ stageOf = "allowed"
  /\ \E base \in {edit.base.lines} \cup SeqsUpTo(1) :
       /\ edit' = [edit EXCEPT !.base.lines = base]
       /\ stageOf' = IF Skipped > Len(base) THEN "mismatch" ELSE "applying"
       /\ progress' = IF Skipped > Len(base) THEN progress
                      ELSE [progress EXCEPT !.out = SubSeq(base, 1, Skipped), !.cursor = Skipped]
  /\ UNCHANGED <<upload, committed>>

Inserts(l) ==
  /\ l.tag = "+" /\ UNCHANGED stageOf
  /\ progress' = [progress EXCEPT !.out = Append(@, l.text), !.kind = "+", !.line = @ + 1]

\* The marker for a missing newline speaks of the line before it, on its side.
Marks(l) ==
  /\ l.tag = "\\" /\ UNCHANGED stageOf
  /\ progress' = [progress EXCEPT !.bare = @ \/ progress.kind \in {"+", " "}, !.line = @ + 1]

DeletesOrKeeps(l) ==
  /\ l.tag \in {"-", " "} /\ LineMatches(edit.base.lines, progress, l) /\ UNCHANGED stageOf
  /\ progress' = [progress EXCEPT !.out = IF l.tag = " " THEN Append(@, l.text) ELSE @,
                                  !.cursor = @ + 1, !.kind = l.tag, !.line = @ + 1]

Refuses(l) ==
  /\ l.tag \in {"-", " "} /\ ~LineMatches(edit.base.lines, progress, l)
  /\ stageOf' = "mismatch" /\ UNCHANGED progress

LineApplied ==
  /\ stageOf = "applying" /\ progress.line <= Len(Body)
  /\ LET l == Body[progress.line] IN Inserts(l) \/ Marks(l) \/ DeletesOrKeeps(l) \/ Refuses(l)
  /\ UNCHANGED <<edit, upload, committed>>

\* The rest of the base is taken over; its own final newline is not looked at.
ApplyEnds ==
  /\ stageOf = "applying" /\ progress.line > Len(Body) /\ stageOf' = "applied"
  /\ LET lines == progress.out \o SubSeq(edit.base.lines, progress.cursor + 1, Len(edit.base.lines))
     IN committed' = [lines |-> lines, bare |-> lines # <<>> /\ progress.bare]
  /\ UNCHANGED <<edit, upload, progress>>

DiffNext == Judge \/ GateApproved \/ ApplyStarts \/ LineApplied \/ ApplyEnds

DiffSpec == DiffInit /\ [][DiffNext]_diffs

-----------------------------------------------------------------------------
\* What git says of a hunk.  Line n of its old side belongs behind the lines it skips and
\* the old lines before n, line n of its new side behind those and the new lines before n.
Before(side, n) == Cardinality({m \in 1..n : Body[m].tag \in {side, " "}})
OldAt(n) == Skipped + Before("-", n)
NewAt(n) == Skipped + Before("+", n)

\* A base is the hunk's if it has every line of the old side at its place.
Fits(body, base) ==
  /\ OldAt(Len(body)) <= Len(base)
  /\ \A n \in DOMAIN body : body[n].tag \in {"-", " "} => base[OldAt(n)] = body[n].text

\* The hunk turns base into lines: the new side at its place, the rest of the base around it.
Merges(body, base, lines) ==
  LET rest == Len(base) - OldAt(Len(body)) IN
  /\ Len(lines) = NewAt(Len(body)) + rest
  /\ \A m \in 1..Skipped : lines[m] = base[m]
  /\ \A n \in DOMAIN body : body[n].tag \in {"+", " "} => lines[NewAt(n)] = body[n].text
  /\ \A m \in 1..rest : lines[NewAt(Len(body)) + m] = base[OldAt(Len(body)) + m]

\* What the branch gets is what was judged: the diff as it was parsed, without carriage
\* returns, is applied only to a file whose lines it names, the result has exactly its
\* insertions, nothing is committed whose numstat is not the parse's, nothing that
\* exceeds the limit or touches a protected path unless a person approved it, and nothing
\* at all that adds a secret or reaches into .git.
CommittedAsJudged ==
  /\ stageOf = "applied" => Fits(Body, edit.base.lines) /\ Merges(Body, edit.base.lines, committed.lines)
  /\ stageOf = "mismatch" => ~Fits(Body, edit.base.lines)
  /\ stageOf = "applied" =>
       /\ ParsedStats(upload.hunk) = upload.numstat
       /\ upload.approved \/ (upload.numstat.added <= MaxAdded /\ upload.touch # "protected path")
       /\ upload.touch # "git path"
       /\ upload.touch \in {"secret", "git link"} => Count(upload.hunk.body, "+") = 0

\* The committed file is the edited file, byte for byte, as the comment of applyHunks
\* (parseUnifiedDiff.ts:204-210) has it: "Applying diffs positionally without this
\* check falsifies the epic's headline guarantee -- the committed tree would diverge
\* from the diff a human reviewed".  Fails for a base without a final newline whose
\* last line no hunk reaches: the last statement of applyHunks gives it one.
CommittedIsReviewed ==
  stageOf = "applied" /\ committed.lines = edit.head.lines => committed.bare = edit.head.bare
=============================================================================
