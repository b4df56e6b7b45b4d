----------------------------- MODULE ChangedLines -----------------------------
(***************************************************************************)
(* Selection of changed lines: src/git.rs.  ChangedLines::load asks Git    *)
(* for the repository, the base, the merge base and a diff without         *)
(* context lines, and parse_changed_lines reads the diff line by line.     *)
(* Git is the other actor: it writes, for each file, the headers and the   *)
(* hunks, and the lines of a hunk may themselves look like headers.        *)
(* Then the plan asks for each source whether it lies below the root of    *)
(* the repository.                                                         *)
(*                                                                         *)
(* A file's name is a sequence of bytes, and a header holds it as Git      *)
(* writes it: plain, or quoted with escapes.  A directory is the sequence  *)
(* of the names on its path.                                               *)
(***************************************************************************)
EXTENDS SequencesExt, SourceRanges

CONSTANTS
    Files,       \* the names of the files a diff may name, in UTF-8
    LastLine,    \* lines are 1..LastLine
    Repositories,  \* the directories that are roots of repositories
    Seeds,         \* the directories Git is asked in, in order: those of the
                   \* targets, or without one the working directory
    SourceDirectories   \* the directories of the sources that are planned

NoFile == <<>>

ASSUME FilesAssumption == Files \subseteq Seq(1 .. 255) \ {NoFile}

ASSUME LinesAssumption == LastLine \in Nat /\ LastLine < End

VARIABLES
    step,      \* the call load has reached, or "done"
    found,     \* the root of the repository selected
    base,      \* the revision to compare with
    git,       \* where Git is in writing its diff, and whether that is UTF-8
    reader,    \* source, in_hunk and pending_header of parse_changed_lines
    ranges,    \* the ranges kept for each file, as half-open spans
    verdict,   \* "none", "ok" or "error"
    added      \* the lines of the working tree that the diff's hunks add

diffVars == <<step, found, base, git, reader, ranges, verdict, added>>

-----------------------------------------------------------------------------
(* Names in headers.                                                       *)

Tab == 9
Space == 32
Quote == 34
Backslash == 92
Digits == 48 .. 55

\* git_simple_escape: the byte that each letter stands for.
Escapes ==
    [letter \in {97, 98, 102, 110, 114, 116, 118, Quote, Backslash} |->
        CASE letter = 97 -> 7    [] letter = 98 -> 8    [] letter = 102 -> 12
          [] letter = 110 -> 10  [] letter = 114 -> 13  [] letter = 116 -> Tab
          [] letter = 118 -> 11  [] OTHER -> letter]

NeedsQuotes(byte) == byte < 32 \/ byte > 126 \/ byte \in {Quote, Backslash}

\* What Git writes for one byte of a quoted name.
QuotedByte(byte) ==
    IF \E letter \in DOMAIN Escapes : Escapes[letter] = byte
    THEN <<Backslash, CHOOSE letter \in DOMAIN Escapes : Escapes[letter] = byte>>
    ELSE IF NeedsQuotes(byte)
         THEN <<Backslash, 48 + byte \div 64, 48 + ((byte \div 8) % 8), 48 + (byte % 8)>>
         ELSE <<byte>>

QuotedName(name) == FlattenSeq([i \in DOMAIN name |-> QuotedByte(name[i])]) \o <<Quote>>

\* The name as a header holds it; a tab ends one with a space in it.
HeaderOf(name) ==
    LET quoted == \E i \in DOMAIN name : NeedsQuotes(name[i])
        spaced == \E i \in DOMAIN name : name[i] = Space
    IN  [quoted |-> quoted,
         text |-> (IF quoted THEN QuotedName(name) ELSE name)
                  \o (IF spaced THEN <<Tab>> ELSE <<>>)]

\* decode_git_octal takes one to three digits from position i on, ...
DigitsAt(text, i) ==
    CHOOSE n \in 1 .. 3 :
        /\ \A j \in i .. i + n - 1 : j <= Len(text) /\ text[j] \in Digits
        /\ n = 3 \/ i + n > Len(text) \/ text[i + n] \notin Digits

\* ... and shifts them into a byte.
OctalAt(text, i) ==
    LET d(j) == text[i + j] - 48
    IN  CASE DigitsAt(text, i) = 1 -> d(0)
          [] DigitsAt(text, i) = 2 -> 8 * d(0) + d(1)
          [] OTHER -> ((8 * ((8 * d(0) + d(1)) % 256)) + d(2)) % 256

\* One turn of the loop of unquote_git_path: a character, an escape with what
\* it takes, the closing quote, or an escape that is unknown or cut off.
UnquoteTurn(text, s) ==
    LET Takes(n, byte) == [at |-> s.at + n, bytes |-> Append(s.bytes, byte), ended |-> "no"]
        Escaped(letter) ==
            CASE letter \in DOMAIN Escapes -> Takes(2, Escapes[letter])
              [] letter \in Digits -> Takes(1 + DigitsAt(text, s.at + 1), OctalAt(text, s.at + 1))
              [] OTHER -> [s EXCEPT !.ended = "bad"]
        over == s.ended # "no" \/ s.at > Len(text)
    IN  CASE over -> s
          [] ~over /\ text[s.at] = Quote -> [s EXCEPT !.ended = "closed"]
          [] ~over /\ text[s.at] \notin {Quote, Backslash} -> Takes(1, text[s.at])
          [] ~over /\ text[s.at] = Backslash ->
                IF s.at = Len(text) THEN [s EXCEPT !.ended = "bad"]
                ELSE Escaped(text[s.at + 1])

\* unquote_git_path: the bytes up to the closing quote, or NoFile.
Unquoted(text) ==
    LET read[n \in 0 .. Len(text)] ==
            IF n = 0 THEN [at |-> 1, bytes |-> <<>>, ended |-> "no"]
            ELSE UnquoteTurn(text, read[n - 1])
    IN  IF read[Len(text)].ended = "closed" THEN read[Len(text)].bytes ELSE NoFile

\* A plain name goes up to the first tab.
BeforeTab(text) ==
    SubSeq(text, 1, CHOOSE n \in 0 .. Len(text) :
        /\ \A i \in 1 .. n : text[i] # Tab
        /\ n = Len(text) \/ text[n + 1] = Tab)

\* parse_source_path for a header that names a file.
NamedBy(header) == IF header.quoted THEN Unquoted(header.text) ELSE BeforeTab(header.text)

-----------------------------------------------------------------------------
(* Finding what to compare: each Git command succeeds or fails.            *)

Fails == step' = "done" /\ verdict' = "error"

GoesOn(next) == step' = next /\ UNCHANGED verdict

parsing == <<git, reader, ranges, added>>

\* The roots that hold a directory.
RootsAbove(directory) == {r \in Repositories : IsPrefix(r, directory)}

\* git rev-parse --show-toplevel: the innermost root.
TopLevel(directory) ==
    CHOOSE r \in RootsAbove(directory) : \A q \in RootsAbove(directory) : IsPrefix(q, r)

\* The first seed in which Git finds a repository decides; without one the
\* last failure is returned.  Git may fail in a repository too.
FindRoot ==
    /\ step = "root"
    /\ \E discovers \in SUBSET {i \in DOMAIN Seeds : RootsAbove(Seeds[i]) # {}} :
         IF discovers = {}
         THEN Fails /\ UNCHANGED found
         ELSE /\ found' = TopLevel(Seeds[CHOOSE i \in discovers : \A j \in discovers : i <= j])
              /\ GoesOn("base")
    /\ UNCHANGED <<base, parsing>>

\* Without a base the remote's default branch is used, and where the remote
\* has none (status 1) the current branch.
ChooseBase ==
    /\ step = "base"
    /\ \/ base # "unset" /\ GoesOn("verify") /\ UNCHANGED base
       \/ /\ base = "unset"
          /\ \/ base' \in {"remote", "current"} /\ GoesOn("verify")
             \/ Fails /\ UNCHANGED base
    /\ UNCHANGED <<found, parsing>>

VerifyBase ==
    /\ step = "verify"
    /\ GoesOn("fork") \/ Fails
    /\ UNCHANGED <<found, base, parsing>>

\* The comparison is with the merge base; two histories without one (status 1)
\* are compared directly.
FindFork ==
    /\ step = "fork"
    /\ \/ base' \in {"fork", base} /\ GoesOn("diff")
       \/ Fails /\ UNCHANGED base
    /\ UNCHANGED <<found, parsing>>

\* Git may fail, and what it writes must be UTF-8 as a whole.
RunDiff ==
    /\ step = "diff"
    /\ (git.utf8 /\ GoesOn("parse")) \/ Fails
    /\ UNCHANGED <<found, base, parsing>>

-----------------------------------------------------------------------------
(* Reading one line of the diff.                                           *)

NoHeader == [quoted |-> FALSE, text |-> NoFile]   \* /dev/null
Garbled == [quoted |-> TRUE, text |-> <<>>]       \* no b/ and no closing quote

\* The header names no file that parse_source_path could read.
IsUnreadable(header) == header # NoHeader /\ NamedBy(header) = NoFile

Line(tag, header, first, count) ==
    [tag |-> tag, header |-> header, first |-> first, count |-> count]

Plain(tag) == Line(tag, NoHeader, 0, 0)

\* parse_hunk_range: a hunk that adds nothing has no range; an added line 0
\* is an error.
HunkIsRefused(line) == line.count > 0 /\ line.first = 0

HunkSpans(line) ==
    IF line.count = 0 THEN <<>>
    ELSE <<[first |-> line.first, past |-> line.first + line.count]>>

\* Mistake: a header pair counts wherever it stands.
ReadTrustsBodies(line) ==
    CASE line.tag = "diff" ->
           /\ reader' = [reader EXCEPT !.inHunk = FALSE, !.pending = FALSE]
           /\ UNCHANGED <<ranges, verdict, step>>
      [] line.tag = "---" ->
           /\ reader' = [reader EXCEPT !.pending = TRUE]
           /\ UNCHANGED <<ranges, verdict, step>>
      [] line.tag = "+++" ->
           /\ reader' = [reader EXCEPT
                 !.source = IF reader.pending THEN NamedBy(line.header) ELSE @,
                 !.pending = FALSE]
           /\ UNCHANGED ranges
           /\ IF reader.pending /\ IsUnreadable(line.header)
              THEN Fails ELSE UNCHANGED <<verdict, step>>
      [] line.tag = "@@" ->
           /\ reader' = [reader EXCEPT !.inHunk = TRUE]
           /\ IF reader.source # NoFile
              THEN ranges' = [ranges EXCEPT ![reader.source] = @ \o HunkSpans(line)]
              ELSE UNCHANGED ranges
           /\ UNCHANGED <<verdict, step>>
      [] OTHER -> UNCHANGED <<reader, ranges, verdict, step>>

\* parse_changed_lines, one line.  Headers name the source only outside a
\* hunk and in pairs.
Read(line) ==
    CASE line.tag = "diff" ->
           /\ reader' = [reader EXCEPT !.inHunk = FALSE, !.pending = FALSE]
           /\ UNCHANGED <<ranges, verdict, step>>
      [] line.tag = "---" ->
           /\ reader' = [reader EXCEPT !.pending = @ \/ ~reader.inHunk]
           /\ UNCHANGED <<ranges, verdict, step>>
      [] line.tag = "+++" ->
           /\ reader' = [reader EXCEPT
                 !.source = IF reader.pending THEN NamedBy(line.header) ELSE @,
                 !.pending = FALSE]
           /\ UNCHANGED ranges
           /\ IF reader.pending /\ IsUnreadable(line.header)
              THEN Fails ELSE UNCHANGED <<verdict, step>>
      [] line.tag = "@@" ->
           /\ reader' = [reader EXCEPT !.inHunk = TRUE]
           /\ IF reader.source = NoFile
              THEN UNCHANGED <<ranges, verdict, step>>
              ELSE IF HunkIsRefused(line)
              THEN Fails /\ UNCHANGED ranges
              ELSE /\ ranges' = [ranges EXCEPT ![reader.source] = @ \o HunkSpans(line)]
                   /\ UNCHANGED <<verdict, step>>
      [] OTHER -> UNCHANGED <<reader, ranges, verdict, step>>

comparing == <<found, base>>

-----------------------------------------------------------------------------
(* Git writes the diff.  A file is changed, created, removed, or moved      *)
(* without a change of its text (then it has no headers and no hunks).      *)

Writes(line, next) ==
    /\ step = "parse"
    /\ git' = next
    /\ Read(line)
    /\ UNCHANGED comparing

WriteFile ==
    /\ git.at \in {"start", "hunks"}
    /\ \E f \in git.left, kind \in {"changed", "created", "removed", "moved"} :
         Writes(Plain("diff"),
                [git EXCEPT !.left = @ \ {f}, !.file = f, !.kind = kind, !.floor = -1,
                            !.at = IF kind = "moved" THEN "start" ELSE "old"])
    /\ UNCHANGED added

WriteOld ==
    /\ git.at = "old"
    /\ Writes(Line("---", IF git.kind = "created" THEN NoHeader ELSE HeaderOf(git.file), 0, 0),
              [git EXCEPT !.at = "new"])
    /\ UNCHANGED added

WriteNew ==
    /\ git.at = "new"
    /\ Writes(Line("+++", IF git.kind = "removed" THEN NoHeader ELSE HeaderOf(git.file), 0, 0),
              [git EXCEPT !.at = "hunks"])
    /\ UNCHANGED added

\* An unchanged line separates two hunks.  A hunk that only removes names the
\* line before it, 0 at the top of a file; a created file is one hunk, and so
\* is a removed one.
WriteHunk ==
    /\ git.at = "hunks"
    /\ \E first \in git.floor + 1 .. LastLine, count \in 0 .. LastLine, minus \in 0 .. 1 :
         /\ count + minus > 0
         /\ count > 0 => first > git.floor + 1 /\ first + count - 1 <= LastLine
         /\ git.kind = "removed" => first = 0 /\ count = 0
         /\ git.kind = "created" => first = 1 /\ minus = 0
         /\ Writes(Line("@@", NoHeader, first, count),
                   [git EXCEPT !.at = IF minus > 0 THEN "minus" ELSE "plus",
                               !.floor = IF count = 0 THEN first ELSE first + count - 1,
                               !.plus = count])
         /\ added' = [added EXCEPT ![git.file] = @ \cup first .. first + count - 1]

\* The lines of a hunk: one that begins with two dashes or two pluses prints
\* as a header would.
WriteMinus ==
    /\ git.at = "minus"
    /\ \E line \in {Plain("other"), Line("---", Garbled, 0, 0)} :
         Writes(line, [git EXCEPT !.at = IF git.plus = 0 THEN "hunks" ELSE "plus"])
    /\ UNCHANGED added

WritePlus ==
    /\ git.at = "plus"
    /\ \E line \in {Plain("other"), Line("+++", Garbled, 0, 0)}
                   \cup {Line("+++", HeaderOf(f), 0, 0) : f \in Files} :
         Writes(line, [git EXCEPT !.plus = @ - 1,
                                  !.at = IF git.plus = 1 THEN "hunks" ELSE "plus"])
    /\ UNCHANGED added

\* The ranges as merge_ranges leaves them.
MergedRanges(spans) ==
    LET before == [i \in DOMAIN spans |->
                      {j \in DOMAIN spans :
                          \/ spans[j].first < spans[i].first
                          \/ spans[j].first = spans[i].first /\ j < i}]
    IN  MergeAll(SortedBy(spans, before))

\* The text ends after a file's last line, and the ranges are merged.
EndOfDiff ==
    /\ step = "parse"
    /\ git.at \in {"start", "hunks"}
    /\ ranges' = [f \in Files |-> MergedRanges(ranges[f])]
    /\ step' = "sources"
    /\ UNCHANGED <<comparing, git, reader, verdict, added>>

\* mutation_plan asks for every source whether it lies below the root.  One
\* of a repository nested there does, though the diff says nothing of it.
ValidateSources ==
    /\ step = "sources"
    /\ step' = "done"
    /\ verdict' = IF \A d \in SourceDirectories : IsPrefix(found, d) THEN "ok" ELSE "error"
    /\ UNCHANGED <<comparing, parsing>>

DiffInit ==
    /\ step = "root"
    /\ found = "none"
    /\ base \in {"given", "unset"}
    /\ \E text \in BOOLEAN :
       git = [at |-> "start", left |-> Files, file |-> NoFile, kind |-> "moved",
              floor |-> -1, plus |-> 0, utf8 |-> text]
    /\ reader = [source |-> NoFile, inHunk |-> FALSE, pending |-> FALSE]
    /\ ranges = [f \in Files |-> <<>>]
    /\ verdict = "none"
    /\ added = [f \in Files |-> {}]

DiffNext ==
    \/ FindRoot \/ ChooseBase \/ VerifyBase \/ FindFork \/ RunDiff
    \/ WriteFile \/ WriteOld \/ WriteNew \/ WriteHunk \/ WriteMinus \/ WritePlus
    \/ EndOfDiff \/ ValidateSources

DiffSpec == DiffInit /\ [][DiffNext]_diffVars

-----------------------------------------------------------------------------

\* ChangedLines::includes, for a source of the repository.
Includes(file, line) ==
    \E i \in DOMAIN ranges[file] : line \in Points(ranges[file][i])

\* A diff in UTF-8 that names files in UTF-8 is read without an error, and what
\* is selected of each file of the repository is exactly the lines its hunks
\* add, whatever text those lines hold, in whichever order files come and
\* however their names are quoted.  Once such a diff has begun, a command fails
\* only because a source lies outside the repository.
ChangedLinesAreExact ==
    /\ \A f \in Files, line \in 1 .. LastLine : Includes(f, line) <=> line \in added[f]
    /\ verdict = "error" /\ git.left # Files =>
         \E d \in SourceDirectories : ~IsPrefix(found, d)
=============================================================================
