----------------------------- MODULE SecretText -----------------------------
(***************************************************************************)
(* The text an operator edits the build secrets of a repository in: what a *)
(* POST makes of it, and what the page shows of the rows.  A character is  *)
(* a member of Char; a text grows by one character at a time, so the       *)
(* states are all the texts a POST may bring.  RepoSecrets has what        *)
(* happens to the rows.                                                    *)
(***************************************************************************)
EXTENDS Naturals, SequencesExt

CONSTANTS Letter,    \* characters of [A-Za-z_]
          Digit,     \* characters of [0-9]
          Other,     \* characters no key may have; " " stands for white space
          MaxLength  \* bound on the texts

CR == "\r"
LF == "\n"
Char == Letter \cup Digit \cup Other \cup {"=", "#", " ", CR, LF}

ASSUME TextAssumption == /\ MaxLength \in Nat
                         /\ (Letter \cup Digit \cup Other) \cap {"=", "#", " ", CR, LF} = {}

VARIABLE raw   \* textarea

RawInit == raw = <<>>
Type(c) == Len(raw) < MaxLength /\ raw' = Append(raw, c)
RawNext == \E c \in Char : Type(c)
RawSpec == RawInit /\ [][RawNext]_raw

-----------------------------------------------------------------------------
(* parseSecretsRaw. *)

\* strings.TrimSpace
Trimmed(s) == LET ink == {i \in DOMAIN s : s[i] \notin {" ", CR, LF}}
              IN  IF ink = {} THEN <<>> ELSE SubSeq(s, Min(ink), Max(ink))

\* Mutant: only LF ends a line.
LinesOfLF(t) ==
    LET joined(ls, i) == IF t[i] = LF THEN Append(ls, <<>>)
                         ELSE [ls EXCEPT ![Len(ls)] = Append(@, t[i])]
    IN  FoldLeftDomain(joined, << <<>> >>, t)

\* strings.Split at LF, after each CRLF and then each CR has become LF.
Lines(t) ==
    LET joined(ls, i) == IF t[i] = LF /\ i > 1 /\ t[i - 1] = CR THEN ls
                         ELSE IF t[i] \in {CR, LF} THEN Append(ls, <<>>)
                         ELSE [ls EXCEPT ![Len(ls)] = Append(@, t[i])]
    IN  FoldLeftDomain(joined, << <<>> >>, t)

\* keyRE
IsKey(s) == /\ s # <<>> /\ s[1] \in Letter
            /\ ToSet(s) \subseteq Letter \cup Digit

NoRows == [key \in {} |-> <<>>]
Skipped(line) == Trimmed(line) = <<>> \/ Trimmed(line)[1] = "#"

\* strings.SplitN at the first =, 0 if there is none.
Split(line) == SelectInSeq(line, LAMBDA c : c = "=")
KeyOf(line) == Trimmed(SubSeq(line, 1, Split(line) - 1))
ValueOf(line) == SubSeq(line, Split(line) + 1, Len(line))
Wrong(line) == Split(line) = 0 \/ ~IsKey(KeyOf(line))

\* out[key] = value
Put(rows, key, value) ==
    [k \in DOMAIN rows \cup {key} |-> IF k = key THEN value ELSE rows[k]]

\* Mutant: the first line of a key wins.
ParsedLineFirst(result, line) ==
    IF ~result.ok \/ Skipped(line) THEN result
    ELSE IF Wrong(line) THEN [ok |-> FALSE, rows |-> NoRows]
    ELSE IF KeyOf(line) \in DOMAIN result.rows THEN result
    ELSE [result EXCEPT !.rows = Put(@, KeyOf(line), ValueOf(line))]

\* The result so far is an error once a line has been one.
ParsedLine(result, line) ==
    IF ~result.ok \/ Skipped(line) THEN result
    ELSE IF Wrong(line) THEN [ok |-> FALSE, rows |-> NoRows]
    ELSE [result EXCEPT !.rows = Put(@, KeyOf(line), ValueOf(line))]

ParsedLines(lines) == FoldLeft(ParsedLine, [ok |-> TRUE, rows |-> NoRows], lines)
Parsed(t) == ParsedLines(Lines(t))

-----------------------------------------------------------------------------
(* secretsToRawText, and the form that brings the text back. *)

\* The order of the rows is that of their keys; any will do here.
Rendered(rows) ==
    FlattenSeq([i \in 1..Cardinality(DOMAIN rows) |->
                  LET key == SetToSeq(DOMAIN rows)[i] IN key \o <<"=">> \o rows[key] \o <<LF>>])

\* A browser sends the lines of a textarea with CRLF between them.
Submitted(t) == FlattenSeq([i \in DOMAIN t |-> IF t[i] = LF THEN <<CR, LF>> ELSE <<t[i]>>])

-----------------------------------------------------------------------------
(* The rules of decision 3a-3c, said without going through the lines. *)

\* Where lines end, the start and the end of the text included.
Ends(t) == {0, Len(t) + 1} \cup {i \in DOMAIN t : t[i] \in {CR, LF}}

\* The stretches of t between two ends.
Spans(t) == {l \in Ends(t) \X Ends(t) : l[1] < l[2] /\ \A e \in Ends(t) : e <= l[1] \/ e >= l[2]}

\* Those that are no comment and not blank.
Entries(t) == {l \in Spans(t) : LET ink == {i \in (l[1] + 1)..(l[2] - 1) : t[i] # " "}
                                IN  ink # {} /\ t[Min(ink)] # "#"}

\* Key and value of the entry of t between positions l[1] and l[2].
EntryKey(t, l) == LET at == Min({i \in (l[1] + 1)..l[2] : i = l[2] \/ t[i] = "="})
                  IN  Trimmed(SubSeq(t, l[1] + 1, at - 1))
EntryValue(t, l) == LET at == Min({i \in (l[1] + 1)..(l[2] - 1) : t[i] = "="})
                    IN  SubSeq(t, at + 1, l[2] - 1)
IsEntry(t, l) == /\ \E i \in (l[1] + 1)..(l[2] - 1) : t[i] = "="
                 /\ IsKey(EntryKey(t, l))

\* A text is taken when all its entries are KEY=VALUE, and a key then has the
\* value of its last entry, blanks and further = included; blank lines, comments
\* and the way lines end make no difference.
ParsedAsWritten ==
    LET result == Parsed(raw)  entries == Entries(raw) IN
    /\ result.ok <=> \A l \in entries : IsEntry(raw, l)
    /\ result.ok =>
       /\ DOMAIN result.rows = {EntryKey(raw, l) : l \in entries}
       /\ \A l \in entries :
             (\A m \in entries : EntryKey(raw, m) = EntryKey(raw, l) => m[1] <= l[1])
                 => result.rows[EntryKey(raw, l)] = EntryValue(raw, l)

\* Saving the page as it is shown changes nothing: whatever rows a POST has
\* made, their text comes back from the browser as the same rows.
ShownIsSaved ==
    LET result == Parsed(raw) IN
    result.ok => Parsed(Submitted(Rendered(result.rows))) = result
=============================================================================
