-------------------------------- MODULE CsvImport --------------------------------
(***************************************************************************)
(* Reading a CSV file: src/lib/csv.ts and the two routes of the import     *)
(* wizard, which parse the same text twice: to show a preview with the     *)
(* delimiter, the header and the columns it guesses, and to import what    *)
(* the admin then confirms.                                                *)
(*                                                                         *)
(* A text is a sequence of characters, of which there are as many kinds as *)
(* the reader tells apart.  The file is written by a program that follows  *)
(* RFC 4180, in any of the ways it leaves open.                            *)
(***************************************************************************)
EXTENDS Naturals, Sequences, SequencesExt, FiniteSets

CONSTANTS
  Characters, \* what files are made of
  Tables,      \* what files hold: sequences of rows, rows of cells, cells of characters
  Headers,     \* the labels above them
  Delimiters,  \* DELIMITERS, in order of preference
  MaxDataRows  \* MAX_IMPORT_ROWS

VARIABLES
  file,     \* the table, how it was written, and its text
  wizard,   \* the preview, and what was confirmed
  handed    \* the rows handed to importContacts

csvVars == <<file, wizard, handed>>

Quote   == "quote"
Space   == "space"
CR      == "cr"
NewLine == "newline"
Bom     == "bom"
End     == "end"
At      == "@"      \* with the dot after it

Whitespace == {Space, CR, NewLine, "tab"}

Has(cell, chars) == \E k \in DOMAIN cell : cell[k] \in chars

Trim(cell) ==
  LET solid == {k \in DOMAIN cell : cell[k] \notin Whitespace}
  IN IF solid = {} THEN <<>> ELSE SubSeq(cell, Min(solid), Max(solid))

StripBom(text) == IF text # <<>> /\ Head(text) = Bom THEN Tail(text) ELSE text

-----------------------------------------------------------------------------
(* parseCsv. *)

PushField(r) ==
  [r EXCEPT !.row = Append(@, IF r.quoted THEN r.field ELSE Trim(r.field)), !.field = <<>>, !.quoted = FALSE]

\* Rows that are entirely empty are dropped.
PushRow(r) ==
  LET p == PushField(r)
  IN [p EXCEPT !.row = <<>>, !.rows = IF Len(p.row) > 1 \/ p.row[1] # <<>> THEN Append(@, p.row) ELSE @]

\* What is left when the text ends.
LastRow(r) == IF r.field # <<>> \/ r.row # <<>> THEN PushRow(r) ELSE r

ReadCharSingly(r, char, next, delimiter) ==
  CASE r.quoting /\ char = Quote -> [r EXCEPT !.quoting = FALSE]
    [] r.quoting /\ char # Quote -> [r EXCEPT !.field = Append(@, char)]
    [] ~r.quoting /\ char = Quote /\ Trim(r.field) = <<>> -> [r EXCEPT !.quoting = TRUE, !.quoted = TRUE, !.field = <<>>]
    [] ~r.quoting /\ char = delimiter -> PushField(r)
    [] ~r.quoting /\ char = CR -> r
    [] ~r.quoting /\ char = NewLine -> PushRow(r)
    [] OTHER -> [r EXCEPT !.field = Append(@, char)]

\* One character, with the one after it: a quote in quotes is doubled.
ReadChar(r, char, next, delimiter) ==
  IF r.skip THEN [r EXCEPT !.skip = FALSE]
  ELSE IF r.quoting THEN
    CASE char = Quote /\ next = Quote -> [r EXCEPT !.field = Append(@, Quote), !.skip = TRUE]
      [] char = Quote /\ next # Quote -> [r EXCEPT !.quoting = FALSE]
      [] OTHER -> [r EXCEPT !.field = Append(@, char)]
  ELSE
    CASE char = Quote /\ Trim(r.field) = <<>> -> [r EXCEPT !.quoting = TRUE, !.quoted = TRUE, !.field = <<>>]
      [] char = delimiter -> PushField(r)
      [] char = CR -> r
      [] char = NewLine -> PushRow(r)
      [] OTHER -> [r EXCEPT !.field = Append(@, char)]

FreshReader == [rows |-> <<>>, row |-> <<>>, field |-> <<>>, quoting |-> FALSE, quoted |-> FALSE, skip |-> FALSE]

\* The loop over a text, begun at r; next is what comes after it.
ReadOn(r, text, next, delimiter) ==
  LET read[i \in 0..Len(text)] ==
        IF i = 0 THEN r
        ELSE ReadChar(read[i - 1], text[i], IF i < Len(text) THEN text[i + 1] ELSE next, delimiter)
  IN read[Len(text)]

ParseCsv(raw, delimiter) == LastRow(ReadOn(FreshReader, StripBom(raw), End, delimiter)).rows

-----------------------------------------------------------------------------
(* The guesses. *)

LinesOf(text) ==
  LET split == FoldLeft(LAMBDA ls, char : IF char = NewLine THEN Append(ls, <<>>)
                                          ELSE Append(Front(ls), Append(Last(ls), char)),
                        <<<<>>>>, StripBom(text))
  IN SelectSeq(split, LAMBDA line : Trim(line) # <<>>)

Columns(line, delimiter) == Len(Head(Append(ParseCsv(line, delimiter), <<>>)))

\* counts[d][k]: the columns of line k, read with the d-th delimiter.
ColumnCounts(lines) == [d \in DOMAIN Delimiters |-> [k \in DOMAIN lines |-> Columns(lines[k], Delimiters[d])]]

PreferredByColumns(counts) ==
  Min({d \in DOMAIN counts : \A e \in DOMAIN counts : counts[e] = <<>> \/ counts[e][1] <= counts[d][1]})

\* The share of lines with as many columns as the first, in percent, and these columns; every
\* delimiter has as many lines, by which both are multiplied.
Score(count) == 100 * Cardinality({k \in DOMAIN count : count[k] = count[1]}) + count[1] * Len(count)

\* The best score, then the order of preference; a delimiter that gives one column is no candidate.
Preferred(counts) ==
  LET able == {d \in DOMAIN counts : counts[d] # <<>> /\ counts[d][1] >= 2}
  IN IF able = {} THEN 1 ELSE Min({d \in able : \A e \in able : Score(counts[e]) <= Score(counts[d])})

DetectDelimiter(text) == Delimiters[Preferred(ColumnCounts(LinesOf(text)))]

Labels == {"email", "first", "last", "name"}

\* looksLikeHeader: no address, and a label.
LooksLikeHeader(row) == (\A k \in DOMAIN row : ~Has(row[k], {At})) /\ \E k \in DOMAIN row : Has(row[k], Labels)

\* guessMapping: what a label stands for, but each role only once.
RoleOf(cell) ==
  IF Has(cell, {"email"}) THEN "email"
  ELSE CASE Trim(cell) \in {<<"first">>, <<"name">>} -> "firstName"
         [] Trim(cell) = <<"last">> -> "lastName"
         [] OTHER -> "ignore"

GuessMappingTwice(header) == [k \in DOMAIN header |-> RoleOf(header[k])]

GuessMapping(header) ==
  [k \in DOMAIN header |->
     IF \E j \in 1..k - 1 : RoleOf(header[j]) = RoleOf(header[k]) THEN "ignore" ELSE RoleOf(header[k])]

-----------------------------------------------------------------------------
(* The file. *)

\* RFC 4180, section 2: what is in quotes, and what has to be.
Quoted(cell) ==
  <<Quote>> \o FlattenSeq([k \in DOMAIN cell |-> IF cell[k] = Quote THEN <<Quote, Quote>> ELSE <<cell[k]>>]) \o <<Quote>>

MustQuote(cell) == Has(cell, {Quote, CR, NewLine, Bom} \cup {Delimiters[k] : k \in DOMAIN Delimiters}) \/ Trim(cell) # cell

WrittenCell(cell, style) == IF style.quoteAll \/ MustQuote(cell) THEN Quoted(cell) ELSE cell

WrittenRow(row, style) ==
  FlattenSeq([k \in DOMAIN row |-> (IF k = 1 THEN <<>> ELSE <<style.delimiter>>) \o WrittenCell(row[k], style)])

LineEnd(style) == IF style.crlf THEN <<CR, NewLine>> ELSE <<NewLine>>

Lines(rows, style) ==
  [k \in DOMAIN rows |-> WrittenRow(rows[k], style) \o (IF k = Len(rows) /\ ~style.lastEnds THEN <<>> ELSE LineEnd(style))]

CsvText(rows, style) == (IF style.bom THEN <<Bom>> ELSE <<>>) \o FlattenSeq(Lines(rows, style))

Styles == [delimiter : {Delimiters[k] : k \in DOMAIN Delimiters}, quoteAll : BOOLEAN, crlf : BOOLEAN, lastEnds : BOOLEAN, bom : BOOLEAN]

CsvStart(table, header, style) ==
  /\ file = [table |-> table, header |-> header, delimiter |-> style.delimiter,
             text |-> CsvText(IF header = <<>> THEN table ELSE <<header>> \o table, style)]
  /\ wizard = [at |-> "chosen"]
  /\ handed = <<>>

CsvInit == \E table \in Tables, header \in Headers \cup {<<>>}, style \in Styles : CsvStart(table, header, style)

\* A delimiter is none of the marks the reader knows.
ASSUME DelimitersAssumption ==
  /\ Delimiters \in Seq(Characters) /\ Delimiters # <<>>
  /\ \A k \in DOMAIN Delimiters : Delimiters[k] \notin {Quote, CR, NewLine, Bom}

\* A line with nothing on it is no row; a header is told from the first row of a table.
ASSUME TablesAssumption ==
  /\ {Quote, CR, NewLine, Bom} \subseteq Characters
  /\ \A table \in Tables : /\ table \in Seq(Seq(Seq(Characters)) \ {<<>>, <<<<>>>>})
                           /\ table # <<>> => ~LooksLikeHeader(table[1])
  /\ \A header \in Headers : header \in Seq(Seq(Characters)) \ {<<>>, <<<<>>>>} /\ LooksLikeHeader(header)

-----------------------------------------------------------------------------
(* The routes. *)

\* What POST /import/preview answers.
Shown(delimiter, rows) ==
  IF rows = <<>> THEN [at |-> "refused"]
  ELSE [at |-> "preview", delimiter |-> delimiter, hasHeader |-> LooksLikeHeader(rows[1]),
        rows |-> IF LooksLikeHeader(rows[1]) THEN Tail(rows) ELSE rows,
        mapping |-> GuessMapping(IF LooksLikeHeader(rows[1]) THEN rows[1] ELSE [k \in DOMAIN rows[1] |-> <<"column">>])]

(* POST /import/preview. *)
Preview ==
  /\ wizard.at = "chosen"
  /\ LET delimiter == DetectDelimiter(file.text) IN wizard' = Shown(delimiter, ParseCsv(file.text, delimiter))
  /\ UNCHANGED <<file, handed>>

\* indexOf.
ColumnOf(mapping, role) ==
  LET ks == {k \in DOMAIN mapping : mapping[k] = role} IN IF ks = {} THEN 0 ELSE Min(ks)

Cell(row, column) == IF column \in DOMAIN row THEN row[column] ELSE <<>>

\* The cells the admin has called address and name.
Picked(rows, mapping) ==
  [k \in DOMAIN rows |-> [email |-> Cell(rows[k], ColumnOf(mapping, "email")),
                          firstName |-> Cell(rows[k], ColumnOf(mapping, "firstName"))]]

HandedKeepingHeader(delimiter, hasHeader, mapping) == Picked(ParseCsv(file.text, delimiter), mapping)

\* POST /import/file: the text is parsed again, with what the preview says.
Handed(delimiter, hasHeader, mapping) ==
  LET all == ParseCsv(file.text, delimiter)
  IN Picked(SubSeq(all, IF hasHeader THEN 2 ELSE 1, Len(all)), mapping)

(* The admin has mapped the columns; an address is needed, and not too many rows. *)
Confirm(mapping) ==
  /\ wizard.at = "preview"
  /\ ColumnOf(mapping, "email") # 0
  /\ LET rows == Handed(wizard.delimiter, wizard.hasHeader, mapping)
     IN IF Len(rows) > MaxDataRows THEN wizard' = [at |-> "refused"] /\ UNCHANGED handed
        ELSE wizard' = [wizard EXCEPT !.at = "imported", !.mapping = mapping] /\ handed' = rows
  /\ UNCHANGED file

Mappings == {<<"email", "firstName">>, <<"firstName", "email">>, <<"ignore", "email">>}

CsvNext == Preview \/ (wizard.at = "preview" /\ \E mapping \in Mappings \cup {wizard.mapping} : Confirm(mapping))

CsvSpec == CsvInit /\ [][CsvNext]_csvVars

-----------------------------------------------------------------------------
(* Properties. *)

\* No other delimiter is in every row.  (The guess reads line by line, and takes a quote for one only
\* at the start of what it holds to be a field: a delimiter quoted in every row counts as one.)
TellsItsDelimiter ==
  \A d \in {Delimiters[k] : k \in DOMAIN Delimiters} \ {file.delimiter} :
    file.header # <<>> \/ \E k \in DOMAIN file.table : \A c \in DOMAIN file.table[k] : ~Has(file.table[k][c], {d})

\* The delimiter is found by the lines that agree on it, not by the first of them: one that is only
\* text, in some rows, is not taken for it (csv.ts:17-20).
DelimiterIsFound == wizard.at \in {"preview", "imported"} /\ TellsItsDelimiter => wizard.delimiter = file.delimiter

\* Read with its delimiter, the preview is the table that was written, whichever of its ways RFC 4180
\* left to the writer: quoted delimiters, doubled quotes, line ends, a BOM (csv.ts:4-6).
PreviewIsTheTable ==
  wizard.at \in {"preview", "imported"} /\ wizard.delimiter = file.delimiter =>
    /\ wizard.hasHeader <=> file.header # <<>>
    /\ wizard.rows = file.table

\* What is guessed can be confirmed as it is: no role is given to two columns, and there is one for
\* the address when a label names it.
GuessIsUsable ==
  wizard.at = "preview" =>
    /\ \A j, k \in DOMAIN wizard.mapping : j # k => wizard.mapping[j] # wizard.mapping[k] \/ wizard.mapping[j] = "ignore"
    /\ wizard.delimiter = file.delimiter /\ (\E k \in DOMAIN file.header : Has(file.header[k], {"email"})) =>
         ColumnOf(wizard.mapping, "email") # 0

\* Every row of the table reaches the import once, with its own cells, though the text is parsed
\* anew, and a header does not.
HandedAsWritten ==
  wizard.at = "imported" /\ wizard.delimiter = file.delimiter =>
    handed = Picked(file.table, wizard.mapping)

\* A file is imported as the table it was written from.
FileIsRead == HandedAsWritten /\ PreviewIsTheTable /\ GuessIsUsable
================================================================================
