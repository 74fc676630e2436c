------------------------------- MODULE MessageBuilding -------------------------------
(***************************************************************************)
(* The message a recipient is sent, and the one a preview or a test send   *)
(* shows: src/lib/personalize.ts, src/lib/message-builder.ts and the       *)
(* conversion to text of src/lib/html.ts.                                  *)
(*                                                                         *)
(* A text is a sequence of symbols: what the code's patterns tell apart is *)
(* a symbol of its own ("{{", "&", the end of an entity, a tag, a link).   *)
(***************************************************************************)
EXTENDS Naturals, Sequences, SequencesExt, FiniteSetsExt

CONSTANTS
  Symbols,    \* of texts, with the names of merge values and the addresses:
  Links,      \* of unsubscribe pages,
  Pixels,     \* and of tracking pixels
  LowerCase,  \* every name a placeholder or a person's own field may have, in lower case
  Parts,      \* what bodies are made of, see Var, Literal and Link
  Templates,  \* bodies as they were meant: sequences of parts
  People,     \* recipients: [known, own, link, pixel]
  Sample      \* the recipient of previews and test sends, who has neither link nor pixel

VARIABLES
  body,     \* the campaign's, as meant, and the plain text that was saved with it
  message   \* the last message built, and for whom

messageVars == <<body, message>>

Blank == "space"
NoBodysLink == "link of a preview"   \* .../unsubscribe/preview
Missing == "none"
MergeNames == DOMAIN LowerCase

RidOf(text, symbols) == FlattenSeq([i \in DOMAIN text |-> IF text[i] \in symbols THEN <<>> ELSE <<text[i]>>])
Where(text, symbols) == {i \in DOMAIN text : text[i] \in symbols}

\* text.replace(/.../g, ...), for a pattern whose matches do not overlap: [first, last, by].
Replaced(text, matches) ==
  FlattenSeq([i \in DOMAIN text |->
    IF \E m \in matches : m.first = i THEN (CHOOSE m \in matches : m.first = i).by
    ELSE IF \E m \in matches : i \in m.first..m.last THEN <<>> ELSE <<text[i]>>])

-----------------------------------------------------------------------------
(* personalize.ts *)

LinkOf(person) == IF person.link = Missing THEN NoBodysLink ELSE person.link

FullName(known) ==
  known.firstName \o (IF known.firstName # <<>> /\ known.lastName # <<>> THEN <<Blank>> ELSE <<>>) \o known.lastName

Pair(name, value) == [name |-> name, value |-> value]

BuiltIn(known) ==
  <<Pair("email", known.email), Pair("firstName", known.firstName), Pair("lastName", known.lastName),
    Pair("fullName", FullName(known))>>

\* Of a person's own fields those that are called like a built-in one.
Hidden(person) == {f \in ToSet(person.own) : \E g \in ToSet(BuiltIn(person.known)) : g.name = f.name}

\* A field of the person's own named as the link is not replaced by it.
MergeValuesOwnLast(person) ==
  BuiltIn(person.known) \o RidOf(person.own, Hidden(person)) \o <<Pair("unsubscribeUrl", <<LinkOf(person)>>)>>

\* buildMergeValues, in the order of its keys: a built-in wins over a field of the person's own with
\* that very name, and the link over both, in the place of what it replaces.
MergeValues(person) ==
  LET values == BuiltIn(person.known) \o RidOf(person.own, Hidden(person))
      link   == Pair("unsubscribeUrl", <<LinkOf(person)>>)
  IN IF \E f \in ToSet(values) : f.name = link.name
     THEN [k \in DOMAIN values |-> IF values[k].name = link.name THEN link ELSE values[k]]
     ELSE Append(values, link)

\* lookup: that very name, else the first that is the same in lower case, else nothing.
Lookup(values, name) ==
  LET same  == {k \in DOMAIN values : values[k].name = name}
      alike == {k \in DOMAIN values : LowerCase[values[k].name] = LowerCase[name]}
  IN IF same # {} THEN values[Min(same)].value ELSE IF alike # {} THEN values[Min(alike)].value ELSE <<>>

\* What PLACEHOLDER_RE matches: a name in braces, with any space around it.
PlaceholdersUnspaced(text) ==
  {p \in [first : Where(text, {"{{"}), name : Where(text, MergeNames), last : Where(text, {"}}"})] :
     p.name = p.first + 1 /\ p.last = p.name + 1}

Placeholders(text) ==
  {p \in [first : Where(text, {"{{"}), name : Where(text, MergeNames), last : Where(text, {"}}"})] :
     /\ p.first < p.name /\ p.name < p.last
     /\ \A j \in p.first + 1..p.last - 1 : j # p.name => text[j] = Blank}

EscapeHtmlLate(text) ==
  FlattenSeq([k \in DOMAIN text |-> IF text[k] = "&" THEN <<"&", "amp;">>
                                    ELSE IF text[k] = "<" THEN <<"&", "amp;", "lt;">>
                                    ELSE IF text[k] = "'" THEN <<"&", "amp;", "#39;">> ELSE <<text[k]>>])

\* escapeHtml; ">" and the double quote are as "<" is.
EscapeHtml(text) ==
  FlattenSeq([k \in DOMAIN text |-> IF text[k] = "&" THEN <<"&", "amp;">>
                                    ELSE IF text[k] = "<" THEN <<"&", "lt;">>
                                    ELSE IF text[k] = "'" THEN <<"&", "#39;">> ELSE <<text[k]>>])

\* One pass, so what a value holds is not read as a template.
RenderWith(value, text) ==
  Replaced(text, {[first |-> p.first, last |-> p.last, by |-> value[text[p.name]]] : p \in Placeholders(text)})

RenderTemplate(text, values) == RenderWith([n \in MergeNames |-> Lookup(values, n)], text)
RenderTemplateHtml(text, values) == RenderWith([n \in MergeNames |-> EscapeHtml(Lookup(values, n))], text)

-----------------------------------------------------------------------------
(* html.ts *)

\* The references to characters: "&" and the end of one of them.
Decoded(text, table) ==
  Replaced(text, {[first |-> i, last |-> i + 1, by |-> <<table[text[i + 1]]>>] :
                    i \in {i \in Where(text, {"&"}) : i + 1 \in Where(text, DOMAIN table)}})

Numeric == [n \in {"#39;"} |-> "'"]
Named   == [n \in {"amp;", "lt;"} |-> IF n = "amp;" THEN "&" ELSE "<"]

Tags == {"<p>", "</p>", "<br>", "<a href=", "'>", "</a>"}

Trimmed(text) ==
  LET ink == Where(text, ToSet(text) \ {Blank}) IN IF ink = {} THEN <<>> ELSE SubSeq(text, Min(ink), Max(ink))

\* The <a> elements with an address; there are none inside another.
Anchors(html) ==
  {a \in [first : Where(html, {"<a href="}), quote : Where(html, {"'>"}), last : Where(html, {"</a>"})] :
     /\ a.first + 1 < a.quote /\ a.quote < a.last
     /\ \A j \in a.first + 1..a.last - 1 : html[j] \in {"<a href=", "'>", "</a>"} => j = a.quote}

\* Of an <a> its words, then its address, unless that is what they are.
Expanded(href, label) ==
  LET words == RidOf(label, Tags)
  IN IF Trimmed(words) \in {<<>>, href} THEN href ELSE words \o <<"(">> \o href \o <<")">>

LinksExpanded(html) ==
  Replaced(html, {[first |-> a.first, last |-> a.last,
                   by |-> Expanded(SubSeq(html, a.first + 1, a.quote - 1), SubSeq(html, a.quote + 1, a.last - 1))] :
                    a \in Anchors(html)})

\* htmlToText.  White space is left out: texts are compared without it.
HtmlToText(html) == RidOf(Decoded(Decoded(RidOf(LinksExpanded(html), Tags), Numeric), Named), {Blank})

-----------------------------------------------------------------------------
(* message-builder.ts *)

\* A part of a body: a placeholder as it is spelled, what stands around it, or instead of it in a
\* literal, and what is shown of the words that stand there.
Part(name, spelled, before, words, after, shown) ==
  [name |-> name, spelled |-> spelled, before |-> before, words |-> words, after |-> after, shown |-> shown]
Var(name, spaces) == Part(name, <<"{{">> \o spaces \o <<name>> \o spaces \o <<"}}">>, <<>>, <<>>, <<>>, <<>>)
Literal(html, shown) == Part(Missing, <<>>, <<>>, html, <<>>, shown)
Link(name, words, shown) == Part(name, <<"{{", name, "}}">>, <<"<a href=">>, <<"'>">> \o words, <<"</a>">>, shown)

\* A part with a value in the place of its placeholder, and a body with its placeholders.
FilledWith(part, value) == part.before \o value \o part.words \o part.after
Written(parts) == FlattenSeq([k \in DOMAIN parts |-> FilledWith(parts[k], parts[k].spelled)])

\* buildMessage.  The footer and the last line of the text carry the link.
BuildMessage(campaign, person, preview) ==
  LET values == MergeValues(person)
      link   == LinkOf(person)
      html   == RenderTemplateHtml(Written(campaign.parts), values)
      footer == IF link \in ToSet(html) THEN <<>> ELSE <<link>>
      pixel  == IF ~preview /\ person.pixel # Missing THEN <<person.pixel>> ELSE <<>>
      text   == IF RidOf(campaign.text, {Blank}) # <<>> THEN RenderTemplate(campaign.text, values) ELSE HtmlToText(html)
  IN [built |-> TRUE, to |-> person, preview |-> preview, subject |-> RenderTemplate(Written(campaign.parts), values),
      main |-> html, html |-> html \o footer \o pixel, text |-> text \o <<link>>,
      listUnsubscribe |-> IF person.link = Missing THEN {} ELSE {person.link}]

MessageStart(parts, text) == body = [parts |-> parts, text |-> text] /\ message = [built |-> FALSE]

\* The text is made of the html when that is saved (PATCH), unless an admin has emptied it.
MessageInit == \E parts \in Templates : \E text \in {HtmlToText(Written(parts)), <<>>} : MessageStart(parts, text)

(* worker.ts, for a recipient that was claimed. *)
Deliver == \E person \in People : message' = BuildMessage(body, person, FALSE) /\ UNCHANGED body

(* GET .../preview and POST .../test. *)
ShowPreview == message' = BuildMessage(body, Sample, TRUE) /\ UNCHANGED body

MessageNext == Deliver \/ ShowPreview

MessageSpec == MessageInit /\ [][MessageNext]_messageVars

-----------------------------------------------------------------------------
(* What texts, people and bodies are. *)

\* A mark has a meaning to the code; what is plain may be a person's, who spells tags out with "<".
Marks == Tags \cup {Blank, "{{", "}}", "&", "<", "'", "(", ")"} \cup DOMAIN Numeric \cup DOMAIN Named
Plain == Symbols \ (Tags \cup Links \cup Pixels)

ASSUME SymbolsAssumption ==
  /\ Marks \cup MergeNames \cup Links \cup Pixels \subseteq Symbols
  /\ MergeNames \cap Marks = {} /\ (Links \cup Pixels) \cap (Marks \cup MergeNames) = {} /\ Links \cap Pixels = {}
  /\ NoBodysLink \in Links /\ Missing \notin Links \cup Pixels \cup MergeNames
  /\ {"email", "firstName", "lastName", "fullName", "unsubscribeUrl"} \subseteq MergeNames

\* Addresses of unsubscribe pages and pixels are made by the server; a person's own field may claim to be one.
ASSUME PeopleAssumption ==
  /\ \A p \in People \cup {Sample} :
       /\ p.known \in [email : Seq(Plain), firstName : Seq(Plain), lastName : Seq(Plain)]
       /\ p.own \in Seq([name : MergeNames, value : Seq(Plain \cup Links)])
       /\ \A f \in ToSet(p.own) : f.name # "unsubscribeUrl" => f.value \in Seq(Plain)
  /\ \A p \in People : p.link \in Links /\ p.pixel \in Pixels
  /\ Sample.link = Missing /\ Sample.pixel = Missing

\* What is seen of a part, when the conversion to text meets it with a value or a placeholder in it: of a
\* link its words and the address, unless that is empty or what the words are.
Appears(part, value, met) ==
  IF part.before = <<>> \/ part.shown = <<>> \/ met = <<>> THEN part.shown \o value
  ELSE IF Trimmed(RidOf(part.words, Tags)) = met THEN value
  ELSE part.shown \o <<"(">> \o value \o <<")">>

\* Words by themselves: no link, no placeholder, no half of a reference at their end, and what is shown of them.
Says(words, shown) ==
  /\ words \in Seq(Symbols \ (Links \cup Pixels \cup {"<a href=", "'>", "</a>"})) /\ shown \in Seq(Plain)
  /\ Placeholders(words) = {} /\ Placeholders(RidOf(shown, {Blank})) = {}
  /\ HtmlToText(words) = RidOf(shown, {Blank})
  /\ RidOf(words, Tags) # <<>> => Last(RidOf(words, Tags)) # "&"
  /\ Trimmed(RidOf(words, Tags)) = <<>> <=> shown = <<>>

ASSUME PartsAssumption ==
  \A p \in Parts :
    \/ p.name \in MergeNames /\ \E spaces \in {<<>>, <<Blank>>} : p = Var(p.name, spaces)
    \/ p = Literal(p.words, p.shown) /\ Says(p.words, p.shown)
    \/ p.name \in MergeNames /\ p = Link(p.name, Tail(p.words), p.shown) /\ Says(Tail(p.words), p.shown)

\* No placeholder begins in one text and ends in another.
Apart(texts) ==
  \A k \in DOMAIN texts : \A p \in Placeholders(FlattenSeq(texts)) :
    LET n == Len(FlattenSeq(SubSeq(texts, 1, k))) IN p.last <= n \/ p.first > n

ASSUME TemplatesAssumption ==
  /\ Templates \subseteq Seq(Parts)
  /\ \A parts \in Templates :
       /\ Apart([k \in DOMAIN parts |-> FilledWith(parts[k], parts[k].spelled)])
       /\ Apart([k \in DOMAIN parts |-> RidOf(Appears(parts[k], parts[k].spelled, parts[k].spelled), {Blank})])

-----------------------------------------------------------------------------
(* Properties. *)

Built == message.built

\* What a part is about for a person: nothing for a literal.
About(part, person) == IF part.name = Missing THEN <<>> ELSE Lookup(MergeValues(person), part.name)

\* Every placeholder is replaced once by what it stands for, by nothing when that is unknown; the rest
\* of the template, and a value that looks like a placeholder, stay as they are (personalize.ts:4-5).
RenderedAsMeant ==
  Built =>
    /\ message.subject = FlattenSeq([k \in DOMAIN body.parts |-> FilledWith(body.parts[k], About(body.parts[k], message.to))])
    /\ message.main = FlattenSeq([k \in DOMAIN body.parts |-> FilledWith(body.parts[k], EscapeHtml(About(body.parts[k], message.to)))])

\* Html, text and header lead to this recipient's unsubscribe page and to no other, whatever the
\* template and the recipient's own fields say; only what is delivered is tracked, as theirs
\* (message-builder.ts:52-57, 88-89).
LinksAreTheRecipients ==
  Built =>
    /\ ToSet(message.html) \cap Links = {LinkOf(message.to)}
    /\ ToSet(message.text) \cap Links = {LinkOf(message.to)}
    /\ message.listUnsubscribe = {message.to.link} \ {Missing}
    /\ ToSet(message.html) \cap Pixels = (IF message.preview THEN {} ELSE {message.to.pixel})

\* The plain text says what the html shows, whether it was made of the template or of the message: the
\* characters a value holds come back from their escapes exactly once.
TextSaysWhatIsShown ==
  Built =>
    RidOf(message.text, {Blank}) =
      RidOf(FlattenSeq([k \in DOMAIN body.parts |->
                          LET value == About(body.parts[k], message.to)
                          IN Appears(body.parts[k], value, IF body.text = <<>> THEN EscapeHtml(value) ELSE body.parts[k].spelled)])
              \o <<LinkOf(message.to)>>, {Blank})

\* A message says, in html and in text, what its template means to this recipient, with this
\* recipient's links.
MessageIsMeant == RenderedAsMeant /\ LinksAreTheRecipients /\ TextSaysWhatIsShown
================================================================================
