------------------------------- MODULE MCRecords -------------------------------
(***************************************************************************)
(* What is kept, read and written for people: contacts and test campaigns, *)
(* times, files, messages, the test mail server, sessions and settings.    *)
(* Apart from the contacts of test campaigns these share nothing, so a     *)
(* behaviour is one part's: the others stay as they start.                 *)
(***************************************************************************)
EXTENDS TestCampaigns, ScheduleTimes, CsvImport, MessageBuilding, TestSmtp, SignIn, Settings

CONSTANTS ann, bob, t1, t2, t3, n1

VARIABLE part

recordsVars == <<part, testVars, timesVars, csvVars, messageVars, smtpVars, signInVars, settingsVars>>

\* Contacts and test campaigns.
MCBatch == [n \in {1, 2} |-> IF n = 1 THEN {t1, t2} ELSE {t3}]
Row(address, name) == [address |-> address, name |-> name]
MCInputs == {<<Row(bob, n1), Row(Absent, NoName), Row(ann, NoName)>>, <<Row(Garbage, NoName), Row(ann, n1), Row(ann, NoName), Row(bob, NoName)>>}

\* Zones whose clocks go forward or back, by one unit or by several, and readers ahead or behind.
MCOffsets == {-4, 0, 1, 5}
MCStarts  == {12, 24}
MCSkews   == {-1, 1}

\* Files with delimiters, quotes, line ends and white space in their cells.
Simple  == {<<At>>, <<At, "comma">>}
Awkward == {<<>>, <<Quote>>, <<"x", NewLine>>, <<"semicolon", Quote>>, <<CR, Space>>}
MCCharacters == {At, "comma", "semicolon", "tab", Quote, "x", NewLine, CR, Space, Bom, "email", "name"}
MCTables ==
  {<<<<a, b>>, <<<<At>>, c>>>> : a \in Simple, b \in Awkward, c \in Awkward} \cup {[k \in 1..4 |-> <<<<At>>, <<>>>>]}
MCHeaders == {<<<<"email">>, <<"name">>>>, <<<<Space, "email">>, <<"email", "x">>>>}
MCDelimiters == <<"comma", "semicolon", "tab">>

\* Recipients whose names hold what templates and html give a meaning to.
MCLowerCase == [email |-> "email", firstName |-> "firstname", lastName |-> "lastname", fullName |-> "fullname",
                unsubscribeUrl |-> "unsubscribeurl", firstname |-> "firstname", PLAN |-> "plan", plan |-> "plan"]
MCLinks   == {"link of ann", "link of a preview", "old link"}
MCSymbols == Marks \cup DOMAIN MCLowerCase \cup MCLinks \cup {"pixel of ann", "Ann", "B", "own", "ann@", "jane@", "Jane", "x"}
Strange == {<<>>, <<"Ann">>, <<"<", "Ann">>, <<"&", "lt;">>, <<"'">>, <<"{{", "plan", "}}">>}
MCOwn == {<<>>, <<Pair("firstname", <<"own">>), Pair("PLAN", <<"&", "#39;">>)>>,
          <<Pair("email", <<"x">>), Pair("unsubscribeUrl", <<"old link">>)>>}
MCPeople ==
  {[known |-> [email |-> <<"ann@">>, firstName |-> f, lastName |-> l], own |-> o, link |-> "link of ann", pixel |-> "pixel of ann"] :
     f \in Strange, l \in {<<>>, <<"B">>}, o \in MCOwn}
MCSample ==
  [known |-> [email |-> <<"jane@">>, firstName |-> <<"Jane">>, lastName |-> <<>>], own |-> <<>>, link |-> Missing, pixel |-> Missing]
MCParts ==
  {Var(n, s) : n \in {"firstName", "fullName", "firstname", "plan"}, s \in {<<>>, <<Blank>>}} \cup
  {Literal(<<"<p>", "&", "amp;", "lt;", "</p>">>, <<"&", "lt;">>), Literal(<<"{{", Blank, "plan">>, <<"{{", "plan">>)} \cup
  {Link("unsubscribeUrl", <<>>, <<>>), Link("firstName", <<"Ann", Blank, "<br>">>, <<"Ann">>)}
MCTemplates == {<<a, b>> : a \in MCParts, b \in MCParts} \cup {<<>>}

\* The test server's recipients.
MCTo       == <<"tempfail1", "slow", "permfail", "slow">>
MCScenario == [a \in {"tempfail1", "slow", "permfail"} |-> IF a = "tempfail1" THEN "tempfail" ELSE a]
MCFailures == [a \in {"tempfail1", "slow", "permfail"} |-> IF a = "tempfail1" THEN 1 ELSE 0]

\* Servers with one key or another, or none; with nothing, one field or everything in the environment.
Environment(from, security, password, key) == [fromEmail |-> from, smtpSecurity |-> security, smtpPassword |-> password, key |-> key]
MCFirst == Environment(Unset, Unset, Unset, "key 1")
MCEnvironments ==
  {MCFirst, Environment(Unset, "tls", Unset, "key 2"), Environment("env@", "ssl", "of env", Unset)}

RecordsInit ==
  /\ part \in {"contacts", "times", "files", "messages", "smtp", "sessions", "settings"}
  /\ TestInit /\ SmtpInit /\ SignInInit /\ SettingsInit
  /\ IF part = "times" THEN TimesInit ELSE TimesStart(0, 0, 12, 1)
  /\ IF part = "files" THEN CsvInit
     ELSE CsvStart(<<>>, <<>>, [delimiter |-> "tab", quoteAll |-> FALSE, crlf |-> FALSE, lastEnds |-> FALSE, bom |-> FALSE])
  /\ IF part = "messages" THEN MessageInit ELSE MessageStart(<<>>, <<>>)

RecordsNext ==
  /\ UNCHANGED part
  /\ \/ part = "contacts" /\ TestNext    /\ UNCHANGED <<timesVars, csvVars, messageVars, smtpVars, signInVars, settingsVars>>
     \/ part = "times"    /\ TimesNext   /\ UNCHANGED <<testVars, csvVars, messageVars, smtpVars, signInVars, settingsVars>>
     \/ part = "files"    /\ CsvNext     /\ UNCHANGED <<testVars, timesVars, messageVars, smtpVars, signInVars, settingsVars>>
     \/ part = "messages" /\ MessageNext /\ UNCHANGED <<testVars, timesVars, csvVars, smtpVars, signInVars, settingsVars>>
     \/ part = "smtp"     /\ SmtpNext    /\ UNCHANGED <<testVars, timesVars, csvVars, messageVars, signInVars, settingsVars>>
     \/ part = "sessions" /\ SignInNext  /\ UNCHANGED <<testVars, timesVars, csvVars, messageVars, smtpVars, settingsVars>>
     \/ part = "settings" /\ SettingsNext /\ UNCHANGED <<testVars, timesVars, csvVars, messageVars, smtpVars, signInVars>>

RecordsSpec == RecordsInit /\ [][RecordsNext]_recordsVars
================================================================================
