--------------------------------- MODULE Settings ---------------------------------
(***************************************************************************)
(* The mail settings: src/lib/settings.ts with the encryption of           *)
(* src/lib/crypto.ts, the routes under src/app/api/settings and the form   *)
(* of the settings page.                                                   *)
(*                                                                         *)
(* One row holds them, made by whoever looks first; environment variables  *)
(* stand above it.  The password is kept encrypted under a key of the      *)
(* environment, which may be another after a restart.                      *)
(***************************************************************************)
EXTENDS Naturals, FiniteSets

CONSTANTS
  Forms,          \* browser tabs with the settings page
  Sender,         \* whoever only reads the configuration: a tick, a campaign's request
  Environments,   \* [fromEmail, smtpSecurity, smtpPassword, key], each may be Unset
  FirstEnvironment,
  Unset,
  MaxEdits,       \* bound: on what is typed
  MaxPasswords,   \* bound: on passwords typed
  MaxSaves,       \* bound: on saves
  MaxRestarts     \* bound: on restarts

ASSUME SettingsAssumption == Sender \notin Forms

VARIABLES
  env,          \* process.env of the running server; cachedKey is its key
  settingsRow,  \* app_settings, or NoRow
  settingsForm, \* what each tab shows, or NoPage
  request,      \* each actor's request: at, and what it is for
  lastSave,     \* history: what the table should hold after the saves so far
  told,         \* history: passwords whose form was told that they are saved
  edits, passwords, saves, restarts

settingsVars == <<env, settingsRow, settingsForm, request, lastSave, told, edits, passwords, saves, restarts>>

Fields     == {"fromEmail", "smtpSecurity"}
NoRow      == [fields |-> "none"]
NoPage     == [boot |-> "never"]
NoRequest  == [at |-> "none"]
NoPassword == 0
DefaultRow == [fields |-> [fromEmail |-> "null", smtpSecurity |-> "starttls"], secret |-> [key |-> Unset, plain |-> NoPassword]]

Typeable(field) == IF field = "fromEmail" THEN {"null", "from@", "malformed"} ELSE {"starttls", "tls"}

SettingsStart(e) ==
  /\ env = e
  /\ settingsRow = NoRow
  /\ settingsForm = [t \in Forms |-> NoPage]
  /\ request = [a \in Forms \cup {Sender} |-> NoRequest]
  /\ lastSave = [fields |-> DefaultRow.fields, password |-> NoPassword]
  /\ told = {}
  /\ edits = 0 /\ passwords = 0 /\ saves = 0 /\ restarts = 0

SettingsInit == SettingsStart(FirstEnvironment)

-----------------------------------------------------------------------------
(* What the server makes of the row and the environment. *)

\* A table of the variables that forgot one.
OverridesButSecurity == {f \in {"fromEmail"} : env[f] # Unset}

\* activeEnvOverrides
Overrides == {f \in Fields : env[f] # Unset}

\* An unknown mode of encryption in the environment is passed over.
Counts(field) == env[field] # Unset /\ (field = "smtpSecurity" => env[field] \in {"none", "starttls", "tls"})
InEffect(field) == IF Counts(field) THEN env[field] ELSE settingsRow.fields[field]

\* decryptSecret: only the key that encrypted opens the secret.
Opens(secret) == env.key # Unset /\ env.key = secret.key

\* The error of decryptSecret is swallowed.
ReadableAnyhow == TRUE

\* A password that is stored and cannot be opened is an error.
Readable == env.smtpPassword # Unset \/ settingsRow.secret.plain = NoPassword \/ Opens(settingsRow.secret)

Password ==
  IF env.smtpPassword # Unset THEN env.smtpPassword
  ELSE IF Opens(settingsRow.secret) THEN settingsRow.secret.plain ELSE NoPassword

\* getSmtpConfig
SmtpConfig ==
  IF InEffect("fromEmail") = "null" THEN [outcome |-> "not configured"]
  ELSE IF ~ Readable THEN [outcome |-> "error"]
  ELSE [outcome |-> "config", fields |-> [f \in Fields |-> InEffect(f)], password |-> Password]

-----------------------------------------------------------------------------
(* loadSettingsRow, in every request. *)

\* There was none when it was looked for.
LookUp(a) ==
  /\ request[a].at = "looking" /\ settingsRow = NoRow
  /\ request' = [request EXCEPT ![a].at = "inserting"]
  /\ UNCHANGED <<env, settingsRow, settingsForm, lastSave, told, edits, passwords, saves, restarts>>

\* The row is read, then or now.
Loaded(a, what) ==
  request[a].at \in {"looking", "loaded"} /\ request[a].what = what /\ settingsRow # NoRow

\* The insert takes the place of a row that is there.
InsertRowOver(a) ==
  /\ request[a].at = "inserting"
  /\ settingsRow' = DefaultRow
  /\ request' = [request EXCEPT ![a].at = "loaded"]
  /\ UNCHANGED <<env, settingsForm, lastSave, told, edits, passwords, saves, restarts>>

\* Somebody else's row is left alone, and read.
InsertRow(a) ==
  /\ request[a].at = "inserting"
  /\ settingsRow' = IF settingsRow = NoRow THEN DefaultRow ELSE settingsRow
  /\ request' = [request EXCEPT ![a].at = "loaded"]
  /\ UNCHANGED <<env, settingsForm, lastSave, told, edits, passwords, saves, restarts>>

\* The database or the connection to it fails, or the connection to the browser does.
CallFails(a) ==
  /\ request[a] # NoRequest
  /\ request' = [request EXCEPT ![a] = NoRequest]
  /\ UNCHANGED <<env, settingsRow, settingsForm, lastSave, told, edits, passwords, saves, restarts>>

\* A tick, a send, a new campaign, the audience step: each reads the configuration.  With a row there it
\* changes nothing: SmtpConfig, of any state, is what it would get.
ReadConfig ==
  /\ request[Sender] = NoRequest /\ settingsRow = NoRow
  /\ request' = [request EXCEPT ![Sender] = [at |-> "looking", what |-> "config"]]
  /\ UNCHANGED <<env, settingsRow, settingsForm, lastSave, told, edits, passwords, saves, restarts>>

ConfigRead ==
  /\ Loaded(Sender, "config")
  /\ request' = [request EXCEPT ![Sender] = NoRequest]
  /\ UNCHANGED <<env, settingsRow, settingsForm, lastSave, told, edits, passwords, saves, restarts>>

-----------------------------------------------------------------------------
(* The settings page. *)

OpenPage(t) ==
  /\ request[t] = NoRequest
  /\ request' = [request EXCEPT ![t] = [at |-> "looking", what |-> "page"]]
  /\ settingsForm' = [settingsForm EXCEPT ![t] = NoPage]
  /\ UNCHANGED <<env, settingsRow, lastSave, told, edits, passwords, saves, restarts>>

\* getPublicSettings: a password is only said to be there.
ShowPage(t) ==
  /\ Loaded(t, "page")
  /\ settingsForm' = [settingsForm EXCEPT ![t] = [boot |-> restarts, fields |-> settingsRow.fields, password |-> NoPassword, overridden |-> Overrides]]
  /\ request' = [request EXCEPT ![t] = NoRequest]
  /\ UNCHANGED <<env, settingsRow, lastSave, told, edits, passwords, saves, restarts>>

\* The fields stay open while a save is under way.
Edit(t, field, value) ==
  /\ settingsForm[t] # NoPage /\ value # settingsForm[t].fields[field] /\ edits < MaxEdits
  /\ settingsForm' = [settingsForm EXCEPT ![t].fields[field] = value]
  /\ edits' = edits + 1
  /\ UNCHANGED <<env, settingsRow, request, lastSave, told, passwords, saves, restarts>>

TypePassword(t) ==
  /\ settingsForm[t] # NoPage /\ passwords < MaxPasswords
  /\ settingsForm' = [settingsForm EXCEPT ![t].password = passwords + 1]
  /\ passwords' = passwords + 1
  /\ UNCHANGED <<env, settingsRow, request, lastSave, told, edits, saves, restarts>>

\* PUT /api/settings: an address that is none is refused before anything is read.
Put(t, clear) ==
  /\ settingsForm[t] # NoPage /\ request[t] = NoRequest /\ saves < MaxSaves
  /\ saves' = saves + 1
  /\ request' = [request EXCEPT ![t] = IF settingsForm[t].fields["fromEmail"] = "malformed" THEN NoRequest
                                 ELSE [at |-> "looking", what |-> "save", fields |-> settingsForm[t].fields,
                                       password |-> IF clear THEN NoPassword ELSE settingsForm[t].password, clear |-> clear]]
  /\ UNCHANGED <<env, settingsRow, settingsForm, lastSave, told, edits, passwords, restarts>>

PressSave(t) == Put(t, FALSE)

\* Nothing in the page asks for it, a request may.
PutClearing(t) == Put(t, TRUE)

\* saveSettings: a password that was not typed is left alone; without a key it cannot be kept.
SaveSettings(t) ==
  /\ Loaded(t, "save")
  /\ LET typed == request[t].password # NoPassword
     IN IF typed /\ env.key = Unset
        THEN /\ request' = [request EXCEPT ![t] = NoRequest]
             /\ UNCHANGED <<settingsRow, lastSave>>
        ELSE /\ settingsRow' =
                  [fields |-> request[t].fields,
                   secret |-> IF request[t].clear THEN DefaultRow.secret
                              ELSE IF typed THEN [key |-> env.key, plain |-> request[t].password]
                              ELSE settingsRow.secret]
             /\ lastSave' = [fields |-> request[t].fields,
                             password |-> IF request[t].clear THEN NoPassword ELSE IF typed THEN request[t].password ELSE lastSave.password]
             /\ request' = [request EXCEPT ![t].at = "written"]
  /\ UNCHANGED <<env, settingsForm, told, edits, passwords, saves, restarts>>

\* The password stays in its field.
SeeSavedKeeping(t) ==
  /\ request[t].at = "written"
  /\ told' = told \cup ({request[t].password} \ {NoPassword})
  /\ request' = [request EXCEPT ![t] = NoRequest]
  /\ UNCHANGED <<env, settingsRow, settingsForm, lastSave, edits, passwords, saves, restarts>>

\* The password field is emptied, whatever is in it by now.
SeeSaved(t) ==
  /\ request[t].at = "written"
  /\ settingsForm' = [settingsForm EXCEPT ![t].password = NoPassword]
  /\ told' = told \cup ({request[t].password} \ {NoPassword})
  /\ request' = [request EXCEPT ![t] = NoRequest]
  /\ UNCHANGED <<env, settingsRow, lastSave, edits, passwords, saves, restarts>>

-----------------------------------------------------------------------------

\* Another environment, which may have another key; what the server was doing is lost.
\* With the same one nothing else changes (CallFails).
RestartWith(e) ==
  /\ restarts < MaxRestarts /\ e # env
  /\ restarts' = restarts + 1
  /\ env' = e
  /\ request' = [a \in DOMAIN request |-> NoRequest]
  /\ UNCHANGED <<settingsRow, settingsForm, lastSave, told, edits, passwords, saves>>

Loading(a) == LookUp(a) \/ InsertRow(a) \/ CallFails(a)

OnPage(t) ==
  \/ OpenPage(t) \/ ShowPage(t) \/ TypePassword(t) \/ PressSave(t) \/ PutClearing(t)
  \/ SaveSettings(t) \/ SeeSaved(t)
  \/ \E field \in Fields : \E value \in Typeable(field) : Edit(t, field, value)

SettingsNext ==
  \/ \E a \in Forms \cup {Sender} : Loading(a)
  \/ ReadConfig \/ ConfigRead
  \/ \E t \in Forms : OnPage(t)
  \/ \E e \in Environments : RestartWith(e)

SettingsSpec == SettingsInit /\ [][SettingsNext]_settingsVars

-----------------------------------------------------------------------------
(* Properties. *)

\* A save that was carried out is what the table holds until the next one, although the
\* row may be made at the same time by everybody who only looks (loadSettingsRow).
SavesCount ==
  settingsRow # NoRow => settingsRow.fields = lastSave.fields /\ settingsRow.secret.plain = lastSave.password

\* "Fail closed": mail is sent with the password that was saved last, or not at all, whatever
\* became of the key; never without one because it cannot be read (getSmtpConfig).
NeverUnauthenticated ==
  settingsRow # NoRow /\ SmtpConfig.outcome = "config" /\ env.smtpPassword = Unset => SmtpConfig.password = lastSave.password

\* "So the admin is never silently editing a value that has no effect": what a page that this server
\* showed does not mark as overridden takes effect as it is stored.
NoSilentOverride ==
  \A t \in Forms :
    settingsForm[t] # NoPage /\ settingsForm[t].boot = restarts =>
      \A f \in Fields \ settingsForm[t].overridden : InEffect(f) = settingsRow.fields[f]

\* A password the form was told is saved is not saved a second time, over a newer one, by a
\* later save of the same form (SettingsForm).
SavedPasswordStaysSaved ==
  [][settingsRow' # NoRow /\ settingsRow # NoRow /\ settingsRow'.secret.plain # settingsRow.secret.plain
       => settingsRow'.secret.plain \notin told]_settingsVars

\* What was saved is kept and used, or no mail is sent: through concurrent first looks and saves, the
\* environment and another key.
SettingsKept ==
  /\ [](SavesCount /\ NeverUnauthenticated /\ NoSilentOverride)
  /\ SavedPasswordStaysSaved
================================================================================
