------------------------------- MODULE EnvFile -------------------------------
(***************************************************************************)
(* The text of .env between the form of the setup wizard, the file and its *)
(* two readers: parseEnvFile of src/setup/setup.server.ts, which fills the *)
(* form in again, and dotenv, through which the application and ConfigModule *)
(* read it.  The table is src/setup/env-definitions.ts.                    *)
(*                                                                         *)
(* A text is a sequence of characters; a run of characters that nothing    *)
(* here looks at is one.  A file is the text after KEY= of each of its     *)
(* lines.  Texts that go on over several lines, backslashes, backquotes    *)
(* and variables of the environment, which win over the file, are left     *)
(* out.  Which database the wizard prepares meanwhile, and what requests   *)
(* do to each other, is SetupWizard.                                       *)
(***************************************************************************)
EXTENDS Integers, Sequences, SequencesExt, FiniteSetsExt

CONSTANTS
  Runs,        \* the characters and runs of characters in texts
  Typed,       \* for some fields of the form, the texts a user types there
  Edited,      \* for some keys of .env, the texts somebody puts there by hand
  Filler,      \* what the user puts into an empty field the page insists on
  NoFile

Text == Seq(Runs)

VARIABLES
  file,        \* the text of each line of .env, or NoFile
  submitted,   \* history: the form .env was last saved from; NoFile after an edit
  fresh        \* was the wizard started when there was no .env?

\* ENV_DEFINITIONS: the keys of each group with their defaults.
App == [NODE_ENV |-> <<"local">>, PORT |-> <<"3000">>, API_VERSION |-> <<"v1">>]
Database ==
  [DB_HOST |-> <<"localhost">>, DB_PORT |-> <<"3306">>, DB_USER |-> <<"root">>,
   DB_PASSWORD |-> <<>>, DB_NAME |-> <<"nestjs_engine_db">>]
Redis ==
  [REDIS_MODE |-> <<"direct">>, REDIS_HOST |-> <<"localhost">>,
   REDIS_PORT |-> <<"6379">>, REDIS_PASSWORD |-> <<>>]
Auth ==
  [JWT_SECRET |-> <<>>, JWT_ACCESS_EXPIRES_IN |-> <<"1h">>,
   JWT_REFRESH_EXPIRES_IN |-> <<"30d">>, GOOGLE_CLIENT_ID |-> <<>>,
   GOOGLE_CLIENT_SECRET |-> <<>>, MAX_DEVICES_PER_USER |-> <<"1">>,
   GOOGLE_CALLBACK_URL |-> <<"http", ":", "/", "/", "localhost", ":", "3000", "/", "callback">>]
Etc ==
  [ENCRYPTION_KEY |-> <<>>, DEFAULT_TIMEZONE |-> <<"Asia", "/", "Seoul">>,
   CORS_ORIGINS |-> <<"*">>, LOG_DIR |-> <<".", "/", "logs">>,
   SWAGGER_ENABLED |-> <<"true">>, SWAGGER_PATH |-> <<"/", "api-docs">>]

\* f and g as one; where both say something, f does.
Over(f, g) == [k \in DOMAIN f \cup DOMAIN g |-> IF k \in DOMAIN f THEN f[k] ELSE g[k]]

Saved == Over(Over(App, Redis), Over(Auth, Etc))
Default == Over(Saved, Database)

\* The keys of type select: what the form offers for them.
Options == [NODE_ENV |-> {<<"local">>, <<"dev">>, <<"prod">>},
            REDIS_MODE |-> {<<"direct">>, <<"cluster">>},
            SWAGGER_ENABLED |-> {<<"true">>, <<"false">>}]

\* The keys of type number, and the runs of digits that occur.
Numbers == {"PORT", "DB_PORT", "REDIS_PORT", "MAX_DEVICES_PER_USER"}
Number(s) == s # <<>> /\ \A i \in DOMAIN s : s[i] \in {"1", "3", "3000", "3306", "6379"}

\* encodeURIComponent, of the characters it changes.
Escape ==
  [c \in {" ", "#", "\"", "@", ":", "/"} |->
     CASE c = " " -> "%20" [] c = "#" -> "%23" [] c = "\"" -> "%22"
       [] c = "@" -> "%40" [] c = ":" -> "%3A" [] c = "/" -> "%2F"]

\* No run of s stands for an escaped character.
Unescaped(s) == \A i \in DOMAIN s : \A c \in DOMAIN Escape : s[i] # Escape[c]

ASSUME RunsAssumption ==
  /\ {"mysql://"} \cup DOMAIN Escape \cup {Escape[c] : c \in DOMAIN Escape} \subseteq Runs
  /\ \A k \in DOMAIN Default : Default[k] \in Text

\* A number field of the form gives a number or nothing.  Escaped characters occur in
\* DATABASE_URL alone: a % in a password, which would become %25, is left out.
ASSUME TypedAssumption ==
  \A k \in DOMAIN Typed : \A text \in Typed[k] :
    /\ k \in DOMAIN Default /\ text \in Text
    /\ k \in Numbers => text = <<>> \/ Number(text)
    /\ k = "DB_PASSWORD" => Unescaped(text)
ASSUME EditedAssumption ==
  \A k \in DOMAIN Edited : \A text \in Edited[k] :
    text \in Text /\ (k = "DB_PASSWORD" => Unescaped(text))
\* One text for every field: it is a number for those that need one.
ASSUME FillerAssumption == Filler \in Text /\ Number(Filler)

\* The browser submits no form in which one of the others is empty.
Optional == {"REDIS_PASSWORD", "GOOGLE_CLIENT_ID", "GOOGLE_CLIENT_SECRET",
             "GOOGLE_CALLBACK_URL", "LOG_DIR", "SWAGGER_PATH"}

-----------------------------------------------------------------------------
Trim(text) ==
  LET solid == {i \in DOMAIN text : text[i] # " "}
  IN  IF solid = {} THEN <<>> ELSE SubSeq(text, Min(solid), Max(solid))

\* s at the first c: what comes before and what after it.
Split(s, c) ==
  LET i == SelectInSeq(s, LAMBDA x : x = c)
  IN  [found |-> i > 0, before |-> SubSeq(s, 1, i - 1), after |-> SubSeq(s, i + 1, Len(s))]

UpTo(s, c) == IF Split(s, c).found THEN Split(s, c).before ELSE s

Quoted(s) == s # <<>> /\ s[1] \in {"\"", "'"} /\ s[Len(s)] = s[1]
Inside(s) == SubSeq(s, 2, Len(s) - 1)

\* Mutant: a quote is taken off the start whatever the end.
ParseHalf(text) ==
  LET t == Trim(text) IN IF t # <<>> /\ t[1] \in {"\"", "'"} THEN Tail(t) ELSE t

\* parseEnvFile, of one line.
ParseEnv(text) == LET t == Trim(text) IN IF Quoted(t) THEN Inside(t) ELSE t

\* dotenv, of one line: a text in quotes up to the closing one, if nothing but a
\* comment follows; else up to a #.  Quotes around what is left are taken off.
Dotenv(text) ==
  LET t == Trim(text)
      q == Split(Tail(t), t[1])
      rest == Trim(q.after)
      whole == /\ t # <<>> /\ t[1] \in {"\"", "'"} /\ q.found
               /\ rest = <<>> \/ rest[1] = "#"
      raw == IF whole THEN SubSeq(t, 1, Len(q.before) + 2) ELSE Trim(UpTo(t, "#"))
  IN  IF Quoted(raw) /\ Len(raw) > 1 THEN Inside(raw) ELSE raw

-----------------------------------------------------------------------------
\* Mutant: the password is taken as it is.
EncodeNothing(s) == s

Encode(s) == [i \in DOMAIN s |-> IF s[i] \in DOMAIN Escape THEN Escape[s[i]] ELSE s[i]]
Decode(s) ==
  [i \in DOMAIN s |-> IF \E c \in DOMAIN Escape : Escape[c] = s[i]
                      THEN CHOOSE c \in DOMAIN Escape : Escape[c] = s[i] ELSE s[i]]

\* The fields of a form, with what || puts for an empty one.
Field(fields, k) == IF fields[k] = <<>> THEN Default[k] ELSE fields[k]

BuildDatabaseUrl(fields) ==
  LET port == Field(fields, "DB_PORT") \o <<"/">> \o Field(fields, "DB_NAME")
      host == Field(fields, "DB_HOST") \o <<":">> \o port
      password == Encode(Field(fields, "DB_PASSWORD")) \o <<"@">> \o host
      user == Field(fields, "DB_USER") \o <<":">> \o password
  IN  <<"mysql://">> \o user

\* ^mysql:\/\/([^:]+):([^@]*)@([^:]+):(\d+)\/(.+)$ and the defaults when it does not match.
ParseDatabaseUrl(url) ==
  LET user == Split(Tail(url), ":")
      password == Split(user.after, "@")
      host == Split(password.after, ":")
      port == Split(host.after, "/")
  IN  IF /\ url # <<>> /\ url[1] = "mysql://"
         /\ user.found /\ password.found /\ host.found /\ port.found
         /\ Number(port.before)
         /\ <<>> \notin {user.before, host.before, port.after}
      THEN [DB_USER |-> user.before, DB_PASSWORD |-> Decode(password.before),
            DB_HOST |-> host.before, DB_PORT |-> port.before, DB_NAME |-> port.after]
      ELSE Database

-----------------------------------------------------------------------------
\* Mutant: an emptied field is saved as its default.
FileOr(fields) ==
  Over([DATABASE_URL |-> BuildDatabaseUrl(fields)], [k \in DOMAIN Saved |-> Field(fields, k)])

\* buildEnvContent: the lines of every group but database, which is one DATABASE_URL.
File(fields) ==
  Over([DATABASE_URL |-> BuildDatabaseUrl(fields)],
       [k \in DOMAIN Saved |-> IF k \in DOMAIN fields THEN fields[k] ELSE Saved[k]])

\* enrichWithDbFields: the fields of the database that the file does not name.
Enrich(values) ==
  IF "DATABASE_URL" \notin DOMAIN values \/ values["DATABASE_URL"] = <<>> THEN values
  ELSE LET parsed == ParseDatabaseUrl(values["DATABASE_URL"])
           Missing(k) == k \notin DOMAIN values \/ values[k] = <<>>
       IN  Over([k \in {x \in DOMAIN Database : Missing(x)} |-> parsed[k]], values)

\* renderField: a select shows its first option for a value it does not offer, a
\* number field nothing for what is no number.
Rendered(k, value) ==
  CASE k \in DOMAIN Options /\ value \notin Options[k] -> Default[k]
    [] k \in Numbers /\ ~Number(value) -> <<>>
    [] OTHER -> value

\* The user fills in what is required.
Fill(fields) ==
  [k \in DOMAIN fields |->
     IF fields[k] = <<>> /\ k \notin Optional THEN Filler ELSE fields[k]]

\* GET /, when the wizard was started with a .env.
Page(lines) ==
  LET values == Enrich([k \in DOMAIN lines |-> ParseEnv(lines[k])])
  IN  [k \in DOMAIN Default |->
         Rendered(k, IF k \in DOMAIN values THEN values[k] ELSE Default[k])]

-----------------------------------------------------------------------------
\* bootstrap starts the wizard anew: it looks for .env once, at its start.
Restart ==
  /\ fresh' = (file = NoFile)
  /\ UNCHANGED <<file, submitted>>

\* The page is opened, one field is typed into, what the browser then insists on is
\* filled in, and the form is saved.
Save(k, text) ==
  LET typed == Fill([(IF fresh THEN Default ELSE Page(file)) EXCEPT ![k] = text])
  IN  /\ submitted' = typed
      /\ file' = File(typed)
      /\ UNCHANGED fresh

\* Somebody edits a line of .env.
Edit(k, text) ==
  /\ file # NoFile
  /\ file' = Over([x \in {k} |-> text], file)
  /\ submitted' = NoFile
  /\ UNCHANGED fresh

EnvInit == file = NoFile /\ submitted = NoFile /\ fresh = TRUE

EnvNext ==
  \/ Restart
  \/ \E k \in DOMAIN Typed : \E text \in Typed[k] : Save(k, text)
  \/ \E k \in DOMAIN Edited : \E text \in Edited[k] : Edit(k, text)

EnvSpec == EnvInit /\ [][EnvNext]_<<file, submitted, fresh>>

-----------------------------------------------------------------------------
\* .env has a line for every key it is saved with; a form has all fields.
LinesOK(lines) ==
  /\ DOMAIN Saved \cup {"DATABASE_URL"} \subseteq DOMAIN lines
  /\ \A k \in DOMAIN lines : lines[k] \in Text
  /\ "DB_PASSWORD" \in DOMAIN lines => Unescaped(lines["DB_PASSWORD"])

FieldsOK(fields) ==
  /\ fields \in [DOMAIN Default -> Text]
  /\ \A k \in Numbers : fields[k] = <<>> \/ Number(fields[k])
  /\ Unescaped(fields["DB_PASSWORD"])

\* The file is whole, whoever wrote it, the wizard never looks for one that is not
\* there, and nothing but a number is saved as a port or a number of devices.
EnvTypeOK ==
  /\ file = NoFile \/ LinesOK(file)
  /\ submitted # NoFile => FieldsOK(submitted) /\ file = File(submitted)
  /\ fresh \in BOOLEAN /\ (~fresh => LinesOK(file))

\* A text dotenv takes as it is.
Kept(text) ==
  /\ Trim(text) = text
  /\ \A i \in DOMAIN text : text[i] # "#"
  /\ Len(text) > 1 => ~Quoted(text)

\* A text that reads the same after parseEnvFile took its quotes off: it does not need
\* them, and is not a lone quote.
Unquotable(text) ==
  LET t == Trim(text) IN Quoted(t) => Len(t) > 1 /\ Kept(Inside(t))

\* What is typed into a field is what the application reads, exactly when it has
\* no #, no blank at an end and no pair of quotes around it: buildEnvContent writes
\* values as they are.  The keys autoGenerate makes for JWT_SECRET and
\* ENCRYPTION_KEY draw from an alphabet with #, and are cut there.
AppReadsWhatWasTyped ==
  submitted # NoFile =>
    \A k \in DOMAIN Saved : Dotenv(file[k]) = submitted[k] <=> Kept(submitted[k])

\* The database the application connects to is the one prisma db push was run on,
\* and its fields come back into the form, whatever the password: when the user,
\* the host and the name hold none of the characters that end them.
DatabaseSurvives ==
  LET page == Page(file)
  IN  (submitted # NoFile /\ \A k \in {"DB_USER", "DB_HOST", "DB_NAME"} :
          Kept(submitted[k]) /\ (k # "DB_NAME" => ~Split(submitted[k], ":").found))
      => /\ Dotenv(file["DATABASE_URL"]) = BuildDatabaseUrl(submitted)
         /\ \A x \in DOMAIN Database : page[x] = Field(submitted, x)

\* Saving one field of an existing .env, whoever wrote it, changes nothing else that
\* the application reads, except: values in quotes that need them (they are shown and
\* saved without), a value or a DATABASE_URL the form cannot show, and everything when
\* the wizard was started before there was a .env (then the page shows the defaults).
KeepsTheRest ==
  LET page == Page(file)
      url == ParseEnv(file["DATABASE_URL"])
  IN  (submitted' # NoFile /\ file # NoFile /\ ~fresh) =>
        /\ \A k \in DOMAIN Saved :
             (/\ submitted'[k] = page[k] /\ Unquotable(file[k])
              /\ Rendered(k, ParseEnv(file[k])) = ParseEnv(file[k]))
             => Dotenv(file'[k]) = Dotenv(file[k])
        /\ (/\ \A x \in DOMAIN Database : x \notin DOMAIN file /\ submitted'[x] = page[x]
            /\ BuildDatabaseUrl(ParseDatabaseUrl(url)) = url
            /\ Unquotable(file["DATABASE_URL"]))
           => Dotenv(file'["DATABASE_URL"]) = Dotenv(file["DATABASE_URL"])

SavingKeepsTheRest == [][KeepsTheRest]_<<file, submitted, fresh>>
=============================================================================
