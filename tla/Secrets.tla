------------------------------- MODULE Secrets -------------------------------
(***************************************************************************)
(* The master key, the secrets sealed with it and the environment a run    *)
(* gets from them (internal/kernel/secrets, internal/service/secrets and   *)
(* credentials, internal/module/credentials, internal/service/runs/prep.go *)
(* and `lexicode doctor', which opens the same key).                       *)
(***************************************************************************)
EXTENDS FiniteSets, Naturals, Sequences

CONSTANTS
  Serve, Doctor,     \* the processes that open the key
  MasterKeys,        \* keys there may be generated
  SecretIds,         \* ids in the order they are given out, 1..n
  OAuthName, APIKeyName, PlainName,    \* names: the two of the credential, and any other
  ServerEnv,         \* which of the credential's names the server's environment has
  Editors,           \* requests to set, rename, delete or clear, each made once
  NoSecret, GoneSecret, NoKey, EmptyKey

Reserved    == {OAuthName, APIKeyName}
SecretNames == Reserved \cup {PlainName}
SecretScopes == {"workspace", "project"}

ASSUME SecretsAssumption ==
  /\ SecretIds = 1..Cardinality(SecretIds) /\ ServerEnv \subseteq Reserved
  /\ NoKey \notin MasterKeys /\ EmptyKey \notin MasterKeys /\ NoKey # EmptyKey
  /\ NoSecret \notin SecretIds

VARIABLES
  keyFile,       \* the file: none, created and not written, or with a key
  opener,        \* the processes: where they are, and the key they hold
  usedKeys,      \* history: keys generated
  replacedKey,   \* history: a person has removed the file
  secretRows,    \* the secrets table
  editor,        \* the requests: what they are to do, and the row they have read
  build          \* the environment being put together for a run

secretVars == <<keyFile, opener, usedKeys, replacedKey, secretRows, editor, build>>

IsRow(s)      == s \notin {NoSecret, GoneSecret}
Kept          == {i \in SecretIds : IsRow(secretRows[i])}
ByName(sc, n) == {i \in Kept : secretRows[i].scope = sc /\ secretRows[i].name = n}
Up            == opener[Serve].at = "up"

\* Get: of a secret some other key has sealed, nothing.
Opens(i) == i \in Kept /\ secretRows[i].key = opener[Serve].key

SecretRow == [scope : SecretScopes, name : SecretNames, key : MasterKeys, good : BOOLEAN]

KeysTyped ==
  /\ keyFile \in MasterKeys \cup {NoKey, EmptyKey}
  /\ opener \in [{Serve, Doctor} ->
       [at : {"off", "fresh", "writing", "up"}, key : MasterKeys \cup {NoKey}]]
  /\ \A p \in {Serve, Doctor} : opener[p].at = "up" => opener[p].key \in MasterKeys
  /\ usedKeys \subseteq MasterKeys /\ replacedKey \in BOOLEAN
SecretsTyped ==
  /\ secretRows \in [SecretIds -> SecretRow \cup {NoSecret, GoneSecret}]
  /\ editor \in [Editors ->
            [does : {"nothing", "done"}]
       \cup [does : {"set"}, row : SecretIds \cup {NoSecret}, scope : SecretScopes,
             name : SecretNames, good : BOOLEAN]
       \cup [does : {"rename"}, row : SecretIds, was : SecretRow]
       \cup [does : {"delete"}, row : SecretIds]]
BuildRows ==
  [at : {"idle", "list", "read", "check", "take", "built", "refused"},
   scope : SecretScopes, left : SUBSET (SecretIds \X SecretNames),
   sources : Seq({"oauth-token", "env"}),
   env : [SecretNames -> {"unset", "workspace", "project", "oauth-token", "env"}]]
BuildTyped == build \in BuildRows
SecretsTypeOK == KeysTyped /\ SecretsTyped /\ BuildTyped

Closed   == [at |-> "off", key |-> NoKey]
NoErrand == [does |-> "nothing"]
NoBuild  == [at |-> "idle", scope |-> "workspace", left |-> {},
             sources |-> <<>>, env |-> [n \in SecretNames |-> "unset"]]

SecretsInit ==
  /\ keyFile = NoKey /\ usedKeys = {} /\ replacedKey = FALSE
  /\ opener = [p \in {Serve, Doctor} |-> Closed]
  /\ secretRows = [i \in SecretIds |-> NoSecret]
  /\ editor = [r \in Editors |-> NoErrand]
  /\ build = NoBuild

------------------------------------------------------------------------------
(* The key.                                                                  *)

\* loadOrCreateKey: no file, and a key is to be generated; or the key it holds. A file that
\* holds none, or that others may read, refuses the start: the process stays off.
Stat(p) ==
  /\ opener[p].at = "off"
  /\ \/ keyFile = NoKey /\ opener' = [opener EXCEPT ![p].at = "fresh"]
     \/ /\ keyFile \in MasterKeys
        /\ opener' = [opener EXCEPT ![p] = [at |-> "up", key |-> keyFile]]
  /\ UNCHANGED <<keyFile, usedKeys, replacedKey, secretRows, editor, build>>

\* It is created only if there still is none.
CreatableAny == TRUE
Creatable    == keyFile = NoKey

CreateFile(p) ==
  /\ opener[p].at = "fresh"
  /\ \/ /\ Creatable
        /\ keyFile' = EmptyKey
        /\ opener' = [opener EXCEPT ![p].at = "writing"]
     \/ ~Creatable /\ opener' = [opener EXCEPT ![p] = Closed] /\ UNCHANGED keyFile
  /\ UNCHANGED <<usedKeys, replacedKey, secretRows, editor, build>>

WriteKey(p, k) ==
  /\ opener[p].at = "writing" /\ k \notin usedKeys
  /\ keyFile' = k /\ usedKeys' = usedKeys \cup {k}
  /\ opener' = [opener EXCEPT ![p] = [at |-> "up", key |-> k]]
  /\ UNCHANGED <<replacedKey, secretRows, editor, build>>

\* A process ends or dies, and with the server its requests; the file stays as it is.
OpenerEnds(p) ==
  /\ opener[p].at # "off"
  /\ opener' = [opener EXCEPT ![p] = Closed]
  /\ IF p = Serve
     THEN editor' = [r \in Editors |-> [does |-> "done"]] /\ build' = NoBuild
     ELSE UNCHANGED <<editor, build>>
  /\ UNCHANGED <<keyFile, usedKeys, replacedKey, secretRows>>

\* A person removes the file, while nobody writes it.
RemoveKey ==
  /\ ~replacedKey /\ keyFile # NoKey /\ \A p \in {Serve, Doctor} : opener[p].at # "writing"
  /\ keyFile' = NoKey /\ replacedKey' = TRUE
  /\ UNCHANGED <<opener, usedKeys, secretRows, editor, build>>

------------------------------------------------------------------------------
(* The requests: each reads, decides, and writes one statement.              *)

Reads(r, what) ==
  /\ Up /\ editor[r].does = "nothing" /\ editor' = [editor EXCEPT ![r] = what]
  /\ UNCHANGED <<keyFile, opener, usedKeys, replacedKey, secretRows, build>>

Finds(sc, n) == IF ByName(sc, n) = {} THEN {NoSecret} ELSE ByName(sc, n)

AskSet(r, sc, n, good) ==
  \E i \in Finds(sc, n) : Reads(r, [does |-> "set", row |-> i, scope |-> sc, name |-> n, good |-> good])

\* The token, pasted or read from the command line's own log-in: it may not look like one.
SetToken(r, good) == AskSet(r, "workspace", OAuthName, good)

\* Rename: the name is free of another, as far as it has read.
AskRename(r, i, n) ==
  /\ i \in Kept /\ ByName(secretRows[i].scope, n) = {}
  /\ Reads(r, [does |-> "rename", row |-> i, was |-> [secretRows[i] EXCEPT !.name = n]])

\* DeleteSecret by id, ClearToken of whatever row it finds.
AskDelete(r, i) == i \in Kept /\ Reads(r, [does |-> "delete", row |-> i])

\* The update of a row that is there, whose name, within a project, no other has.
Rewrite(i, row) ==
  secretRows' = IF i \in Kept /\ (row.scope = "project" => ByName(row.scope, row.name) \subseteq {i})
                THEN [secretRows EXCEPT ![i] = row] ELSE secretRows

Sealed(r) == [scope |-> editor[r].scope, name |-> editor[r].name,
              key |-> opener[Serve].key, good |-> editor[r].good]

NextId == {i \in SecretIds : secretRows[i] = NoSecret /\ \A j \in SecretIds : j < i => secretRows[j] # NoSecret}

\* Set: a fresh seal in the row it found; or a new row, unless the index of a project's
\* names refuses it. A workspace's names have no such index.
DoSet(r) ==
  /\ editor[r].does = "set"
  /\ \/ editor[r].row # NoSecret /\ Rewrite(editor[r].row, Sealed(r))
     \/ /\ editor[r].row = NoSecret
        /\ editor[r].scope = "project" => ByName("project", editor[r].name) = {}
        /\ \E i \in NextId : secretRows' = [secretRows EXCEPT ![i] = Sealed(r)]
     \/ /\ editor[r].row = NoSecret /\ editor[r].scope = "project"
        /\ ByName("project", editor[r].name) # {} /\ UNCHANGED secretRows

DoRename(r) == editor[r].does = "rename" /\ Rewrite(editor[r].row, editor[r].was)

DoDelete(r) ==
  /\ editor[r].does = "delete"
  /\ secretRows' = [secretRows EXCEPT ![editor[r].row] = GoneSecret]

Edit(r) ==
  /\ DoSet(r) \/ DoRename(r) \/ DoDelete(r)
  /\ editor' = [editor EXCEPT ![r] = [does |-> "done"]]
  /\ UNCHANGED <<keyFile, opener, usedKeys, replacedKey, build>>

------------------------------------------------------------------------------
(* The environment of a run: the workspace's secrets, then the project's     *)
(* over them, then the first credential source that is healthy.              *)

Builds(b) ==
  /\ Up /\ build' = b
  /\ UNCHANGED <<keyFile, opener, usedKeys, replacedKey, secretRows, editor>>

StartBuild == build.at = "idle" /\ Builds([NoBuild EXCEPT !.at = "list"])

\* The names of the credential are left out: its sources alone give them.
Injected == SecretNames \ Reserved

ListSecrets ==
  /\ build.at = "list"
  /\ Builds([build EXCEPT !.at = "read",
       !.left = {<<i, secretRows[i].name>> : i \in
                  {j \in Kept : secretRows[j].scope = build.scope /\ secretRows[j].name \in Injected}}])

\* One by one, under the name it was listed with; one that is gone, or does not open, fails
\* the build.
ReadSecret(x) ==
  /\ build.at = "read" /\ x \in build.left
  /\ \/ Opens(x[1]) /\ Builds([build EXCEPT !.left = @ \ {x}, !.env[x[2]] = build.scope])
     \/ ~Opens(x[1]) /\ Builds([build EXCEPT !.at = "refused"])

ScopeRead ==
  /\ build.at = "read" /\ build.left = {}
  /\ Builds(IF build.scope = "workspace"
            THEN [build EXCEPT !.at = "list", !.scope = "project"]
            ELSE [build EXCEPT !.at = "check", !.sources = <<"oauth-token", "env">>])

\* The token is the workspace's secret of its name, any if two have it; healthy if it opens
\* and looks like one. The environment's source takes the token before the key.
Healthy(source, t) ==
  IF source = "env" THEN ServerEnv # {} ELSE t \in Kept /\ Opens(t) /\ secretRows[t].good
Supplies(source, t) ==
  IF source = "env" THEN (IF OAuthName \in ServerEnv THEN {OAuthName} ELSE ServerEnv)
  ELSE {n \in {OAuthName} : t \in Kept /\ Opens(t)}

NextSource(b) == [b EXCEPT !.at = "check", !.sources = Tail(@)]

\* Healthy, and then read again for what it supplies.
CheckSource ==
  /\ build.at = "check"
  /\ \/ build.sources = <<>> /\ Builds([build EXCEPT !.at = "refused"])
     \/ /\ build.sources # <<>>
        /\ \E t \in Finds("workspace", OAuthName) :
             Builds(IF Healthy(build.sources[1], t) THEN [build EXCEPT !.at = "take"] ELSE NextSource(build))

TakeSource ==
  /\ build.at = "take"
  /\ \E t \in Finds("workspace", OAuthName) :
       LET source == build.sources[1]
           gives  == Supplies(source, t)
       IN Builds(IF gives = {} THEN NextSource(build)
                 ELSE [build EXCEPT !.at = "built",
                        !.env = [n \in SecretNames |-> IF n \in gives THEN source ELSE @[n]]])

\* The run has started with it, or failed; another may be prepared.
EnvironmentEnds == build.at \in {"built", "refused"} /\ Builds(NoBuild)

SecretsNext ==
  \/ \E p \in {Serve, Doctor} :
       Stat(p) \/ CreateFile(p) \/ OpenerEnds(p) \/ \E k \in MasterKeys : WriteKey(p, k)
  \/ RemoveKey
  \/ \E r \in Editors :
       \/ \E sc \in SecretScopes, n \in SecretNames : AskSet(r, sc, n, TRUE)
       \/ \E good \in BOOLEAN : SetToken(r, good)
       \/ \E i \in SecretIds : AskDelete(r, i) \/ \E n \in SecretNames : AskRename(r, i, n)
       \/ Edit(r)
  \/ StartBuild \/ ListSecrets \/ ScopeRead \/ CheckSource \/ TakeSource \/ EnvironmentEnds
  \/ \E x \in SecretIds \X SecretNames : ReadSecret(x)

SecretsSpec == SecretsInit /\ [][SecretsNext]_secretVars

------------------------------------------------------------------------------
\* "if two processes race here, one of them loses instead of both half-writing": whoever is
\* up holds the key of the file, and it opens every secret, unless a person has removed it.
OneKey ==
  replacedKey \/
  /\ \A p \in {Serve, Doctor} : opener[p].at = "up" => opener[p].key = keyFile
  /\ \A i \in Kept : secretRows[i].key = keyFile

\* "the credential source is the single authority": a run that starts has exactly one of the
\* two names, from a source and never from a stored secret.
CredentialsAlone ==
  build.at = "built" =>
    \E n \in Reserved :
      /\ build.env[n] \in {"oauth-token", "env"}
      /\ \A m \in Reserved \ {n} : build.env[m] = "unset"

\* At most one process is between creating the file and writing the key, and the file is
\* empty meanwhile; who is to write a row has the server up, and what it read is sealed with
\* the key of the file.
OneWriter ==
  /\ \A r \in Editors : editor[r].does \in {"set", "rename", "delete"} => Up
  /\ \/ replacedKey
     \/ /\ \A p, q \in {Serve, Doctor} :
             opener[p].at = "writing" /\ opener[q].at = "writing" => p = q
        /\ \A p \in {Serve, Doctor} : opener[p].at = "writing" => keyFile = EmptyKey
        /\ \A r \in Editors : editor[r].does = "rename" => editor[r].was.key = keyFile

\* Until a source has supplied it, the environment has neither of the credential's names,
\* whatever secrets are set or renamed while they are read one by one.
NoneBeforeItsSource ==
  /\ build.at # "built" => \A n \in Reserved : build.env[n] = "unset"
  /\ \A x \in build.left : x[2] \in Injected
  /\ build.at = "take" => build.sources # <<>>

SecretsInv == SecretsTypeOK /\ OneKey /\ OneWriter /\ CredentialsAlone /\ NoneBeforeItsSource
=============================================================================
