------------------------------ MODULE PanelFetch ------------------------------
(***************************************************************************)
(* How the program gets its nodes: panel/panel.go Fetch logs in, loads or  *)
(* creates the identity (identity/age.go), asks for the dedicated list and *)
(* for the Surge template, and parses what comes (profile/profile.go).     *)
(* The process may be killed anywhere and started again.                   *)
(*                                                                         *)
(* A body is what the parsers tell apart: its fmt (yaml, surge or other),  *)
(* the nodes it carries, the lines of a Surge profile, whether it is       *)
(* sealed, and its size.  The JSON envelope of an answer is never a list.  *)
(***************************************************************************)
EXTENDS SurgeProfile, FiniteSets

CONSTANTS
  Lists,       \* bodies a download or a config field can be
  Pages,       \* bodies that are neither a list nor a profile: an error page
  MaxStarts    \* bound: how often the program is started

\* A body is a record of these fields; one that carries nodes is not empty.
IsBody(b) ==
  /\ b = [fmt |-> b.fmt, nodes |-> b.nodes, lines |-> b.lines, sealed |-> b.sealed, size |-> b.size]
  /\ b.nodes \in Seq(ToSet(b.nodes)) /\ b.sealed \in BOOLEAN
  /\ b.size \in Nat /\ (b.nodes # <<>> => b.size > 0) /\ IsTemplate(b.lines)

ASSUME FetchAssumption == MaxStarts \in Nat \ {0} /\ \A b \in Lists \cup Pages : IsBody(b)

NoBody == [fmt |-> "other", nodes |-> <<>>, lines |-> <<>>, sealed |-> FALSE, size |-> 0]
NoKey == 0

VARIABLES
  at,          \* where Fetch is
  starts,      \* starts of the program
  file,        \* the identity file: absent, empty, comment, torn or key, and the key
  made,        \* identities generated so far: the last one's number
  ident,       \* Client.ident, NoKey for nil
  reg,         \* the identity the panel was sent last
  unread,      \* reading the identity file failed once although it held a key
  list,        \* the nodes of the dedicated list
  bodies, tmpl,\* fetchSurgeTemplate: the bodies so far, and the template chosen
  nodes,       \* what Fetch returns
  held         \* which answers of this Fetch carried a usable list

fileVars == <<file, made, unread>>
answerVars == <<list, bodies, tmpl, nodes, held>>
fetchVars == <<at, starts, fileVars, ident, reg, answerVars>>

File(st, key) == [st |-> st, key |-> key]

FetchInit ==
  /\ at = "login" /\ starts = 1
  /\ file = File("absent", NoKey) /\ made = NoKey /\ ident = NoKey /\ reg = NoKey
  /\ unread = FALSE
  /\ list = <<>> /\ bodies = <<>> /\ tmpl = NoBody /\ nodes = <<>> /\ held = {}

-----------------------------------------------------------------------------
(* profile.Parse                                                           *)

UniqueNames(ns) == \A j, k \in DOMAIN ns : ns[j].name = ns[k].name => j = k

\* What an entry is: a dedicated node with all it needs ("full"), one that
\* lacks something ("partial"), or of another kind.
Incomplete(entry) == entry.is = "partial"
Dedicated(entry) == entry.is = "full"
AllDedicated(entries) ==
  FlattenSeq([k \in DOMAIN entries |-> IF Dedicated(entries[k]) THEN <<entries[k]>> ELSE <<>>])

\* An incomplete node spoils a YAML list, and is skipped in a Surge one.
parseYAML(entries) ==
  IF \E e \in ToSet(entries) : Incomplete(e) THEN <<>> ELSE AllDedicated(entries)
parseSurge(entries) == AllDedicated(entries)
Entries(b) ==
  CASE b.fmt = "yaml" /\ ~b.sealed -> parseYAML(b.nodes)
    [] b.fmt = "surge" /\ ~b.sealed -> parseSurge(b.nodes)
    [] OTHER -> <<>>

\* Mutant: names are not compared.
Parse_AnyNames(b) == Entries(b)

\* The nodes of a body, <<>> for an error: a name used twice spoils the list.
Parse(b) == IF UniqueNames(Entries(b)) THEN Entries(b) ELSE <<>>

\* maybeDecrypt: a body the panel sealed for key is opened by its owner.
Opened(b, key) == [b EXCEPT !.sealed = @ /\ ident # key]

Looks(b) == ~b.sealed /\ looksLikeSurge(b.lines)

\* pickTemplate: of the Surge profiles the last of the largest; without one the
\* fallback if that is one; else the first of the largest bodies.
pickTemplate(bs, fallback) ==
  LET surge == {k \in DOMAIN bs : Looks(bs[k])}
      Largest(S) == {k \in S : \A j \in S : bs[j].size <= bs[k].size}
      filled == {k \in DOMAIN bs : bs[k].size > 0}
  IN CASE surge # {} -> bs[Max(Largest(surge))]
       [] surge = {} /\ ~Looks(fallback) /\ filled # {} -> bs[Min(Largest(filled))]
       [] OTHER -> fallback

-----------------------------------------------------------------------------
(* Login and the identity                                                  *)

Login ==
  /\ at = "login"
  /\ at' \in {"identity", "failed"}
  /\ UNCHANGED <<starts, fileVars, ident, reg, answerVars>>

\* LoadOrCreateAge reads the file.  A file that cannot be read, or holds no
\* line of a key, counts as absent; a line that is no key is an error.
ReadIdentity ==
  /\ at = "identity"
  /\ \/ /\ file.st = "key" /\ ident' = file.key /\ at' = "anywhere"
        /\ UNCHANGED unread
     \/ /\ file.st = "torn" /\ at' = "template"
        /\ UNCHANGED <<ident, unread>>
     \/ /\ file.st \in {"absent", "empty", "comment"} /\ at' = "create"
        /\ UNCHANGED <<ident, unread>>
     \/ /\ file.st \in {"torn", "key"} /\ at' = "create"
        /\ unread' = (unread \/ file.st = "key") /\ UNCHANGED ident
  /\ UNCHANGED <<starts, file, made, reg, answerVars>>

\* A new identity; MkdirAll, and WriteFile empties the file.
CreateIdentity ==
  /\ at = "create"
  /\ made' = made + 1
  /\ \/ file' = File("empty", NoKey) /\ at' = "write"
     \/ at' = "template" /\ UNCHANGED file
  /\ UNCHANGED <<starts, unread, ident, reg, answerVars>>

\* Mutant: the identity is used whether or not it could be stored.
WriteIdentity_Unchecked ==
  /\ at = "write"
  /\ file' \in {File("key", made), File("empty", NoKey), File("comment", NoKey), File("torn", NoKey)}
  /\ ident' = made /\ at' = "anywhere"
  /\ UNCHANGED <<starts, made, unread, reg, answerVars>>

\* WriteFile writes the key, or fails with any part of it on the disk.
WriteIdentity ==
  /\ at = "write"
  /\ \/ file' = File("key", made) /\ ident' = made /\ at' = "anywhere"
     \/ /\ file' \in {File("key", made), File("empty", NoKey), File("comment", NoKey), File("torn", NoKey)}
        /\ at' = "template" /\ UNCHANGED ident
  /\ UNCHANGED <<starts, made, unread, reg, answerVars>>

-----------------------------------------------------------------------------
(* The dedicated list: fetchAnywhere                                       *)

\* An answer: its HTTP status and signature header, ret, and the config field,
\* which an answer without an envelope is itself.
Answers == [http : {"ok", "error"}, sig : {"none", "good", "bad"}, ret : {0, 200, 400},
            config : Lists \cup Pages \cup {NoBody}]

\* Sealed bodies are sealed for the identity the panel knows.
Sendable(b, key) == b.sealed => key # NoKey

getSigned(answer) == answer.http = "ok"
Verified(answer) == answer.sig # "bad"
nodesFromBody(answer, key) ==
  IF answer.ret \in {0, 200} THEN Parse(Opened(answer.config, key)) ELSE <<>>

\* A request that does not get through leaves the panel as it was.
Anywhere ==
  /\ at = "anywhere" /\ at' = "template"
  /\ \/ list' = <<>> /\ UNCHANGED <<reg, held>>
     \/ \E answer \in Answers :
          /\ reg' = ident /\ Sendable(answer.config, reg')
          /\ list' = IF getSigned(answer) /\ Verified(answer)
                     THEN nodesFromBody(answer, reg') ELSE <<>>
          /\ held' = IF list' # <<>> THEN {"anywhere"} ELSE {}
  /\ UNCHANGED <<starts, fileVars, ident, bodies, tmpl, nodes>>

-----------------------------------------------------------------------------
(* The template: fetchSurgeTemplate, and the choice of Fetch               *)

\* Mutant: an error of the template is an error of Fetch.
Choose_Strict(tmplNodes) ==
  /\ nodes' = IF tmplNodes = <<>> THEN <<>> ELSE IF list # <<>> THEN list ELSE tmplNodes
  /\ at' = IF nodes' = <<>> THEN "failed" ELSE "fetched"

\* The dedicated list, else the nodes of the template, else an error.
Choose(tmplNodes) ==
  /\ nodes' = IF list # <<>> THEN list ELSE tmplNodes
  /\ at' = IF nodes' = <<>> THEN "failed" ELSE "fetched"

\* The POST fails or is rejected: no template.
TemplateFails ==
  /\ at = "template"
  /\ Choose(<<>>)
  /\ UNCHANGED <<starts, fileVars, ident, reg, list, bodies, tmpl, held>>

\* An answer with a config field, a subscription URL, or both.
TemplateAnswer ==
  /\ at = "template"
  /\ \E config \in Lists \cup Pages \cup {NoBody}, smart \in BOOLEAN :
       LET body == Opened(config, reg)
           bs == IF config = NoBody THEN <<>> ELSE <<body>>
       IN /\ Sendable(config, reg)
          /\ bodies' = bs
          /\ held' = IF Parse(body) # <<>> THEN held \cup {"config"} ELSE held
          /\ IF smart THEN at' = "download" /\ UNCHANGED <<tmpl, nodes>>
             ELSE tmpl' = pickTemplate(bs, NoBody) /\ Choose(Parse(body))
  /\ UNCHANGED <<starts, fileVars, ident, reg, list>>

\* The subscription, or only what came with the answer.
Download ==
  /\ at = "download"
  /\ \/ /\ tmpl' = pickTemplate(bodies, NoBody)
        /\ Choose(Parse(tmpl')) /\ UNCHANGED <<bodies, held>>
     \/ \E body \in Lists \cup Pages :
          /\ ~body.sealed
          /\ bodies' = Append(bodies, body)
          /\ tmpl' = pickTemplate(bodies', body)
          /\ held' = IF Parse(body) # <<>> THEN held \cup {"download"} ELSE held
          /\ Choose(IF Parse(body) # <<>> THEN Parse(body) ELSE Parse(tmpl'))
  /\ UNCHANGED <<starts, fileVars, ident, reg, list>>

\* The process dies, or ended, and is started again: the file and the panel stay.
Restart ==
  /\ starts < MaxStarts
  /\ starts' = starts + 1 /\ at' = "login" /\ ident' = NoKey
  /\ list' = <<>> /\ bodies' = <<>> /\ tmpl' = NoBody /\ nodes' = <<>> /\ held' = {}
  /\ UNCHANGED <<fileVars, reg>>

FetchStep ==
  \/ Login \/ ReadIdentity \/ CreateIdentity \/ WriteIdentity
  \/ Anywhere \/ TemplateFails \/ TemplateAnswer \/ Download
FetchSpec == FetchInit /\ [][FetchStep \/ Restart]_fetchVars

-----------------------------------------------------------------------------
(* Properties                                                              *)

\* The identity the panel was told is the one in the file, after any crash in
\* the middle of writing it and any error: what the panel seals for it can be
\* opened after a restart.  Only a file that could not be read is replaced
\* (LoadOrCreateAge).
IdentityKept ==
  (reg # NoKey /\ ~unread) => file = File("key", reg) /\ ident \in {NoKey, reg}

\* Fetch fails only when nothing it was given held a usable list, whichever of
\* the requests failed.  One list it may lose: that of the config field, when
\* the subscription holds no nodes but is the better template (pickTemplate).
NoListWasted ==
  at = "failed" =>
    /\ held \subseteq {"config"}
    /\ held # {} => Len(bodies) = 2 /\ tmpl = bodies[2]
=============================================================================
