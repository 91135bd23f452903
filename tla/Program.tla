-------------------------------- MODULE Program --------------------------------
(***************************************************************************)
(* The program as run/run.go composes it: fetch the nodes (PanelFetch),    *)
(* filter them, add the listeners of the configuration file, start the     *)
(* server (ServerLife), which hands out profiles made from the template    *)
(* that was fetched (SurgeProfile), and close it on a signal.  A kill ends *)
(* all of it but the identity file and what the panel knows.               *)
(***************************************************************************)
EXTENDS PanelFetch, ServerLife

CONSTANTS
  Filters,     \* lists of expressions, each the set of names it matches
  Forced,      \* --node: a name, or "" for none
  Configs,     \* the listeners of a configuration file: name, node, is the port in range
  Malformed    \* names a profile cannot hold

ASSUME ProgramAssumption ==
  /\ \A regs \in Filters : regs \in Seq(ToSet(regs))
  /\ \A conf \in Configs : conf \in Seq(ToSet(conf))

VARIABLE label \* the name of each listener in the profiles

vars == <<fetchVars, lifeVars, label>>

Init == FetchInit /\ Off /\ label = <<>>

\* The lines of the template; one that stayed sealed shows none.
Template == IF tmpl.sealed THEN <<>> ELSE tmpl.lines

-----------------------------------------------------------------------------
(* Choosing the nodes                                                      *)

\* The first node of the name, <<>> when there is none.
Find(ns, name) ==
  LET hits == {k \in DOMAIN ns : ns[k].name = name}
  IN IF hits = {} THEN <<>> ELSE <<ns[Min(hits)]>>

\* The nodes each expression matches and none before it did, in the order of
\* the expressions.
Filter(ns, regs) ==
  LET Matched(k, n) == n.name \in regs[k] /\ \A j \in 1..(k - 1) : n.name \notin regs[j]
      Found(k) == FlattenSeq([m \in DOMAIN ns |-> IF Matched(k, ns[m]) THEN <<ns[m]>> ELSE <<>>])
  IN IF regs = <<>> THEN ns ELSE FlattenSeq([k \in DOMAIN regs |-> Found(k)])

Reserved == Keys({"Direct", "Block", "Proxy", UrlTest, Smart, "oixCloud"})
ValidName(name) == name \notin Malformed /\ policyNameKey(name) \notin Reserved

\* Mutant: only the names of nodes are taken.
SeenNames_NodesOnly(all, lines) == Keys({n.name : n \in ToSet(all)})

\* The names a listener of the configuration cannot have.
SeenNames(all, lines) == Keys({n.name : n \in ToSet(all)} \cup SurgeGroupNames(lines))

\* extraListeners: any listener of the file that is wrong is an error, one whose
\* node was filtered out is left out but keeps its name.
extraListeners(conf, active, all, lines) ==
  LET key(e) == policyNameKey(conf[e].name)
      seen(e) == SeenNames(all, lines) \cup {key(d) : d \in 1..(e - 1)}
      mapped(e) == Find(active, conf[e].node)
  IN [ok |-> \A e \in DOMAIN conf : /\ ValidName(conf[e].name) /\ key(e) \notin seen(e)
                                   /\ conf[e].inRange /\ Find(all, conf[e].node) # <<>>,
      nodes |-> FlattenSeq([e \in DOMAIN conf |-> mapped(e)]),
      labels |-> FlattenSeq([e \in DOMAIN conf |->
                               IF mapped(e) = <<>> THEN <<>> ELSE <<conf[e].name>>])]

\* The nodes that are mapped: filtered, one by name, or the first.
Chosen(regs, forced, single) ==
  LET kept == Filter(nodes, regs)
  IN CASE forced # "" -> Find(kept, forced)
       [] forced = "" /\ single /\ kept # <<>> -> <<Head(kept)>>
       [] OTHER -> kept

\* Main between the fetch and the server.  What was fetched is dropped, but for
\* the template, which the server keeps.
Select ==
  /\ at = "fetched"
  /\ \E regs \in Filters, forced \in Forced, single \in BOOLEAN, conf \in Configs, quiet \in BOOLEAN :
       LET mine == Chosen(regs, forced, single)
           extras == extraListeners(IF single THEN <<>> ELSE conf, mine, nodes, Template)
       IN IF mine = <<>> \/ ~extras.ok
          THEN at' = "exit" /\ UNCHANGED <<lifeVars, label>>
          ELSE /\ at' = "running"
               /\ label' = [n \in DOMAIN mine |-> mine[n].name] \o extras.labels
               /\ Boot(mine \o extras.nodes, quiet)
  /\ list' = <<>> /\ bodies' = <<>> /\ nodes' = <<>> /\ held' = {}
  /\ UNCHANGED <<starts, fileVars, ident, reg, tmpl>>

\* --profile: the nodes of a file, without a template.
LoadProfile ==
  /\ at = "login"
  /\ \E body \in Lists : ~body.sealed /\ nodes' = Parse(body)
  /\ at' = IF nodes' = <<>> THEN "exit" ELSE "fetched"
  /\ UNCHANGED <<starts, fileVars, ident, reg, list, bodies, tmpl, held, lifeVars, label>>

Fetches == FetchStep /\ UNCHANGED <<lifeVars, label>>
Serves == LifeStep /\ UNCHANGED <<fetchVars, label>>
Killed == Restart /\ SwitchOff /\ label' = <<>>
Ended == (at \in {"failed", "exit"} \/ pc = "down") /\ UNCHANGED vars

Next == Fetches \/ LoadProfile \/ Select \/ Serves \/ Killed \/ Ended
Spec == Init /\ [][Next]_vars

-----------------------------------------------------------------------------
(* Properties                                                              *)

Defines(line) == line.k \in {"local", "direct", "remote", "select", "test"}
Defined(lines) == {lines[n].name : n \in {m \in DOMAIN lines : Defines(lines[m])}}
Remote(lines) == {lines[n].name : n \in {m \in DOMAIN lines : lines[m].k = "remote"}}
Members(lines) == UNION {ToSet(lines[n].members) : n \in DOMAIN lines}

\* The names that are used for something else, whatever the listeners are called.
Spoken(template) == Reserved \cup Keys(SurgeGroupNames(template))

\* The names that are like none of those, and like no other of the list.
Apart(names, template) ==
  {l \in DOMAIN names : /\ policyNameKey(names[l]) \notin Spoken(template)
                        /\ \A m \in DOMAIN names :
                             policyNameKey(names[m]) = policyNameKey(names[l]) => m = l}

\* What a group made from the template may list though the profile lacks it: the
\* template's remote policies, whose lines go; what the template itself listed and
\* lacked, but not Direct and Block when it has no policy of its own; and the
\* automatic groups it lacks, when every section they could be put in has a header
\* in lower case and ends before the template does.
Unresolved(template) ==
  LET Under(n, hdrs) == SectionOf(template, n) \in hdrs
      bare == \A n \in DOMAIN template :
                Under(n, ProxyHdrs) => template[n].k \in {"managed", "head", "direct"}
      room == Header(GroupHdr) \in ToSet(template) \/ Under(Len(template) + 1, GroupHdrs)
      has == Defined(template) \cup (IF bare THEN {"Direct", "Block"} ELSE {})
      lists == Members(template) \cup (IF room THEN {} ELSE ToSet(Autos))
  IN (Keys(lists) \ Keys(has)) \cup Keys(Remote(template))

\* Each of the names is in the profile once as a local proxy; a name that is apart,
\* or fixed by the configuration, names nothing else; no remote policy is there; and
\* what a group lists is, but for what the template leaves unresolved.  The
\* placeholder for all nodes is never left.
Resolves(profile, names, fixed, template) ==
  LET defs == {d \in DOMAIN profile : Defines(profile[d])}
      Of(name) == {d \in defs : policyNameKey(profile[d].name) = policyNameKey(name)}
      Lines(name) == {d \in defs : profile[d] = Ln("local", name, <<>>)}
  IN /\ \A l \in DOMAIN names :
          \E d \in defs : /\ Lines(names[l]) = {d}
                          /\ l \in fixed \cup Apart(names, template) => Of(names[l]) = {d}
     /\ \A d \in defs :
          /\ profile[d].k # "remote"
          /\ \A member \in ToSet(profile[d].members) :
               \/ policyNameKey(member) \in Keys(Defined(profile))
               \/ member # "oixCloud" /\ policyNameKey(member) \in Unresolved(template)

\* What a request for the profile gets now.
Profile == SurgeConfig([m \in DOMAIN maps |-> label[maps[m]]], Template)

\* The listeners of the configuration file: their names are their own.
FixedListeners == {l \in L : label[l] # node[l].name}

\* A profile served at any moment, during Close too, can be used as far as the
\* template could: every mapped listener is in it once as a local proxy, one of the
\* configuration file under a name nothing else has, whatever the nodes and the
\* groups of the template are called; no remote policy is; and a group lists nothing
\* that is missing but what Unresolved names (SurgeConfig, extraListeners, Start
\* before the config server, Close).
ProfileResolves ==
  http = "open" => Resolves(Profile, [l \in L |-> label[l]], FixedListeners, Template)

\* "Filter downloaded nodes ...; mapping and generated configs only see matches"
\* (run/run.go:291): no group of a profile names a policy of the template that is
\* not mapped (expandGroup keeps the members the template gave a group).
OnlyMatches ==
  http = "open" => Members(Profile) \cap (Remote(Template) \ {label[l] : l \in L}) = {}
=============================================================================
