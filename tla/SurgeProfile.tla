----------------------------- MODULE SurgeProfile -----------------------------
(***************************************************************************)
(* The Surge profile the config server hands out: serve/emit.go.  A line   *)
(* is a record of its kind k, the name it defines and the members it       *)
(* lists:                                                                  *)
(*   managed    the #!MANAGED-CONFIG line                                  *)
(*   head       a section header; its name is the header                   *)
(*   direct     Direct and Block of [Proxy]                                *)
(*   remote     another policy of the template's [Proxy]                   *)
(*   local      a policy of ours: a socks5 line for a mapped listener      *)
(*   select, test   a group that is chosen by hand, one that tests         *)
(*   text       anything else                                              *)
(* Comments, blank lines, the options of a group and the wording are left  *)
(* out.                                                                    *)
(***************************************************************************)
EXTENDS Naturals, Sequences, SequencesExt

CONSTANT Lower \* names and what they are in lower case, where that differs

ASSUME LowerAssumption == "" \notin DOMAIN Lower /\ \A name \in DOMAIN Lower : Lower[name] # ""

\* Two names are the same to the program when they are in lower case.
policyNameKey(name) == IF name \in DOMAIN Lower THEN Lower[name] ELSE name
Keys(names) == {policyNameKey(name) : name \in names}

Ln(k, name, members) == [k |-> k, name |-> name, members |-> members]
Header(name) == Ln("head", name, <<>>)

ProxyHdr == "[Proxy]"
GroupHdr == "[Proxy Group]"
ProxyHdrs == {ProxyHdr, "[proxy]"}                  \* equal but for case
GroupHdrs == {GroupHdr, "[proxy group]"}

UrlTest == "Auto - UrlTest"
Smart == "Auto - Smart"
Autos == <<UrlTest, Smart>>
Builtin == <<Ln("direct", "Direct", <<>>), Ln("direct", "Block", <<>>)>>
Managed == Ln("managed", "", <<>>)

\* ProxyList, and socksLine for each of its lines.
ProxyList(names) == [n \in DOMAIN names |-> Ln("local", names[n], <<>>)]

\* The elements of a sequence that are not in S.
Without(s, S) == FlattenSeq([n \in DOMAIN s |-> IF s[n] \in S THEN <<>> ELSE <<s[n]>>])

\* The header that line n of a template stands under, "" before the first.
SectionOf(lines, n) ==
  LET heads == {h \in DOMAIN lines : h < n /\ lines[h].k = "head"}
  IN IF heads = {} THEN "" ELSE lines[Max(heads)].name

\* A template is read by its sections: the policies of [Proxy] are direct or remote,
\* the groups are in the group section, and no policy in it is ours.
IsTemplate(lines) ==
  /\ lines \in Seq(ToSet(lines))
  /\ \A n \in DOMAIN lines :
       LET line == lines[n]
           kinds == {"managed", "head", "text"}
             \cup (IF SectionOf(lines, n) \in ProxyHdrs THEN {"direct", "remote"} ELSE {})
             \cup (IF SectionOf(lines, n) \in GroupHdrs THEN {"select", "test"} ELSE {})
       IN /\ line = Ln(line.k, line.name, line.members) /\ line.k \in kinds
          /\ line.members \in Seq(ToSet(line.members))
          /\ line.k \notin {"select", "test"} => line.members = <<>>
          /\ line.k \in {"managed", "text"} => line.name = ""
          /\ line.k \in {"select", "test"} => line.name # ""
          /\ line.k = "direct" => policyNameKey(line.name) \in Keys({"Direct", "Block"})

looksLikeSurge(lines) == Managed \in ToSet(lines) \/ Header(ProxyHdr) \in ToSet(lines)

-----------------------------------------------------------------------------
(* Groups                                                                  *)

\* Mutant: the placeholder of the template is kept.
Unfolded_Kept(members) == members

\* The template's placeholder for all nodes stands for the two automatic groups.
Unfolded(members) ==
  FlattenSeq([p \in DOMAIN members |-> IF members[p] = "oixCloud" THEN <<Smart, UrlTest>>
                                       ELSE <<members[p]>>])

\* A select group without Block also offers every mapped node.
expandGroup(line, names) ==
  LET kept == Unfolded(line.members)
      more == Without(names, ToSet(kept))
  IN [line EXCEPT !.members =
        IF line.k = "select" /\ policyNameKey("Block") \notin Keys(ToSet(line.members))
        THEN kept \o more ELSE kept]

\* The members of an automatic group are the mapped nodes.
rewriteAutoGroup(line, names) == [line EXCEPT !.members = names]

missingAutoGroups(names, wrote) ==
  LET missing == Without(Autos, wrote)
  IN [g \in DOMAIN missing |-> Ln("test", missing[g], names)]

\* SurgeGroupNames: what the groups of a template are called.
SurgeGroupNames(template) ==
  {template[n].name : n \in {m \in DOMAIN template :
     template[m].k # "head" /\ SectionOf(template, m) \in GroupHdrs}} \ {""}

-----------------------------------------------------------------------------
(* RewriteSurge                                                            *)

\* A header; a [Proxy Group] section that ends gets the groups it lacks.  Here
\* the code compares the old header exactly, everywhere else whatever its case.
AtHeader(st, line, names) ==
  LET ends == st.section = GroupHdr /\ names # <<>>
  IN [st EXCEPT !.out = @ \o (IF ends THEN missingAutoGroups(names, st.wrote) ELSE <<>>) \o <<line>>,
                !.wrote = IF ends THEN ToSet(Autos) ELSE @,
                !.section = line.name]

\* The first remote policy makes room for ours, the others go.
AtRemote(st, names) ==
  IF st.proxy THEN st
  ELSE [st EXCEPT !.out = @ \o ProxyList(names), !.proxy = TRUE]

\* An automatic group, however the template spells it, is put out once.
AtGroup(st, line, names) ==
  LET auto == {a \in ToSet(Autos) : policyNameKey(a) = policyNameKey(line.name)}
  IN CASE auto = {} -> [st EXCEPT !.out = Append(@, expandGroup(line, names))]
       [] auto # {} /\ auto \subseteq st.wrote -> st
       [] OTHER -> [st EXCEPT !.out = Append(@, rewriteAutoGroup(line, names)), !.wrote = @ \cup auto]

\* One turn of the loop.
Turn(st, line, names) ==
  IF line.k = "head" THEN AtHeader(st, line, names)
  ELSE CASE st.section \in ProxyHdrs /\ line.k \notin {"managed", "direct"} -> AtRemote(st, names)
         [] st.section \in GroupHdrs /\ line.k # "managed" -> AtGroup(st, line, names)
         [] OTHER -> [st EXCEPT !.out = Append(@, line)]

\* The loop, from before its first turn.
Walk(template, names) ==
  LET walk[n \in 0..Len(template)] ==
        IF n = 0 THEN [out |-> <<>>, section |-> "", proxy |-> FALSE, wrote |-> {}]
        ELSE Turn(walk[n - 1], template[n], names)
  IN walk[Len(template)]

RewriteSurge(template, names) ==
  LET st == Walk(template, names)
      groups == IF st.section \in GroupHdrs /\ names # <<>>
                THEN missingAutoGroups(names, st.wrote) ELSE <<>>
      proxies == IF st.proxy \/ names = <<>> THEN <<>>
                 ELSE <<Header(ProxyHdr)>> \o Builtin \o ProxyList(names)
      body == st.out \o groups \o proxies
  IN IF body # <<>> /\ Head(body) = Managed THEN body ELSE <<Managed>> \o body

minimalSurge(names) ==
  <<Managed, Header("[General]"), Header(ProxyHdr)>> \o Builtin \o ProxyList(names)
  \o <<Header(GroupHdr), Ln("select", "Proxy", Append(names, "Direct")), Header("[Rule]"),
       Ln("text", "", <<>>)>>

SurgeConfig(names, template) ==
  IF looksLikeSurge(template) THEN RewriteSurge(template, names) ELSE minimalSurge(names)
=============================================================================
