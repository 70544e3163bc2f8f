--------------------------- MODULE MCPluginAttach ---------------------------
(* An instance of PluginAttach for TLC.                                      *)
EXTENDS PluginAttach, TLC

S(token) == <<token>>
File(path, size) == [path |-> path, kind |-> "file", size |-> size]
Entry(path, kind) == [path |-> path, kind |-> kind, size |-> 0]

Plugin(name, paths, entries) ==
    [manifest |-> [name |-> name, paths |-> paths, valid |-> TRUE],
     entries |-> <<File(ManifestFile, 1)>> \o entries]

Skills == <<S("skills")>>
Skill == <<S("skills"), S("x")>>
Agents == <<S("AGENTS.md")>>

(* Archives that open: one that uses up the budget and has an AGENTS.md of   *)
(* its own, one with a directory entry, one whose name differs from theirs   *)
(* by a dash, one with dashes within, one of nothing but dashes, one that    *)
(* the layout refuses, one with a file above another.                        *)
Openable ==
    { Plugin(<<"a">>, {Skills}, <<File(Skill, 1), File(Agents, 1)>>),
      Plugin(<<"a">>, {Skill}, <<Entry(<<S("skills"), <<>> >>, "dir"), File(Skill, 0)>>),
      Plugin(<<"a", "-">>, {}, <<File(Agents, 0)>>),
      Plugin(<<"a", "-", "-", "b">>, {}, <<File(Agents, 0)>>),
      Plugin(<<"-">>, {}, <<>>),
      Plugin(<<"a">>, {}, <<File(<<S("docs"), S("x")>>, 0)>>),
      Plugin(<<"c">>, {Skill}, <<File(Skills, 0), File(Skill, 0)>>) }

(* Archives that do not: too large together, an empty file after the budget  *)
(* is used up, a path twice, directories without a slash and with two, a     *)
(* link, a path that climbs, a manifest path that is missing, a manifest     *)
(* that is invalid, and none.                                                *)
Refused ==
    { Plugin(<<"a">>, {}, <<File(Skill, 1), File(Agents, 2)>>),
      Plugin(<<"a">>, {}, <<File(Skill, 2), File(Agents, 0)>>),
      Plugin(<<"a">>, {}, <<File(Skill, 0), File(Skill, 0)>>),
      Plugin(<<"a">>, {}, <<Entry(Skills, "dir")>>),
      Plugin(<<"a">>, {}, <<Entry(<<S("skills"), <<>>, <<>> >>, "dir")>>),
      Plugin(<<"a">>, {}, <<Entry(Skill, "link")>>),
      Plugin(<<"a">>, {}, <<File(<<S(".."), S("x")>>, 0)>>),
      Plugin(<<"a">>, {Skill}, <<File(Skills, 0)>>),
      [Plugin(<<"a">>, {}, <<>>) EXCEPT !.manifest.valid = FALSE],
      [Plugin(<<"a">>, {}, <<>>) EXCEPT !.entries = <<File(Skill, 1)>>] }

MCArchives == Openable \cup Refused

Symmetric == Permutations(Plugins)
=============================================================================
