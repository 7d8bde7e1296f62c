-------------------------- MODULE MCResolveSurfaces --------------------------
(* ResolveSurfaces for TLC.                                                *)
EXTENDS ResolveSurfaces

names == {"web", "api"}
placeholders == {"<ref>"}

L(key, value) == [key |-> key, value |-> value]
Lines(name, repo, ref) ==
  <<L("surface", <<name>>), L("repo", <<"host", "org", repo>>), L("ref", <<ref>>)>>

(* Registries as agents write them, with comments and blank lines or none, *)
(* and paths and skills in every spelling; then, written wrong: a record   *)
(* cut short, a key given twice, a surface twice, a placeholder left in.   *)
documents ==
  {<<>>,
   Lines("web", "shop", "main") \o <<L("path", <<".", "e2e">>), L("skills", <<"web", "">>)>>,
   Lines("web", "shop", "next") \o Lines("api", "shop", "next") \o <<L("path", <<"", "e2e", "">>)>>,
   Lines("api", "shop", "main") \o <<L("comment", Blank), L("status", <<"active">>), L("blank", Blank)>>
     \o Lines("web", "shop", "main") \o <<L("path", <<".", "">>)>>,
   Lines("web", "shop", "main") \o <<L("status", <<"deprecated">>)>>
     \o Lines("api", "back", "main") \o <<L("conventions", <<"HOUSE.md">>)>>,
   <<L("surface", <<"web">>), L("status", <<"none">>)>> \o Lines("api", "shop", "main"),
   <<L("surface", <<"web">>), L("ref", <<"main">>)>>,
   Lines("web", "shop", "main") \o <<L("ref", <<"next">>)>>,
   Lines("web", "shop", "main") \o <<L("blank", Blank)>> \o Lines("web", "back", "main"),
   Lines("api", "shop", "<ref>")}

Label(prefix, value) == [prefix |-> prefix, value |-> value]
stories ==
  {<<Label("tier", "large"), Label("surface", "api")>>,
   <<Label("size", "mid"), Label("surface", "web"), Label("size", "large")>>,
   <<Label("tier", "huge"), Label("tier", "mid"), Label("surface", "api"), Label("", "web"),
     Label("surface", "web")>>}
=============================================================================
