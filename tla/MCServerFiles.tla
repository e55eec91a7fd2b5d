---------------------------- MODULE MCServerFiles ----------------------------
(* Two servers; a mod of Modrinth, two files of one CurseForge project and an
   item of the marketplace, the first and the last with jars of one name; a
   pack of each format. *)
EXTENDS ServerFiles, TLC

MCServers == {"s1", "s2"}
MCRelPaths == {<<>>, <<"mods">>, <<"mods", "a.jar">>, <<"..", "s2", "a.jar">>}
MCReleases ==
  {[source |-> "MODRINTH", key |-> "v1", dir |-> "mods", file |-> "a.jar"],
   [source |-> "CURSEFORGE", key |-> "p", dir |-> "mods", file |-> "p-1.jar"],
   [source |-> "CURSEFORGE", key |-> "p", dir |-> "mods", file |-> "p-2.jar"],
   [source |-> "MANUAL", key |-> "item", dir |-> "plugins", file |-> "a.jar"]}
MCPacks ==
  {[strict |-> TRUE, files |-> <<<<"mods", "a.jar">>>>, overrides |-> <<<<"..", "cfg">>>>],
   [strict |-> FALSE, files |-> <<<<"mods", "p-1.jar">>>>, overrides |-> <<<<"cfg">>>>]}
=============================================================================
