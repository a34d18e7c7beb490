--------------------------- MODULE MCConfigLayers ---------------------------
(***************************************************************************)
(* Three configuration files, written in the ways that their merge tells   *)
(* apart, and commands that run while one of them is edited.               *)
(***************************************************************************)
EXTENDS ConfigLayers

MCDests == {"api", "registry", "host"}
MCPresets == {"claude", "full"}
MCDomainsOf == "claude" :> {"api"} @@ "full" :> {}
MCIncludesOf == "claude" :> {} @@ "full" :> {"claude"}
MCFiles == <<"global", "project", "local">>
MCScalars == {"cell.stack", "cell.registry", "llm.prompt"}
MCProjectWins == {"cell.stack", "llm.prompt"}
MCKept == {"cell.registry"}
MCOverrides == [k \in MCScalars |-> ""]

Text ==
    [scalar |-> [k \in MCScalars |-> ""], privileged |-> FALSE,
     gui |-> "unset", cellGui |-> "unset",
     modules |-> {}, packages |-> {}, stable |-> {}, caps |-> {},
     ports |-> {}, cellPorts |-> {}, mcps |-> {}, cellMcps |-> {},
     docs |-> {}, secrets |-> {}, tunnels |-> {},
     env |-> <<>>, mounts |-> <<>>, cellMounts |-> <<>>,
     provider |-> "", useOllama |-> FALSE, useOpenRouter |-> FALSE,
     model |-> [prefix |-> "", id |-> ""],
     oldModel |-> [prefix |-> "", id |-> ""], proxy |-> NoProxy]

Mount(src, path) == [source |-> src, path |-> path]
Named(id) == [prefix |-> "", id |-> id]

GlobalTexts ==
    {[Text EXCEPT !.modules = {{"go"}}, !.provider = "ollama",
                  !.model = Named("qwen"), !.env = "TOKEN" :> "old",
                  !.proxy.enabled = "on", !.proxy.block = {"registry"},
                  !.proxy.mode = "block"],
     [Text EXCEPT !.useOllama = TRUE,
                  !.oldModel = [prefix |-> "ollama", id |-> "qwen"],
                  !.proxy.allow = {"registry"}, !.proxy.presets = {"full"},
                  !.proxy.allowHostNetwork = "on"]}
ProjectTexts ==
    {[Text EXCEPT !.modules = {{}}, !.provider = "openrouter",
                  !.cellMounts = <<Mount("/a", "/x"), Mount("/b", "/y")>>,
                  !.mounts = <<Mount("/c", "/x")>>,
                  !.proxy.enabled = "off", !.proxy.presets = {"claude"}],
     [Text EXCEPT !.model = Named("glm"), !.env = "TOKEN" :> "new",
                  !.packages = {{"jq"}}, !.proxy.enabled = "on",
                  !.proxy.allow = {"registry"},
                  !.proxy.allowHostNetwork = "on"]}
LocalTexts ==
    {[Text EXCEPT !.modules = {{"node"}}, !.stable = {{}},
                  !.caps = {"NET_ADMIN"}, !.gui = "off"],
     [Text EXCEPT !.provider = "ollama", !.cellPorts = {"8080"},
                  !.scalar["cell.stack"] = "go"]}
MCContents == "global" :> GlobalTexts @@ "project" :> ProjectTexts
              @@ "local" :> LocalTexts
=============================================================================
