--------------------------- MODULE MCConfigReload ---------------------------
(* A small instance of ConfigReload: two keyboards, an accessibility service *)
(* that is switched on, a prefix, and users who add and remove them.         *)
EXTENDS ConfigReload, TLC

MCEntries == {"sys", "ime1", "ime2", "app", "app*"}

MCMatches == [e \in MCEntries |-> IF e = "app*" THEN {"app", "app2"} ELSE {e}]
MCRemoves == [e \in MCEntries |-> IF e = "app*" THEN {"app", "app*"} ELSE {e}]

MCKeyboard      == 0 :> "ime1" @@ 1 :> "ime2"
MCAccessibility == 0 :> {} @@ 1 :> {"app"}

MCUserFiles ==
  {[adds |-> {"app*"}, removals |-> {"ime1", "sys"}],
   [adds |-> {"ime2", "app"}, removals |-> {"ime2"}],
   [adds |-> {"ime1"}, removals |-> {"app*"}]}

MCTerminalFiles == {{}, {"app"}}
MCDenied        == {{}, {"settings"}, {"blocklist"}}
=============================================================================
