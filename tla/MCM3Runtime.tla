----------------------------- MODULE MCM3Runtime -----------------------------
\* A module with a start function, an import, an else and a br_table, and a
\* second one in the same runtime.
EXTENDS M3Runtime

MCFunctions == {"_start", "init", "grow", "host", "other"}
MCModuleOf == [f \in MCFunctions |-> IF f = "other" THEN "lib" ELSE "plugin"]
MCCalls == [f \in MCFunctions |-> CASE f = "_start" -> {"grow", "host"} [] f = "init" -> {"host"} [] OTHER -> {}]
MCTable == [m \in {"plugin", "lib"} |-> IF m = "plugin" THEN {"grow"} ELSE {}]
MCStartOf == [m \in {"plugin", "lib"} |-> IF m = "plugin" THEN "init" ELSE "none"]
MCExpressions == [m \in {"plugin", "lib"} |-> IF m = "plugin" THEN 1 ELSE 0]
MCCode ==
    [f \in MCFunctions \cup {"expression"} |->
        CASE f = "_start" -> <<<<"op", 5>>, <<"unchecked", 4>>, <<"else">>, <<"op", 5>>, <<"end else">>>>
          [] f = "grow" -> <<<<"table", 1>>, <<"target">>, <<"op", 3>>, <<"end target">>,
                             <<"target">>, <<"op", 3>>, <<"end target">>>>
          [] OTHER -> <<<<"op", 3>>>>]
=============================================================================
