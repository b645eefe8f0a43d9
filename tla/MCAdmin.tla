------------------------------- MODULE MCAdmin -------------------------------
(***************************************************************************)
(* Values for the constants of Admin: one operator types every line of up  *)
(* to six words from these columns, in or out of the syntax (no encoder    *)
(* looks past the second word of a line on metrics or configuration, nor   *)
(* at their number past three); another bans types meanwhile.              *)
(***************************************************************************)
EXTENDS Admin

Columns ==
  << {"sock", "trans", "metrics", "config"},
     {"status", "mod", "bytes", "access", "conections"},
     {"origin", "local", "general", "mime"},
     {"port", "address", "replace", "ban"},
     {"1100", "image/png"},
     {"text/html"} >>

AllWords == UNION {Columns[i] : i \in 1..6}

AnyLine ==
  LET grow[n \in 1..6] ==
        IF n = 1 THEN {<<w>> : w \in Columns[1]}
        ELSE {Append(l, w) : l \in grow[n - 1], w \in Columns[n]}
  IN  {l \in UNION {grow[n] : n \in 1..6} : l[1] \in {"metrics", "config"} => Len(l) <= 3}

BanLines == { <<"trans", "mod", "mime", "ban", "text/html">>,
              <<"trans", "mod", "mime", "ban", "text/html", "image/png">> }

TypedBy == [operator |-> AnyLine, colleague |-> BanLines]
==============================================================================
