---------------------------- MODULE MCPop3Session ----------------------------
(***************************************************************************)
(* Values for the constants of Pop3Session.                                *)
(***************************************************************************)
EXTENDS Pop3Session

Cmd(kw, args) == [kw |-> kw, args |-> args]

EveryType  == {Cmd("STAT", 0), Cmd("LIST", 1), Cmd("LIST", 0), Cmd("CAPA", 0), Cmd("retr", 1),
               Cmd("RETR", 1)}
Unfiltered == {Cmd("STAT", 0), Cmd("LIST", 0), Cmd("retr", 1)}
AllKinds   == {Cmd("STAT", 0), Cmd("LIST", 0), Cmd("RETR", 1), Cmd("OVERLONG", 0),
               Cmd("STAT", 3)}
Listing    == {Cmd("LIST", 0)}

OneLine   == {<<"line">>}
WithBlank == {<<"line">>, <<"line", "eol", "line">>, <<"line", "eol">>}
==============================================================================
