------------------------------ MODULE MCGoLint -------------------------------
(* Instance of GoLint for TLC. *)
EXTENDS GoLint

Code(text, tests, codes, plain, tested, open) ==
  [text |-> text, tests |-> tests, codes |-> codes, plain |-> plain, tested |-> tested,
   open |-> open, compiles |-> TRUE, placed |-> TRUE, packages |-> TRUE, ragged |-> FALSE,
   vendored |-> FALSE]

(* recv is found by the tests' code only, param without it, and soft, which *)
(* no build decides alone, in either.                                       *)
MCSources == {
  Code(1, FALSE, {"recv"}, {}, {}, {}),
  Code(1, TRUE, {"recv"}, {}, {"recv"}, {}),
  Code(2, TRUE, {"param"}, {"param", "soft"}, {},
       {<<"hard", "v1", "lax">>, <<"hard", "v2", "lax">>}),
  [Code(3, FALSE, {"recv", "soft"}, {}, {}, {<<"soft", "v1", "strict">>}) EXCEPT !.vendored = TRUE],
  [Code(4, TRUE, {"soft"}, {"param"}, {"soft"}, {<<"hard", "v2", "lax">>}) EXCEPT !.ragged = TRUE],
  [Code(5, FALSE, {}, {}, {}, {}) EXCEPT !.compiles = FALSE],
  [Code(6, FALSE, {}, {}, {}, {}) EXCEPT !.compiles = FALSE, !.placed = FALSE],
  [Code(7, FALSE, {}, {}, {}, {}) EXCEPT !.packages = FALSE]}

Pattern(on, community, codes) == [on |-> on, community |-> community, codes |-> codes]
CoreNames == {"recv", "param", "format"}
AllCodes == CoreNames \cup {"staticcheck", "compile"}
MCShipped == <<Pattern(TRUE, FALSE, AllCodes)>>
MCJudgedIn == [recv |-> "tested", param |-> "plain", format |-> "both"]

(* Of any rule: selected or not, of either linter, on the line or another. *)
MCPrintable ==
  {Finding(r, "line", soft) : r \in {"hard", "soft"}, soft \in BOOLEAN}
    \cup {Finding(r, "line", FALSE) : r \in {"mixed", "staticcheck", "param"}}
    \cup {Finding(r, "elsewhere", FALSE) : r \in {"hard", "mixed", "staticcheck"}}

RuleModule == [rules |-> {"hard", "soft"}, renamed |-> [x \in {} |-> x], valid |-> TRUE,
               withdrawn |-> FALSE, newerGo |-> FALSE, lvrules |-> TRUE, unlisted |-> FALSE,
               declares |-> TRUE, resolves |-> "v1"]
MCModules == [v1 |-> RuleModule,
              v2 |-> [RuleModule EXCEPT !.resolves = "v2", !.renamed = [gentle |-> "soft"]],
              v3 |-> [RuleModule EXCEPT !.resolves = "v2"]]

Everything == <<Pattern(TRUE, TRUE, {"hard", "soft"})>>
Configuration(pin, checks, select, advisory, setting) ==
  [pin |-> pin, checks |-> checks, select |-> select, advisory |-> advisory, setting |-> setting]
MCConfigs == {
  Configuration(NoModule, <<Pattern(FALSE, FALSE, {"param"})>>, <<>>, <<>>, "lax"),
  Configuration(NoModule, <<Pattern(TRUE, FALSE, {"parm"})>>, <<>>, <<>>, "lax"),
  Configuration(NoModule, <<Pattern(FALSE, FALSE, AllCodes), Pattern(TRUE, FALSE, {"format"})>>,
                <<>>, <<>>, "lax"),
  Configuration("v1", <<>>, Everything, <<Pattern(TRUE, TRUE, {"soft"})>>, "lax"),
  Configuration("v1", <<>>, Everything, <<Pattern(TRUE, TRUE, {"soft"})>>, "strict"),
  Configuration("v2", <<Pattern(FALSE, TRUE, {"gentle"})>>, Everything, <<>>, "lax"),
  Configuration("v3", <<Pattern(FALSE, TRUE, {"hard"})>>, Everything, <<>>, "lax"),
  Configuration("v1", <<Pattern(TRUE, TRUE, {"hrad"})>>, Everything, <<>>, "lax")}
===============================================================================
