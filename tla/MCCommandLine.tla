----------------------------- MODULE MCCommandLine -----------------------------
(* Instance of CommandLine for TLC. *)
EXTENDS CommandLine, TLC

MCCommunityCodes == {"ex_a", "ex_b", "ex_old", "lvrules_mixed"}
MCNamespace ==
  [ex_a |-> "ex", ex_b |-> "ex", ex_old |-> "ex", lvrules_mixed |-> "lvrules",
   SA1 |-> "go-lint", IMP |-> "go-imports", SEC |-> "secrets"]
MCRenamed == [c \in DOMAIN MCNamespace |-> IF c = "ex_b" THEN {"ex_old"} ELSE {}]

Finding(c) == [code |-> c, site |-> "s"]
MCFindings == {Finding(c) : c \in DOMAIN MCNamespace \ {"ex_old"}}

(* A declaration, changed by one record of fields. *)
Decl(kind, executor) ==
  [kind |-> kind, single |-> FALSE, targets |-> <<"root">>, executor |-> executor,
   options |-> {}, malformed |-> {}, env |-> {}, rerunArgs |-> TRUE, cache |-> FALSE,
   stage |-> "none", coreOnly |-> FALSE, on |-> {}, off |-> {}]

MCTargets == [root |-> [dir |-> ".", inputs |-> "literal", there |-> TRUE],
              app |-> [dir |-> "app", inputs |-> "pattern", there |-> TRUE],
              gone |-> [dir |-> "gone", inputs |-> "literal", there |-> FALSE]]
             @@ "sub/root" :> [dir |-> ".", inputs |-> "literal", there |-> TRUE]
MCSlashed == {"sub/root"}

Rules == [path |-> "m", namespace |-> "ex", select |-> {"ex_a", "ex_old"},
          advisory |-> {"ex_a"}, pinned |-> TRUE, withdrawn |-> FALSE]

Config(checks, modules) ==
  [version |-> 1, baseline |-> TRUE, checks |-> checks, targets |-> MCTargets, modules |-> modules]

Lint == Decl("go-lint", "dagger")
Core == [Decl("go-lint", "native") EXCEPT !.targets = <<"root", "app">>]
Imports == [Decl("go-imports", "dagger") EXCEPT !.options = {"imports"}, !.single = TRUE]
Secrets == [Decl("secrets", "native") EXCEPT !.single = TRUE]
MCChecks == [lint |-> Lint, core |-> Core, imports |-> Imports, secrets |-> Secrets]

Off == [Lint EXCEPT !.options = {"lint"}, !.off = {"SA1", "ex_old"}]
MCConfigs ==
  {Config(MCChecks, {Rules}),
   Config(MCChecks, {}),
   Config([MCChecks EXCEPT !.lint = Off], {Rules}),
   Config([MCChecks EXCEPT !.imports = Lint], {[Rules EXCEPT !.advisory = {}]})}

(* One declaration each, of every kind and with every way to be wrong. *)
Objects(d) == {{}, {"command"}, {"mutation"}, {"imports"}}
Variants ==
  UNION {{[d EXCEPT !.options = o, !.malformed = bad, !.rerunArgs = r, !.single = s,
                    !.targets = <<t>>, !.cache = r, !.env = e] :
            o \in Objects(d), r \in BOOLEAN, s \in BOOLEAN, t \in {"root", "app"},
            bad \in {{}, {"imports"}, {"env"}}, e \in {{}, {"identity"}}} :
          d \in {Decl(k, x) : k \in NativeKinds \cup DaggerKinds, x \in {"native", "dagger"}}}
Drafted(d) == [Config([lint |-> d], {}) EXCEPT !.baseline = FALSE]
MCDrafts ==
  {Drafted(d) : d \in Variants}
  \cup {[Config([lint |-> d], {m}) EXCEPT !.version = v] :
          d \in {Lint, Off, [Lint EXCEPT !.executor = "native"], [Lint EXCEPT !.coreOnly = TRUE],
                 [Lint EXCEPT !.executor = "native", !.coreOnly = TRUE],
                 [Lint EXCEPT !.targets = <<"root", "gone">>],
                 [Lint EXCEPT !.targets = <<"root", "root">>],
                 [Lint EXCEPT !.targets = <<"root", "sub/root">>]},
          m \in {Rules, [Rules EXCEPT !.withdrawn = TRUE], [Rules EXCEPT !.pinned = FALSE]},
          v \in {1, 2}}

Amounts(dot, app) ==
  [dir \in {".", "app", "gone"} |->
    [f \in MCFindings |-> IF dir = "." /\ f.code \in DOMAIN dot THEN dot[f.code]
                          ELSE IF dir = "app" /\ f.code \in DOMAIN app THEN app[f.code] ELSE 0]]
MCDebts ==
  {Amounts(<<>>, <<>>),
   Amounts([SA1 |-> 2, ex_a |-> 1, ex_b |-> 1, IMP |-> 1, lvrules_mixed |-> 1], [SA1 |-> 1]),
   Amounts([SA1 |-> 1, ex_b |-> 2, SEC |-> 1], <<>>)}

EntryKey(kind, dir, c) == [kind |-> kind, dir |-> dir, code |-> c, site |-> "s"]
MCHandFiles ==
  {EntryKey("go-lint", ".", "SA1") :> 2 @@ EntryKey("go-lint", "app", "SA1") :> 1
     @@ EntryKey("go-imports", ".", "IMP") :> 1,
   EntryKey("go-lint", ".", "ex_b") :> 1 @@ EntryKey("go-lint", ".", "ex_a") :> 1}

Request(refs, rerun) == [refs |-> refs, rerun |-> rerun]
MCRequests ==
  {Request(<<"lint">>, FALSE), Request(<<"lint">>, TRUE), Request(<<"imports">>, FALSE),
   Request(<<"lint/sub/root">>, FALSE),
   Request(<<"lint", "core">>, FALSE), Request(<<"core/app", "imports", "secrets">>, FALSE)}
MCFlagSets == {{}, {"write"}, {"ignore"}, {"render"}, {"dry"}, {"dry", "write"},
               {"astray"}}
================================================================================
