---------------------------- MODULE MCEngineCaches -----------------------------
(* Instance of EngineCaches for TLC: two checks of one clone, of two, and  *)
(* of two without keys; with advisories; and of a vendored module.         *)
EXTENDS EngineCaches

Job(repo, kind, keyed, vendored) ==
  [repo |-> repo, kind |-> kind, keyed |-> keyed, vendored |-> vendored, source |-> repo]

MCTestA == Job("a", "go-test", TRUE, FALSE)
MCGenerateA == Job("a", "go-generate", TRUE, FALSE)
MCJointly == {
  {MCTestA, MCGenerateA},
  {MCTestA, Job("b", "go-generate", TRUE, FALSE)},
  {Job("a", "go-test", FALSE, FALSE), Job("b", "go-test", FALSE, FALSE)},
  {MCGenerateA, Job("a", "go-vuln", TRUE, FALSE)},
  {MCGenerateA, Job("a", "go-test", TRUE, TRUE)}}
MCJobs == UNION MCJointly
===============================================================================
