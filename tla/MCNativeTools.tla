----------------------------- MODULE MCNativeTools -----------------------------
(* Instance of NativeTools for TLC: a check of every kind, and pairs that  *)
(* share a helper or a release, of one checkout or of two.                 *)
EXTENDS NativeTools

MCKinds == {"go-vet", "go-test", "go-mod", "go-lint", "go-vuln", "workflow-lint", "secrets",
            "go-imports", "shell-lint", "deps-vuln", "workflow-security"}
MCToolChecks == {<<k, 1>> : k \in MCKinds}
                  \cup {<<k, n>> : k \in {"secrets", "shell-lint"}, n \in {2, 3}}

(* The third check is of another checkout. *)
MCToolKindOf == [c \in MCToolChecks |-> c[1]]
MCCheckoutOf == [c \in MCToolChecks |-> IF c[2] = 3 THEN "v2" ELSE "v1"]
MCBeside == {{<<k, 1>>} : k \in MCKinds \ {"secrets", "shell-lint"}}
            \cup {{<<k, 1>>, <<k, n>>} : k \in {"secrets", "shell-lint"}, n \in {2, 3}}
===============================================================================
