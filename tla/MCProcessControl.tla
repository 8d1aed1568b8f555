-------------------------- MODULE MCProcessControl --------------------------
(* Instances of ProcessControl for TLC: two instances of the application     *)
(* `web', in the namespaces `apps' and `all', and a process whose name is   *)
(* the word `all', in the namespace `web'; an expression for every name.    *)
EXTENDS ProcessControl

CONSTANTS p1, p2, p3, web, apps, every

MCNameOf == [p \in Proc |-> IF p = p3 THEN All ELSE web]
MCNamespaceOf == [p \in Proc |-> IF p = p3 THEN web ELSE IF p = p2 THEN All ELSE apps]
MCMatched == [t \in Pattern |-> Name]
=============================================================================
