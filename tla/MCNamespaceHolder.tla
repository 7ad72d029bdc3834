--------------------------- MODULE MCNamespaceHolder ---------------------------
(* Two logins and a kill of one container. *)
EXTENDS NamespaceHolder

Mode(c, i, f) == [chroot |-> c, idmap |-> i, foreground |-> f]
MCModes   == {Mode(TRUE, TRUE, FALSE), Mode(FALSE, FALSE, TRUE)}
MCKernels == {[pid |-> TRUE, user |-> TRUE], [pid |-> FALSE, user |-> FALSE]}
=============================================================================
