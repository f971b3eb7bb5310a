---------------------------- MODULE MCNamespace ----------------------------
EXTENDS Namespace
CONSTANTS c1, c2, f1, f2, f3
MCUses == (c1 :> {f1, f2, f3}) @@ (c2 :> {f1})
MCMaxFiles == (f1 :> 2) @@ (f2 :> 1) @@ (f3 :> 1)
=============================================================================
