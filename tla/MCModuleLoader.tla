--------------------------- MODULE MCModuleLoader ---------------------------
(* A driver, a file system on it, a module that needs both (its names      *)
(* enclosed in commas, as deps_block expects), one on top of that, and one *)
(* that lists two names without enclosing them.                            *)
EXTENDS ModuleLoader, TLC

MCHeader ==
    ("ata"    :> [name |-> "ata",  wrapped |-> FALSE, names |-> <<>>]) @@
    ("fat"    :> [name |-> "fat",  wrapped |-> FALSE, names |-> <<"ata">>]) @@
    ("both"   :> [name |-> "both", wrapped |-> TRUE,  names |-> <<"ata", "fat">>]) @@
    ("top"    :> [name |-> "top",  wrapped |-> TRUE,  names |-> <<"both">>]) @@
    ("plain"  :> [name |-> "plain", wrapped |-> FALSE, names |-> <<"ata", "fat">>])
MCFile == DOMAIN MCHeader
=============================================================================
