------------------------------ MODULE MCReload ------------------------------
(***************************************************************************)
(* Three slots and files of up to two links: the same signature twice or   *)
(* with another one, in a group or not, with other options and sizes, for  *)
(* links that listen and one that does not.  The slots run                 *)
(* out when connections are accepted between reloads.  Two seconds let two *)
(* reloads follow each other, the first of which may find a bad file.      *)
(***************************************************************************)
EXTENDS Reload

MCEntry == {[sig |-> "a", group |-> "g",    opt |-> 1, sys |-> 0, user |-> 1],
            [sig |-> "a", group |-> "none", opt |-> 2, sys |-> 2, user |-> 0],
            [sig |-> "b", group |-> "g",    opt |-> 1, sys |-> 1, user |-> 1]}
=============================================================================
