----------------------------- MODULE FileStore ------------------------------
(***************************************************************************)
(* What src/Robot/storage/fs promises its callers (fs.h): a set of named   *)
(* files, each operation taking effect whole or not at all.                *)
(***************************************************************************)
EXTENDS Sequences

CONSTANTS Names, Texts, EOL

VARIABLE files      \* the contents of the files that exist, by name

Contents(n) == IF n \in DOMAIN files THEN files[n] ELSE <<>>
With(n, c)  == [m \in DOMAIN files \cup {n} |-> IF m = n THEN c ELSE files[m]]
Without(n)  == [m \in DOMAIN files \ {n} |-> files[m]]

Init == files = <<>>

fs_append_line(n, text) == files' = With(n, Contents(n) \o text \o <<EOL>>)

fs_remove(n) == n \in DOMAIN files /\ files' = Without(n)

fs_copy(src, dst) == src \in DOMAIN files /\ files' = With(dst, files[src])

fs_rename(old, new) ==
  /\ old \in DOMAIN files
  /\ files' = [m \in (DOMAIN files \ {old}) \cup {new} |->
                 IF m = new THEN files[old] ELSE files[m]]

Next ==
  \E n \in Names :
    \/ \E text \in Texts : fs_append_line(n, text)
    \/ fs_remove(n)
    \/ \E m \in Names : fs_copy(n, m) \/ fs_rename(n, m)

Spec == Init /\ [][Next]_files
=============================================================================
