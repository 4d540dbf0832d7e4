------------------------------ MODULE MCRename ------------------------------
(***************************************************************************)
(* Trees for TLC: nested directories whose names and entries all change,   *)
(* names that become equal, a sealed file, links that stay whole, break or *)
(* lead to a directory, and a root whose own name changes.                 *)
(***************************************************************************)
EXTENDS Rename, TLC

\* Characters by their codes.
eos == <<101, 111, 115>>  uos == <<117, 111, 115>>
EOS == <<69, 79, 83>>     UOS == <<85, 79, 83>>
Eos == <<69, 111, 115>>   Uos == <<85, 111, 115>>
a == <<97>>
x == <<120>>

MCRenaming == (eos :> uos) @@ (EOS :> UOS) @@ (Eos :> Uos)
MCOrders == {ord \in [1..3 -> {eos, EOS, Eos}] :
               \A j, k \in 1..3 : ord[j] = ord[k] => j = k}

Node(id, kind, text, target) == [id |-> id, kind |-> kind, text |-> text, target |-> target]
Dir(id)        == Node(id, "dir", << >>, << >>)
File(id, text) == Node(id, "file", text, << >>)
Link(id, to)   == Node(id, "link", << >>, to)

Nested ==  \* a/eosEOS/ with a file and a directory to rename, and a file to keep
     (<<a>> :> Dir(1)) @@ (<<a, eos \o EOS>> :> Dir(2))
  @@ (<<a, eos \o EOS, x \o Eos>> :> File(3, Eos \o x \o eos))
  @@ (<<a, eos \o EOS, Eos>> :> Dir(4))
  @@ (<<a, x>> :> File(5, x \o <<101>> \o eos))
Equal ==   \* files that become equal, a directory and a file that become equal
     (<<a>> :> Dir(1)) @@ (<<a, eos>> :> File(2, eos)) @@ (<<a, uos>> :> File(3, x))
  @@ (<<a, Eos>> :> Dir(4)) @@ (<<a, Eos, eos>> :> File(5, eos))
  @@ (<<a, Uos>> :> File(6, x))
Linked ==  \* links to a file that keeps its name, one that does not, a directory
     (<<a>> :> Dir(1)) @@ (<<a, x>> :> File(2, EOS))
  @@ (<<a, eos>> :> Link(3, <<a, x>>)) @@ (<<a, eos \o x>> :> Node(4, "sealed", eos, << >>))
  @@ (<<a, x \o x>> :> Link(5, <<a, eos \o x>>)) @@ (<<a, x \o eos>> :> Link(6, <<a>>))
Own ==     \* the root itself
     (<<eos>> :> Dir(1)) @@ (<<eos, Eos>> :> File(2, eos \o eos))

MCTrees == {Nested, Equal, Linked, Own}
=============================================================================
